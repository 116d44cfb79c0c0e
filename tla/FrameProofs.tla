----------------------------- MODULE FrameProofs -----------------------------
(***************************************************************************)
(* Framed responses, for any streams, chunks, lines, limits and pieces:    *)
(* the byte count is that of the list, and each stream behaves as if it    *)
(* had the connection to itself.                                           *)
(*                                                                         *)
(* What is in the buffer and under way is a sequence of bytes, and neither *)
(* the buffer nor the connection knows where a frame begins.  The          *)
(* invariant says that there is a sequence of frames F of which these      *)
(* bytes are the code (InPipe), and that the frames of each stream in F    *)
(* are those between what its reader has taken and what its pump has sent, *)
(* each once and in order (Numbered).  The number n of a frame is not in   *)
(* its code: it is what the proof adds.                                    *)
(*                                                                         *)
(* FlattenSeq is defined by a recursive function.  What the proof needs of *)
(* it follows from SetInduction, which is about a set and not an operator. *)
(***************************************************************************)
EXTENDS FramedResponse, SequenceTheorems, WellFoundedInduction, TLAPS

-----------------------------------------------------------------------------
(* The bytes of a list of pieces. *)

ListOf(B) == Seq(Seq(B))

\* Induction up to n, for a set in place of a predicate.
LEMMA SetInduction ==
  ASSUME NEW n \in Nat, NEW T, 0 \in T, \A k \in 0..(n - 1) : k \in T => k + 1 \in T
  PROVE  \A k \in 0..n : k \in T
<1> DEFINE Less == {x \in Nat \X Nat : x[1] < x[2]}
           U == {k \in 0..n : k \notin T}
<1>1. IsWellFoundedOn(Less, Nat) BY NatLessThanWellFounded DEF OpToRel
<1>2. SUFFICES ASSUME U # {} PROVE FALSE OBVIOUS
<1>3. U \subseteq Nat OBVIOUS
<1>4. PICK x \in U : \A y \in U : ~(<<y, x>> \in Less)
  <2> HIDE DEF U, Less
  <2> QED BY <1>1, <1>2, <1>3, WFMin
<1>5. x \in 1..n /\ x \notin T BY <1>4
<1>6. x - 1 \in 0..(n - 1) /\ x - 1 \notin T BY <1>5
<1>7. x - 1 \in U /\ <<x - 1, x>> \in Less BY <1>5, <1>6
<1> QED BY <1>4, <1>7

\* f gives the first pieces of s put together, up to the k-th.
Sums(s, k, f) == \A i \in 1..k : f[i] = IF i = 1 THEN s[i] ELSE f[i - 1] \o s[i]

\* FlattenSeq is defined by the one function that gives these.
LEMMA SumsOf ==
  ASSUME NEW k, NEW s, NEW f
  PROVE  f = [i \in 1..k |-> IF i = 1 THEN s[i] ELSE f[i - 1] \o s[i]]
           <=> f = [i \in 1..k |-> f[i]] /\ Sums(s, k, f)
<1> DEFINE e(i) == IF i = 1 THEN s[i] ELSE f[i - 1] \o s[i]
<1> HIDE DEF e
<1>1. f = [i \in 1..k |-> e(i)] <=> f = [i \in 1..k |-> f[i]] /\ \A i \in 1..k : f[i] = e(i)
  OBVIOUS
<1> QED BY <1>1 DEF e, Sums

\* They exist, so that the recursive definition of FlattenSeq has a meaning.
LEMMA SumsExist ==
  ASSUME NEW s, Len(s) \in Nat
  PROVE  \E f : f = [i \in 1..Len(s) |-> f[i]] /\ Sums(s, Len(s), f)
<1> DEFINE T == {k \in 0..Len(s) : \E f : f = [i \in 1..k |-> f[i]] /\ Sums(s, k, f)}
<1>1. 0 \in T
  <2>1. Sums(s, 0, <<>>) BY DEF Sums
  <2>2. <<>> = [i \in 1..0 |-> <<>>[i]] OBVIOUS
  <2>3. \E f : f = [i \in 1..0 |-> f[i]] /\ Sums(s, 0, f) BY <2>1, <2>2, Zenon
  <2>4. 0 \in 0..Len(s) OBVIOUS
  <2> QED BY <2>3, <2>4, Zenon
<1>2. ASSUME NEW k \in 0..(Len(s) - 1), k \in T PROVE k + 1 \in T
  <2>1. PICK f : Sums(s, k, f) BY <1>2
  <2> DEFINE g == [i \in 1..(k + 1) |-> IF i <= k THEN f[i] ELSE IF i = 1 THEN s[i] ELSE f[k] \o s[i]]
  <2>2. ASSUME NEW i \in 1..(k + 1) PROVE g[i] = IF i = 1 THEN s[i] ELSE g[i - 1] \o s[i]
    <3>1. CASE i <= k
      <4>1. f[i] = IF i = 1 THEN s[i] ELSE f[i - 1] \o s[i] BY <2>1, <3>1 DEF Sums
      <4>2. i # 1 => i - 1 \in 1..(k + 1) /\ i - 1 <= k BY <3>1
      <4>3. g[i] = f[i] /\ (i # 1 => g[i - 1] = f[i - 1]) BY <3>1, <4>2
      <4> QED BY <4>1, <4>3
    <3>2. CASE i = k + 1 BY <3>2
    <3> QED BY <3>1, <3>2
  <2>3. g = [i \in 1..(k + 1) |-> g[i]] OBVIOUS
  <2> HIDE DEF g
  <2>4. Sums(s, k + 1, g) BY <2>2 DEF Sums
  <2> QED BY <2>3, <2>4
<1> HIDE DEF T
<1>3. Len(s) \in T
  <2>1. \A k \in 0..Len(s) : k \in T BY <1>1, <1>2, SetInduction
  <2> QED BY <2>1
<1> QED BY <1>3 DEF T

LEMMA SumsOfFirst ==
  ASSUME NEW s, NEW t, NEW k \in Nat, \A i \in 1..k : s[i] = t[i],
         NEW f, Sums(s, k, f), NEW g, Sums(t, k, g)
  PROVE  \A i \in 1..k : f[i] = g[i]
<1> DEFINE T == {0} \cup {i \in 1..k : f[i] = g[i]}
<1>1. ASSUME NEW i \in 0..(k - 1), i \in T PROVE i + 1 \in T
  <2>1. f[i + 1] = IF i = 0 THEN s[i + 1] ELSE f[i] \o s[i + 1] BY DEF Sums
  <2>2. g[i + 1] = IF i = 0 THEN t[i + 1] ELSE g[i] \o t[i + 1] BY DEF Sums
  <2>3. i # 0 => f[i] = g[i] BY <1>1
  <2> QED BY <2>1, <2>2, <2>3
<1>2. \A i \in 0..k : i \in T
  <2>1. 0 \in T OBVIOUS
  <2> HIDE DEF T
  <2> QED BY <1>1, <2>1, SetInduction
<1> QED BY <1>2

\* FlattenSeq is the last of them.
LEMMA FlatIs ==
  ASSUME NEW s, Len(s) \in Nat \ {0}
  PROVE  \E f : Sums(s, Len(s), f) /\ FlattenSeq(s) = f[Len(s)]
<1> DEFINE Flat(f) == f = [i \in 1..Len(s) |-> IF i = 1 THEN s[i] ELSE f[i - 1] \o s[i]]
<1>1. FlattenSeq(s) = (CHOOSE f : Flat(f))[Len(s)] BY DEF FlattenSeq
<1>2. \E f : Flat(f)
  <2>1. PICK f : f = [i \in 1..Len(s) |-> f[i]] /\ Sums(s, Len(s), f) BY SumsExist
  <2>2. Flat(f) <=> f = [i \in 1..Len(s) |-> f[i]] /\ Sums(s, Len(s), f) BY SumsOf
  <2> HIDE DEF Flat
  <2> QED BY <2>1, <2>2
<1> HIDE DEF Flat
<1>3. Flat(CHOOSE f : Flat(f)) BY <1>2
<1>4. Sums(s, Len(s), CHOOSE f : Flat(f)) BY <1>3, SumsOf DEF Flat
<1> QED BY <1>1, <1>4

LEMMA FlatEmpty == FlattenSeq(<<>>) = <<>>
BY DEF FlattenSeq

LEMMA FlatType ==
  ASSUME NEW B, NEW s \in ListOf(B)
  PROVE  FlattenSeq(s) \in Seq(B)
<1>1. CASE s = <<>>
  <2>1. <<>> \in Seq(B) OBVIOUS
  <2> QED BY <1>1, <2>1, FlatEmpty, Zenon
<1>2. CASE s # <<>>
  <2>1. Len(s) \in Nat \ {0} BY <1>2
  <2>2. PICK f : Sums(s, Len(s), f) /\ FlattenSeq(s) = f[Len(s)] BY <2>1, FlatIs
  <2> DEFINE T == {0} \cup {k \in 1..Len(s) : f[k] \in Seq(B)}
  <2>3. ASSUME NEW k \in 0..(Len(s) - 1), k \in T PROVE k + 1 \in T
    <3>1. f[k + 1] = IF k = 0 THEN s[k + 1] ELSE f[k] \o s[k + 1] BY <2>1, <2>2 DEF Sums
    <3>2. s[k + 1] \in Seq(B) BY <2>1 DEF ListOf
    <3>3. k # 0 => f[k] \in Seq(B) BY <2>3
    <3>4. f[k + 1] \in Seq(B) BY <3>1, <3>2, <3>3
    <3> QED BY <3>4, <2>1
  <2>4. \A k \in 0..Len(s) : k \in T
    <3>1. 0 \in T OBVIOUS
    <3> HIDE DEF T
    <3> QED BY <2>1, <2>3, <3>1, SetInduction
  <2> QED BY <2>1, <2>2, <2>4
<1> QED BY <1>1, <1>2

\* A piece more, and one list behind another.
LEMMA FlatAppend ==
  ASSUME NEW B, NEW s \in ListOf(B), NEW x \in Seq(B)
  PROVE  FlattenSeq(Append(s, x)) = FlattenSeq(s) \o x
<1> DEFINE t == Append(s, x)
<1>1. /\ Len(s) \in Nat /\ Len(t) = Len(s) + 1 /\ t[Len(s) + 1] = x
      /\ \A i \in 1..Len(s) : s[i] = t[i]
  OBVIOUS
<1> HIDE DEF t
<1>2. PICK g : Sums(t, Len(t), g) /\ FlattenSeq(t) = g[Len(t)] BY <1>1, FlatIs
<1>3. FlattenSeq(t) = IF Len(s) = 0 THEN x ELSE g[Len(s)] \o x BY <1>1, <1>2 DEF Sums
<1>4. CASE s = <<>> BY <1>1, <1>3, <1>4, FlatEmpty DEF t
<1>5. CASE s # <<>>
  <2>1. Len(s) \in Nat \ {0} BY <1>5
  <2>2. PICK f : Sums(s, Len(s), f) /\ FlattenSeq(s) = f[Len(s)] BY <2>1, FlatIs
  <2>3. Sums(t, Len(s), g) BY <1>1, <1>2 DEF Sums
  <2>4. Len(s) \in Nat /\ \A i \in 1..Len(s) : s[i] = t[i] BY <1>1
  <2>5. \A i \in 1..Len(s) : f[i] = g[i] BY <2>2, <2>3, <2>4, SumsOfFirst
  <2>6. f[Len(s)] = g[Len(s)] BY <2>1, <2>5
  <2> QED BY <1>3, <2>1, <2>2, <2>6 DEF t
<1> QED BY <1>4, <1>5

LEMMA FlatConcat ==
  ASSUME NEW B, NEW s \in ListOf(B), NEW t \in ListOf(B)
  PROVE  FlattenSeq(s \o t) = FlattenSeq(s) \o FlattenSeq(t)
<1> DEFINE First(k) == SubSeq(t, 1, k)
           T == {k \in 0..Len(t) : FlattenSeq(s \o First(k)) = FlattenSeq(s) \o FlattenSeq(First(k))}
<1>1. Len(t) \in Nat /\ FlattenSeq(s) \in Seq(B) BY FlatType DEF ListOf
<1>2. 0 \in T
  <2>1. First(0) = <<>> OBVIOUS
  <2>2. s \o <<>> = s /\ FlattenSeq(s) \o <<>> = FlattenSeq(s) BY <1>1
  <2>3. FlattenSeq(s \o First(0)) = FlattenSeq(s) \o FlattenSeq(First(0)) BY <2>1, <2>2, FlatEmpty
  <2> QED BY <1>1, <2>3
<1>3. ASSUME NEW k \in 0..(Len(t) - 1), k \in T PROVE k + 1 \in T
  <2>1. First(k) \in ListOf(B) /\ t[k + 1] \in Seq(B) BY <1>1 DEF ListOf
  <2>2. First(k + 1) = Append(First(k), t[k + 1])
    <3>1. SubSeq(t, 1, k + 1) = SubSeq(t, 1, k) \o <<t[k + 1]>>
      BY <1>1, 1 \in 1..Len(t), k + 1 \in 1..Len(t), (k + 1) - 1 = k, SubSeqRecursiveSecond
    <3> QED BY <2>1, <3>1, AppendIsConcat
  <2>3. s \o First(k + 1) = Append(s \o First(k), t[k + 1]) BY <2>1, <2>2
  <2>4. s \o First(k) \in ListOf(B) BY <2>1 DEF ListOf
  <2>5. FlattenSeq(First(k)) \in Seq(B) BY <2>1, FlatType
  <2>6. FlattenSeq(s \o First(k)) = FlattenSeq(s) \o FlattenSeq(First(k)) BY <1>3
  <2> HIDE DEF First
  <2>7. FlattenSeq(s \o First(k + 1)) = (FlattenSeq(s) \o FlattenSeq(First(k))) \o t[k + 1]
    <3>1. FlattenSeq(Append(s \o First(k), t[k + 1])) = FlattenSeq(s \o First(k)) \o t[k + 1]
      BY <2>1, <2>4, FlatAppend
    <3> QED BY <2>3, <2>6, <3>1
  <2>8. FlattenSeq(First(k + 1)) = FlattenSeq(First(k)) \o t[k + 1] BY <2>1, <2>2, FlatAppend
  <2>9. FlattenSeq(s \o First(k + 1)) = FlattenSeq(s) \o FlattenSeq(First(k + 1))
    <3>1. (FlattenSeq(s) \o FlattenSeq(First(k))) \o t[k + 1]
            = FlattenSeq(s) \o (FlattenSeq(First(k)) \o t[k + 1])
      <4>1. FlattenSeq(s) \in Seq(B) BY FlatType
      <4>2. t[k + 1] \in Seq(B) BY <2>1
      <4> DEFINE a == FlattenSeq(s)  b == FlattenSeq(First(k))  c == t[k + 1]
      <4>3. a \in Seq(B) /\ b \in Seq(B) /\ c \in Seq(B) BY <2>5, <4>1, <4>2
      <4> HIDE DEF a, b, c
      <4>4. (a \o b) \o c = a \o (b \o c) BY <4>3, ConcatAssociative
      <4> QED BY <4>4 DEF a, b, c
    <3> QED BY <2>7, <2>8, <3>1
  <2> QED BY <2>9, <1>1
<1>4. Len(t) \in T
  <2> HIDE DEF T
  <2>1. \A k \in 0..Len(t) : k \in T BY <1>1, <1>2, <1>3, SetInduction
  <2> QED BY <1>1, <2>1
<1>5. First(Len(t)) = t BY DEF ListOf
<1> QED BY <1>4, <1>5

\* A set of numbers that has 0 has a last one up to n, or n itself.
LEMMA LastExists ==
  ASSUME NEW n \in Nat, NEW T, 0 \in T
  PROVE  \E k \in 0..n : k \in T /\ (k = n \/ k + 1 \notin T)
<1> SUFFICES ASSUME \A k \in 0..n : k \in T => k # n /\ k + 1 \in T PROVE FALSE OBVIOUS
<1>1. \A k \in 0..n : k \in T BY SetInduction
<1> QED BY <1>1

\* Bytes are cut off within the first part, or with all of it.
LEMMA SkipFirst ==
  ASSUME NEW B, NEW a \in Seq(B), NEW b \in Seq(B), NEW n \in 0..Len(a)
  PROVE  SubSeq(a \o b, n + 1, Len(a \o b)) = SubSeq(a, n + 1, Len(a)) \o b
<1> DEFINE u == a \o b
           x == SubSeq(a, n + 1, Len(a))
           v == SubSeq(u, n + 1, Len(u))
<1>1. Len(a) \in Nat /\ Len(b) \in Nat /\ n \in Nat /\ n <= Len(a) OBVIOUS
<1>2. /\ u \in Seq(B) /\ Len(u) = Len(a) + Len(b)
      /\ \A i \in 1..Len(a) + Len(b) : u[i] = IF i <= Len(a) THEN a[i] ELSE b[i - Len(a)]
  BY ConcatProperties
<1>3. /\ x \in Seq(B) /\ Len(x) = Len(a) - n
      /\ \A i \in 1..Len(x) : x[i] = a[n + i]
  BY <1>1
<1> HIDE DEF x, u
<1>4. /\ v \in Seq(B) /\ Len(v) = Len(u) - n
      /\ \A i \in 1..Len(v) : v[i] = u[n + i]
  BY <1>1, <1>2
<1>5. /\ x \o b \in Seq(B) /\ Len(x \o b) = Len(x) + Len(b)
      /\ \A i \in 1..Len(x) + Len(b) : (x \o b)[i] = IF i <= Len(x) THEN x[i] ELSE b[i - Len(x)]
  BY <1>3, ConcatProperties
<1> HIDE DEF v
<1>6. Len(x \o b) = Len(v) /\ Len(v) \in Nat /\ Len(v) = Len(x) + Len(b)
  BY <1>1, <1>2, <1>3, <1>4, <1>5
<1>7. ASSUME NEW i \in 1..Len(v) PROVE (x \o b)[i] = v[i]
  <2>1. v[i] = IF n + i <= Len(a) THEN a[n + i] ELSE b[n + i - Len(a)]
    BY <1>1, <1>2, <1>4
  <2>2. (x \o b)[i] = IF i <= Len(x) THEN x[i] ELSE b[i - Len(x)]
    BY <1>5, <1>6
  <2>3. i <= Len(x) <=> n + i <= Len(a) BY <1>1, <1>3
  <2>4. i - Len(x) = n + i - Len(a) BY <1>1, <1>3
  <2>5. i <= Len(x) => x[i] = a[n + i] BY <1>1, <1>3
  <2>6. CASE i <= Len(x) BY <2>1, <2>2, <2>3, <2>5, <2>6, Zenon
  <2>7. CASE ~(i <= Len(x)) BY <2>1, <2>2, <2>3, <2>4, <2>7, Zenon
  <2> QED BY <2>6, <2>7
<1>8. x \o b = v BY <1>4, <1>5, <1>6, <1>7, SeqEqual
<1> QED BY <1>8 DEF x, u, v

LEMMA SkipWhole ==
  ASSUME NEW B, NEW a \in Seq(B), NEW b \in Seq(B), NEW n \in Nat
  PROVE  SubSeq(a \o b, Len(a) + n + 1, Len(a \o b)) = SubSeq(b, n + 1, Len(b))
<1> DEFINE u == a \o b
           x == SubSeq(b, n + 1, Len(b))
           v == SubSeq(u, Len(a) + n + 1, Len(u))
<1>1. Len(a) \in Nat /\ Len(b) \in Nat OBVIOUS
<1>2. /\ u \in Seq(B) /\ Len(u) = Len(a) + Len(b)
      /\ \A i \in 1..Len(b) : u[Len(a) + i] = b[i]
  OBVIOUS
<1>3. /\ x \in Seq(B) /\ Len(x) = IF n <= Len(b) THEN Len(b) - n ELSE 0
      /\ \A i \in 1..Len(x) : x[i] = b[n + i]
  BY <1>1
<1> HIDE DEF x, u
<1>4. /\ v \in Seq(B) /\ Len(v) = IF n <= Len(b) THEN Len(b) - n ELSE 0
      /\ \A i \in 1..Len(v) : v[i] = u[Len(a) + n + i]
  BY <1>1, <1>2
<1> HIDE DEF v
<1>5. ASSUME NEW i \in 1..Len(v) PROVE x[i] = v[i]
  <2>1. n + i \in 1..Len(b) /\ Len(a) + n + i = Len(a) + (n + i) BY <1>1, <1>4
  <2>2. v[i] = u[Len(a) + (n + i)] BY <1>4, <2>1
  <2>3. x[i] = b[n + i] BY <1>3, <1>4
  <2> QED BY <1>2, <2>1, <2>2, <2>3
<1>6. x = v BY <1>3, <1>4, <1>5, SeqEqual
<1> QED BY <1>6 DEF x, u, v

\* Drop takes n bytes from the front of what is buffered, wherever pieces end.
LEMMA Dropped ==
  ASSUME NEW B, bufferList \in ListOf(B), NEW n \in 0..Len(FlattenSeq(bufferList))
  PROVE  /\ Drop(n) \in ListOf(B)
         /\ FlattenSeq(Drop(n))
              = SubSeq(FlattenSeq(bufferList), n + 1, Len(FlattenSeq(bufferList)))
<1> DEFINE l == bufferList
           First(k) == SubSeq(l, 1, k)
           T == {k \in 0..Len(l) : Fits(k, n)}
           k == Whole(n)
<1>1. Len(l) \in Nat /\ FlattenSeq(l) \in Seq(B) BY FlatType DEF ListOf
<1>2. Len(FlattenSeq(l)) \in Nat /\ n \in Nat /\ n <= Len(FlattenSeq(l)) BY <1>1
<1>3. First(0) = <<>> OBVIOUS
<1>4. 0 \in T
  <2>1. Len(FlattenSeq(First(0))) = 0
    <3>1. FlattenSeq(First(0)) = <<>> BY <1>3, FlatEmpty, Zenon
    <3> QED BY <3>1
  <2> QED BY <1>1, <1>2, <2>1 DEF Fits
<1>5. k \in 0..Len(l) /\ Fits(k, n) /\ (k = Len(l) \/ ~Fits(k + 1, n))
  <2>1. \E j \in 0..Len(l) : j \in T /\ (j = Len(l) \/ j + 1 \notin T)
    <3> HIDE DEF T, l
    <3> QED BY <1>1, <1>4, LastExists
  <2>2. PICK j \in 0..Len(l) : j \in T /\ (j = Len(l) \/ j + 1 \notin T) BY <2>1
  <2>3. j = Len(l) \/ j + 1 \in 0..Len(l) BY <1>1
  <2>4. Fits(j, n) /\ (j = Len(l) \/ ~Fits(j + 1, n)) BY <2>2, <2>3
  <2> QED BY <2>4 DEF Whole
<1>6. k \in 0..Len(l) /\ Len(FlattenSeq(First(k))) <= n BY <1>5 DEF Fits
<1>7. CASE k = Len(l)
  <2>1. First(k) = l BY <1>7 DEF ListOf
  <2>2. n = Len(FlattenSeq(l))
    <3>1. Len(FlattenSeq(l)) <= n BY <1>6, <2>1, Zenon
    <3> QED BY <1>2, <3>1
  <2>3. Drop(n) = <<>> BY <1>7 DEF Drop
  <2>4. SubSeq(FlattenSeq(l), n + 1, Len(FlattenSeq(l))) = <<>> BY <1>1, <1>2, <2>2, SubSeqEmpty
  <2>5. <<>> \in ListOf(B) BY DEF ListOf
  <2> QED BY <2>3, <2>4, <2>5, FlatEmpty
<1>8. CASE k < Len(l)
  <2> DEFINE x == l[k + 1]
             cut == n - Len(FlattenSeq(First(k)))
             y == SubSeq(x, cut + 1, Len(x))
             Rest == SubSeq(l, k + 2, Len(l))
  <2>1. /\ First(k) \in ListOf(B) /\ x \in Seq(B) /\ Rest \in ListOf(B)
        /\ First(k + 1) \in ListOf(B)
    BY <1>1, <1>6, <1>8 DEF ListOf
  <2>2. First(k + 1) = Append(First(k), x)
    <3>1. SubSeq(l, 1, k + 1) = SubSeq(l, 1, k) \o <<l[k + 1]>>
      <4>1. l \in Seq(Seq(B)) /\ 1 \in 1..Len(l) /\ k + 1 \in 1..Len(l) /\ (k + 1) - 1 = k
        BY <1>1, <1>6, <1>8 DEF ListOf
      <4> HIDE DEF l, k
      <4> QED BY <4>1, SubSeqRecursiveSecond
    <3>2. First(k) \in Seq(Seq(B)) BY <2>1 DEF ListOf
    <3> QED BY <2>1, <3>1, <3>2, AppendIsConcat
  <2>3. l = First(k + 1) \o Rest
    <3>1. l \in Seq(Seq(B)) /\ k + 1 \in 1..Len(l) BY <1>1, <1>6, <1>8 DEF ListOf
    <3>2. SubSeq(l, 1, k + 1) \o SubSeq(l, k + 2, Len(l)) = SubSeq(l, 1, Len(l))
      <4>1. k + 1 \in 0..Len(l) /\ Len(l) \in k + 1..Len(l) /\ 1 \in 1..Len(l) + 1
            /\ 1 - 1 = 0 /\ (k + 1) + 1 = k + 2
        BY <1>1, <1>6, <3>1
      <4> HIDE DEF l, k
      <4> QED BY <3>1, <4>1, ConcatAdjacentSubSeq
    <3>3. SubSeq(l, 1, Len(l)) = l BY <3>1, SubSeqFull
    <3> QED BY <3>2, <3>3
  <2> DEFINE a == FlattenSeq(First(k))
             v == FlattenSeq(First(k + 1))
             c == FlattenSeq(Rest)
  <2>4. a \in Seq(B) /\ v \in Seq(B) /\ c \in Seq(B) BY <2>1, FlatType
  <2>5. v = a \o x
    <3>1. FlattenSeq(Append(First(k), x)) = FlattenSeq(First(k)) \o x BY <2>1, FlatAppend
    <3> QED BY <2>2, <3>1
  <2>6. FlattenSeq(l) = v \o c
    <3>1. FlattenSeq(First(k + 1) \o Rest) = FlattenSeq(First(k + 1)) \o c
      BY <2>1, FlatConcat
    <3> QED BY <2>3, <3>1
  <2>7. Len(a) \in Nat /\ Len(a) <= n /\ n \in 0..Len(v)
    <3>1. Len(a) \in Nat /\ Len(v) \in Nat BY <2>4
    <3>2. ~Fits(k + 1, n) BY <1>1, <1>5, <1>8
    <3>3. ~(Len(v) <= n) BY <3>2 DEF Fits
    <3>4. Len(a) <= n BY <1>6
    <3> HIDE DEF a, v
    <3> QED BY <1>2, <3>1, <3>3, <3>4
  <2>8. y \in Seq(B) /\ y \o c = SubSeq(FlattenSeq(l), n + 1, Len(FlattenSeq(l)))
    <3>1. cut = n - Len(a) OBVIOUS
    <3>2. y \in Seq(B) BY <1>2, <2>1, <2>7
    <3> DEFINE u == FlattenSeq(l)
    <3> HIDE DEF a, x, c, v, u, cut
    <3>3. u = v \o c BY <2>6 DEF u
    <3>4. SubSeq(u, n + 1, Len(u)) = SubSeq(v, n + 1, Len(v)) \o c BY <2>4, <2>7, <3>3, SkipFirst
    <3>5. cut \in Nat /\ n = Len(a) + cut BY <1>2, <2>7, <3>1
    <3>6. x \in Seq(B) BY <2>1
    <3>7. SubSeq(v, Len(a) + cut + 1, Len(v)) = SubSeq(x, cut + 1, Len(x))
      BY <2>4, <2>5, <3>5, <3>6, SkipWhole
    <3>8. SubSeq(u, n + 1, Len(u)) = y \o c BY <3>4, <3>5, <3>7
    <3> QED BY <3>2, <3>8 DEF u
  <2>9. Drop(n) = <<y>> \o Rest
    <3>1. k # Len(l) BY <1>1, <1>6, <1>8
    <3> QED BY <3>1 DEF Drop
  <2>10. <<y>> \in ListOf(B) /\ <<y>> = Append(<<>>, y) /\ <<>> \in ListOf(B) BY <2>8 DEF ListOf
  <2>11. FlattenSeq(<<y>>) = y
    <3>1. FlattenSeq(Append(<<>>, y)) = FlattenSeq(<<>>) \o y BY <2>8, <2>10, FlatAppend
    <3>2. <<>> \o y = y BY <2>8
    <3> QED BY <2>10, <3>1, <3>2, FlatEmpty
  <2>12. FlattenSeq(<<y>> \o Rest) = y \o c
    BY <2>1, <2>10, <2>11, FlatConcat
  <2>13. <<y>> \o Rest \in ListOf(B) BY <2>1, <2>10 DEF ListOf
  <2> QED BY <2>8, <2>9, <2>12, <2>13
<1> QED BY <1>1, <1>6, <1>7, <1>8

-----------------------------------------------------------------------------
(* Frames and their code. *)

FrameType == {"JSON", "CHUNK", "END", "ERROR"}
\* What a sequence of bytes is made of.
Cell == [type : FrameType, id : Channel] \cup Nat \cup Byte \cup {"message"}

\* Frames, each with its place n among those of its channel.
Frame == [type : FrameType, id : Channel, payload : Seq(Cell), n : Nat]
Code(f) == encodeFrame(f.type, f.id, f.payload)
Codes(F) == [i \in 1..Len(F) |-> Code(F[i])]
Bytes(F) == FlattenSeq(Codes(F))

\* What the code of a frame is made of.
LEMMA CodeIs ==
  ASSUME NEW f \in Frame
  PROVE  /\ Code(f) \in Seq(Cell) /\ Len(Code(f)) = 2 + Len(f.payload)
         /\ Code(f)[1] = [type |-> f.type, id |-> f.id] /\ Code(f)[2] = Len(f.payload)
         /\ SubSeq(Code(f), 3, 2 + Len(f.payload)) = f.payload
<1> DEFINE h == <<[type |-> f.type, id |-> f.id], Len(f.payload)>>
           p == f.payload
<1>1. p \in Seq(Cell) /\ Len(p) \in Nat BY DEF Frame
<1>2. h \in Seq(Cell) /\ Len(h) = 2 /\ h[1] = [type |-> f.type, id |-> f.id] /\ h[2] = Len(p)
  <2>1. [type |-> f.type, id |-> f.id] \in Cell BY DEF Frame, Cell
  <2>2. Len(p) \in Cell BY <1>1 DEF Cell
  <2> QED BY <2>1, <2>2
<1>3. Code(f) = h \o p BY DEF Code, encodeFrame
<1> HIDE DEF h, p
<1>4. /\ h \o p \in Seq(Cell) /\ Len(h \o p) = 2 + Len(p)
      /\ (h \o p)[1] = h[1] /\ (h \o p)[2] = h[2]
  <2>1. h \in Seq(Cell) /\ p \in Seq(Cell) BY <1>1, <1>2
  <2>2. /\ h \o p \in Seq(Cell) /\ Len(h \o p) = Len(h) + Len(p)
        /\ \A i \in 1..Len(h) + Len(p) : (h \o p)[i] = IF i <= Len(h) THEN h[i] ELSE p[i - Len(h)]
    BY <2>1, ConcatProperties
  <2> QED BY <1>1, <1>2, <2>2
<1>5. SubSeq(h \o p, 3, 2 + Len(p)) = p
  <2>1. SubSeq(h \o p, Len(h) + 0 + 1, Len(h \o p)) = SubSeq(p, 0 + 1, Len(p))
    BY <1>1, <1>2, SkipWhole
  <2>2. SubSeq(p, 1, Len(p)) = p BY <1>1, SubSeqFull
  <2>3. Len(h) + 0 + 1 = 3 /\ 0 + 1 = 1 BY <1>2
  <2> QED BY <1>4, <2>1, <2>2, <2>3
<1>6. /\ h[1] = [type |-> f.type, id |-> f.id] /\ h[2] = Len(p) BY <1>2
<1> QED BY <1>3, <1>4, <1>5, <1>6 DEF p

LEMMA CodesType ==
  ASSUME NEW F \in Seq(Frame)
  PROVE  Codes(F) \in ListOf(Cell) /\ Len(Codes(F)) = Len(F)
<1>1. ASSUME NEW i \in 1..Len(F) PROVE Code(F[i]) \in Seq(Cell)
  <2>1. F[i] \in Frame OBVIOUS
  <2> QED BY <2>1, CodeIs
<1> DEFINE C == Seq(Cell)
<1>2. \A i \in 1..Len(F) : Code(F[i]) \in C BY <1>1
<1> HIDE DEF C
<1>3. Codes(F) \in Seq(C) /\ Len(Codes(F)) = Len(F) BY <1>2 DEF Codes
<1> QED BY <1>3 DEF ListOf, C

LEMMA BytesType ==
  ASSUME NEW F \in Seq(Frame)
  PROVE  Bytes(F) \in Seq(Cell)
BY CodesType, FlatType DEF Bytes

LEMMA BytesEmpty == Bytes(<<>>) = <<>>
<1>1. Codes(<<>>) = <<>> BY DEF Codes
<1> QED BY <1>1, FlatEmpty DEF Bytes

\* A frame more behind, and the first in front.
LEMMA BytesAppend ==
  ASSUME NEW F \in Seq(Frame), NEW f \in Frame
  PROVE  Bytes(Append(F, f)) = Bytes(F) \o Code(f)
<1>1. Codes(F) \in ListOf(Cell) /\ Len(Codes(F)) = Len(F) BY CodesType
<1>2. Code(f) \in Seq(Cell) BY CodeIs
<1>3. Codes(Append(F, f)) = Append(Codes(F), Code(f))
  <2>1. Codes(Append(F, f)) \in ListOf(Cell) /\ Len(Codes(Append(F, f))) = Len(F) + 1
    <3>1. Append(F, f) \in Seq(Frame) /\ Len(Append(F, f)) = Len(F) + 1 OBVIOUS
    <3> QED BY <3>1, CodesType
  <2>2. \A i \in 1..Len(F) + 1 : Codes(Append(F, f))[i] = IF i <= Len(F) THEN Code(F[i]) ELSE Code(f)
    BY DEF Codes
  <2>3. \A i \in 1..Len(F) : Codes(F)[i] = Code(F[i]) BY DEF Codes
  <2> DEFINE x == Codes(Append(F, f))  y == Codes(F)  z == Code(f)  m == Len(F)  C == Seq(Cell)
             c(i) == Code(F[i])
  <2>4. /\ x \in Seq(C) /\ Len(x) = m + 1 /\ y \in Seq(C) /\ Len(y) = m /\ z \in C /\ m \in Nat
        /\ \A i \in 1..m + 1 : x[i] = IF i <= m THEN c(i) ELSE z
        /\ \A i \in 1..m : y[i] = c(i)
    BY <1>1, <1>2, <2>1, <2>2, <2>3 DEF ListOf
  <2> HIDE DEF x, y, z, m, c, C
  <2>5. x = Append(y, z) BY <2>4
  <2> QED BY <2>5 DEF x, y, z
<1>4. FlattenSeq(Append(Codes(F), Code(f))) = FlattenSeq(Codes(F)) \o Code(f)
  BY <1>1, <1>2, FlatAppend
<1> QED BY <1>3, <1>4 DEF Bytes

LEMMA BytesFirst ==
  ASSUME NEW F \in Seq(Frame), F # <<>>
  PROVE  Bytes(F) = Code(F[1]) \o Bytes(Tail(F))
<1>1. /\ F[1] \in Frame /\ Tail(F) \in Seq(Frame) /\ Len(F) \in Nat \ {0}
      /\ Len(Tail(F)) = Len(F) - 1 /\ \A i \in 1..Len(Tail(F)) : Tail(F)[i] = F[i + 1]
  OBVIOUS
<1>2. Codes(F) \in ListOf(Cell) /\ Len(Codes(F)) = Len(F) BY CodesType
<1>3. Codes(Tail(F)) \in ListOf(Cell) /\ Len(Codes(Tail(F))) = Len(F) - 1 BY <1>1, CodesType
<1>4. Code(F[1]) \in Seq(Cell) BY <1>1, CodeIs
<1> DEFINE x == Codes(F)  y == Codes(Tail(F))  z == Code(F[1])
<1>5. x = <<z>> \o y
  <2>1. \A i \in 1..Len(F) : Codes(F)[i] = Code(F[i]) BY DEF Codes
  <2>2. \A i \in 1..Len(F) - 1 : Codes(Tail(F))[i] = Code(F[i + 1]) BY <1>1 DEF Codes
  <2> DEFINE m == Len(F)  C == Seq(Cell)  c(i) == Code(F[i])
  <2>3. /\ x \in Seq(C) /\ Len(x) = m /\ y \in Seq(C) /\ Len(y) = m - 1 /\ z \in C /\ m \in Nat \ {0}
        /\ \A i \in 1..m : x[i] = c(i)
        /\ \A i \in 1..m - 1 : y[i] = c(i + 1)
        /\ z = c(1)
    BY <1>1, <1>2, <1>3, <1>4, <2>1, <2>2 DEF ListOf
  <2> HIDE DEF x, y, z, m, c, C
  <2>4. x = <<z>> \o y BY <2>3
  <2> QED BY <2>4
<1>6. <<z>> \in ListOf(Cell) /\ <<z>> = Append(<<>>, z) /\ <<>> \in ListOf(Cell) BY <1>4 DEF ListOf
<1>7. FlattenSeq(<<z>>) = z
  <2>1. FlattenSeq(Append(<<>>, z)) = FlattenSeq(<<>>) \o z BY <1>4, <1>6, FlatAppend
  <2>2. <<>> \o z = z BY <1>4
  <2> QED BY <1>6, <2>1, <2>2, FlatEmpty
<1>8. FlattenSeq(<<z>> \o y) = z \o FlattenSeq(y)
  BY <1>3, <1>6, <1>7, FlatConcat
<1> QED BY <1>5, <1>8 DEF Bytes

\* The beginning x of bytes that start with the frame f.
LEMMA FrontIs ==
  ASSUME NEW f \in Frame, NEW x \in Seq(Cell), NEW rest \in Seq(Cell), NEW b \in Seq(Cell),
         x \o rest = Code(f) \o b
  PROVE  /\ Len(x) >= 2 => /\ SubSeq(x, 1, 2)[1] = [type |-> f.type, id |-> f.id]
                           /\ SubSeq(x, 1, 2)[2] = Len(f.payload)
         /\ Len(x) >= 2 + Len(f.payload) =>
              /\ SubSeq(SubSeq(x, 1, 2 + Len(f.payload)), 3, 2 + Len(f.payload)) = f.payload
              /\ SubSeq(x, 2 + Len(f.payload) + 1, Len(x)) \o rest = b
<1> DEFINE c == Code(f)  p == f.payload  l == Len(f.payload)  h == [type |-> f.type, id |-> f.id]
<1>1. /\ c \in Seq(Cell) /\ Len(c) = 2 + l /\ c[1] = h /\ c[2] = l /\ SubSeq(c, 3, 2 + l) = p
      /\ p \in Seq(Cell) /\ l \in Nat
  <2>1. p \in Seq(Cell) BY DEF Frame
  <2>2. l \in Nat BY <2>1
  <2>3. /\ c \in Seq(Cell) /\ Len(c) = 2 + l /\ c[1] = h /\ c[2] = l
        /\ SubSeq(c, 3, 2 + l) = p
    BY CodeIs
  <2> QED BY <2>1, <2>2, <2>3, Zenon
<1>2. x \o rest = c \o b OBVIOUS
<1> HIDE DEF c, p, l, h
<1>3. Len(x) \in Nat /\ Len(rest) \in Nat /\ Len(b) \in Nat OBVIOUS
<1>4. \A i \in 1..Len(x) : i <= 2 + l => x[i] = c[i]
  <2>1. \A i \in 1..Len(x) : (x \o rest)[i] = x[i] BY <1>3
  <2>2. \A i \in 1..2 + l : (c \o b)[i] = c[i] BY <1>1, <1>3
  <2> QED BY <1>1, <1>2, <1>3, <2>1, <2>2
<1>5. ASSUME Len(x) >= 2 PROVE SubSeq(x, 1, 2)[1] = h /\ SubSeq(x, 1, 2)[2] = l
  <2>1. SubSeq(x, 1, 2)[1] = x[1] /\ SubSeq(x, 1, 2)[2] = x[2] BY <1>3, <1>5
  <2>2. x[1] = c[1] /\ x[2] = c[2] BY <1>1, <1>3, <1>4, <1>5
  <2> QED BY <1>1, <2>1, <2>2
<1>6. ASSUME Len(x) >= 2 + l
      PROVE  /\ SubSeq(SubSeq(x, 1, 2 + l), 3, 2 + l) = p
             /\ SubSeq(x, 2 + l + 1, Len(x)) \o rest = b
  <2> DEFINE u == SubSeq(x, 1, 2 + l)  v == SubSeq(x, 2 + l + 1, Len(x))
  <2>1. u \in Seq(Cell) /\ Len(u) = 2 + l /\ \A i \in 1..2 + l : u[i] = x[i] BY <1>1, <1>3, <1>6
  <2>2. v \in Seq(Cell) BY <1>1, <1>3, <1>6
  <2>3. u \o v = x
    <3>1. 2 + l \in 0..Len(x) BY <1>1, <1>3, <1>6
    <3>2. SubSeq(x, 1, 2 + l) \o SubSeq(x, 2 + l + 1, Len(x)) = SubSeq(x, 1, Len(x))
      <4>1. 1 \in 1..Len(x) + 1 /\ 2 + l \in 1 - 1..Len(x) /\ Len(x) \in 2 + l..Len(x)
        BY <1>1, <1>3, <3>1
      <4> QED BY <4>1, ConcatAdjacentSubSeq
    <3>3. SubSeq(x, 1, Len(x)) = x BY SubSeqFull
    <3> QED BY <3>2, <3>3
  <2>4. \A i \in 1..2 + l : u[i] = c[i]
    <3>1. \A i \in 1..2 + l : i \in 1..Len(x) /\ i <= 2 + l BY <1>1, <1>3, <1>6
    <3> HIDE DEF u
    <3> QED BY <1>4, <2>1, <3>1
  <2> HIDE DEF u, v
  <2>5. u = c BY <1>1, <2>1, <2>4, SeqEqual
  <2>6. (u \o v) \o rest = u \o (v \o rest)
    <3>1. u \in Seq(Cell) BY <2>1
    <3> QED BY <2>2, <3>1, ConcatAssociative
  <2>7. c \o (v \o rest) = c \o b BY <1>2, <2>3, <2>5, <2>6
  <2>8. v \o rest \in Seq(Cell) BY <2>2
  <2>9. v \o rest = b
    <3> DEFINE w == v \o rest
    <3>1. w \in Seq(Cell) /\ c \in Seq(Cell) /\ c \o w = c \o b BY <1>1, <2>7, <2>8
    <3> HIDE DEF w
    <3>2. /\ SubSeq(c \o w, Len(c) + 0 + 1, Len(c \o w)) = SubSeq(w, 0 + 1, Len(w))
          /\ SubSeq(c \o b, Len(c) + 0 + 1, Len(c \o b)) = SubSeq(b, 0 + 1, Len(b))
      BY <3>1, SkipWhole
    <3>3. SubSeq(w, 0 + 1, Len(w)) = SubSeq(b, 0 + 1, Len(b)) BY <3>1, <3>2, Zenon
    <3>4. w = b BY <3>1, <3>3, 0 + 1 = 1, SubSeqFull
    <3> QED BY <3>4 DEF w
  <2> QED BY <1>1, <2>5, <2>9 DEF u, v
<1> QED BY <1>5, <1>6 DEF c, p, l, h

-----------------------------------------------------------------------------
(* The frames of each channel. *)

\* The frames of a channel c in F are those numbered taken[c] + 1 to sent[c].
Numbered(F, taken, sent) ==
  /\ taken \in [Channel -> Nat] /\ sent \in [Channel -> Nat]
  /\ \A c \in Channel : taken[c] <= sent[c]
  /\ \A i \in 1..Len(F) : F[i].n \in taken[F[i].id] + 1..sent[F[i].id]
  /\ \A i, j \in 1..Len(F) : i < j /\ F[i].id = F[j].id => F[i].n < F[j].n
  /\ \A c \in Channel : \A m \in taken[c] + 1..sent[c] :
       \E i \in 1..Len(F) : F[i].id = c /\ F[i].n = m

\* Without frames nothing is missing; a frame is added; the first is taken.
LEMMA NumberedEmpty ==
  ASSUME NEW taken, NEW sent, NEW F, Numbered(F, taken, sent), F = <<>>, NEW c \in Channel
  PROVE  taken[c] = sent[c]
BY DEF Numbered

LEMMA NumberedAppend ==
  ASSUME NEW F \in Seq(Frame), NEW taken, NEW sent, Numbered(F, taken, sent),
         NEW f \in Frame, f.n = sent[f.id] + 1
  PROVE  Numbered(Append(F, f), taken, [sent EXCEPT ![f.id] = @ + 1])
<1> DEFINE G == Append(F, f)
           more == [sent EXCEPT ![f.id] = @ + 1]
<1>1. ASSUME NEW i \in 1..Len(F) PROVE F[i].id \in Channel /\ F[i].n \in Nat
  <2>1. F[i] \in Frame OBVIOUS
  <2> QED BY <2>1 DEF Frame
<1>2. /\ f.id \in Channel /\ f.n \in Nat /\ Len(F) \in Nat /\ Len(G) = Len(F) + 1
      /\ \A i \in 1..Len(F) : G[i] = F[i] /\ F[i].id \in Channel /\ F[i].n \in Nat
  <2>1. f.id \in Channel /\ f.n \in Nat BY DEF Frame
  <2> QED BY <1>1, <2>1
<1>3. G[Len(F) + 1] = f OBVIOUS
<1>4. /\ taken \in [Channel -> Nat] /\ sent \in [Channel -> Nat] /\ more \in [Channel -> Nat]
      /\ \A c \in Channel : taken[c] <= sent[c] /\ taken[c] \in Nat /\ sent[c] \in Nat
      /\ \A c \in Channel : more[c] = IF c = f.id THEN sent[c] + 1 ELSE sent[c]
  BY <1>2 DEF Numbered
<1> HIDE DEF G, more
<1>5. ASSUME NEW c \in Channel PROVE taken[c] <= more[c] /\ sent[c] <= more[c] /\ more[c] \in Nat
  <2>1. taken[c] \in Nat /\ sent[c] \in Nat /\ taken[c] <= sent[c] BY <1>4
  <2>2. more[c] = IF c = f.id THEN sent[c] + 1 ELSE sent[c] BY <1>4
  <2>3. more[c] = sent[c] \/ more[c] = sent[c] + 1 BY <2>2, Zenon
  <2> QED BY <2>1, <2>3
<1>6. ASSUME NEW i \in 1..Len(G) PROVE G[i].n \in taken[G[i].id] + 1..more[G[i].id]
  <2>1. CASE i \in 1..Len(F)
    <3>1. F[i].n \in taken[F[i].id] + 1..sent[F[i].id] BY <2>1 DEF Numbered
    <3>2. G[i] = F[i] /\ F[i].id \in Channel BY <1>2, <2>1
    <3>3. /\ sent[F[i].id] <= more[F[i].id] /\ more[F[i].id] \in Nat
          /\ sent[F[i].id] \in Nat /\ taken[F[i].id] \in Nat
      BY <1>4, <1>5, <3>2
    <3> QED BY <3>1, <3>2, <3>3
  <2>2. CASE i = Len(F) + 1 BY <1>2, <1>3, <1>4, <2>2
  <2> QED BY <1>2, <2>1, <2>2
<1>7. ASSUME NEW i \in 1..Len(G), NEW j \in 1..Len(G), i < j, G[i].id = G[j].id
      PROVE  G[i].n < G[j].n
  <2>1. i \in 1..Len(F) /\ G[i] = F[i] BY <1>2, <1>7
  <2>2. CASE j \in 1..Len(F) BY <1>2, <1>7, <2>1, <2>2 DEF Numbered
  <2>3. CASE j = Len(F) + 1
    <3>1. F[i].n <= sent[f.id] /\ F[i].n \in Nat
      <4>1. F[i].n \in taken[F[i].id] + 1..sent[F[i].id] BY <2>1 DEF Numbered
      <4>2. F[i].id = f.id BY <1>3, <1>7, <2>1, <2>3
      <4> QED BY <1>2, <2>1, <4>1, <4>2
    <3> QED BY <1>2, <1>3, <1>4, <2>1, <2>3, <3>1
  <2> QED BY <1>2, <2>2, <2>3
<1>8. ASSUME NEW c \in Channel, NEW m \in taken[c] + 1..more[c]
      PROVE  \E i \in 1..Len(G) : G[i].id = c /\ G[i].n = m
  <2>1. CASE m \in taken[c] + 1..sent[c]
    <3>1. PICK i \in 1..Len(F) : F[i].id = c /\ F[i].n = m BY <2>1 DEF Numbered
    <3> QED BY <1>2, <3>1
  <2>2. CASE c = f.id /\ m = sent[c] + 1
    <3>1. Len(F) + 1 \in 1..Len(G) BY <1>2
    <3> QED BY <1>3, <2>2, <3>1
  <2> QED BY <1>4, <2>1, <2>2
<1>9. Numbered(G, taken, more) BY <1>4, <1>5, <1>6, <1>7, <1>8 DEF Numbered
<1> QED BY <1>9 DEF G, more

LEMMA NumberedFirst ==
  ASSUME NEW F \in Seq(Frame), F # <<>>, NEW taken, NEW sent, Numbered(F, taken, sent)
  PROVE  /\ F[1].n = taken[F[1].id] + 1
         /\ Numbered(Tail(F), [taken EXCEPT ![F[1].id] = @ + 1], sent)
<1> DEFINE G == Tail(F)
           f == F[1]
           more == [taken EXCEPT ![f.id] = @ + 1]
<1>1. /\ Len(F) \in Nat \ {0} /\ Len(G) = Len(F) - 1
      /\ \A i \in 1..Len(G) : G[i] = F[i + 1]
      /\ \A i \in 1..Len(F) : F[i].id \in Channel /\ F[i].n \in Nat
  <2>1. ASSUME NEW i \in 1..Len(F) PROVE F[i].id \in Channel /\ F[i].n \in Nat
    <3>1. F[i] \in Frame OBVIOUS
    <3> QED BY <3>1 DEF Frame
  <2> QED BY <2>1
<1>2. f.id \in Channel /\ f.n \in Nat BY <1>1
<1>3. /\ taken \in [Channel -> Nat] /\ sent \in [Channel -> Nat] /\ more \in [Channel -> Nat]
      /\ \A c \in Channel : taken[c] <= sent[c] /\ taken[c] \in Nat /\ sent[c] \in Nat
      /\ \A c \in Channel : more[c] = IF c = f.id THEN taken[c] + 1 ELSE taken[c]
  BY <1>2 DEF Numbered
<1>4. f.n \in taken[f.id] + 1..sent[f.id] BY <1>1 DEF Numbered
<1>5. ASSUME NEW j \in 2..Len(F), F[j].id = f.id PROVE f.n < F[j].n
  BY <1>1, <1>5 DEF Numbered
<1>6. f.n = taken[f.id] + 1
  <2>1. taken[f.id] + 1 \in taken[f.id] + 1..sent[f.id] BY <1>2, <1>3, <1>4
  <2>2. PICK i \in 1..Len(F) : F[i].id = f.id /\ F[i].n = taken[f.id] + 1
    BY <1>2, <2>1 DEF Numbered
  <2>3. i = 1 \/ i \in 2..Len(F) BY <1>1
  <2> QED BY <1>2, <1>3, <1>4, <1>5, <2>2, <2>3
<1> HIDE DEF G, f, more
<1>7. ASSUME NEW c \in Channel PROVE more[c] <= sent[c] /\ taken[c] <= more[c] /\ more[c] \in Nat
  <2>1. taken[c] \in Nat /\ sent[c] \in Nat /\ taken[c] <= sent[c] BY <1>3
  <2>2. more[c] = IF c = f.id THEN taken[c] + 1 ELSE taken[c] BY <1>3
  <2>3. CASE c = f.id
    <3>1. taken[c] + 1 <= sent[c] BY <1>4, <2>1, <2>3
    <3> QED BY <2>1, <2>2, <2>3, <3>1
  <2>4. CASE c # f.id BY <2>1, <2>2, <2>4
  <2> QED BY <2>3, <2>4
<1>8. ASSUME NEW i \in 1..Len(G) PROVE G[i].n \in more[G[i].id] + 1..sent[G[i].id]
  <2>1. i + 1 \in 2..Len(F) /\ i + 1 \in 1..Len(F) /\ G[i] = F[i + 1] BY <1>1
  <2>2. F[i + 1].n \in taken[F[i + 1].id] + 1..sent[F[i + 1].id] /\ F[i + 1].id \in Channel
    BY <1>1, <2>1 DEF Numbered
  <2>3. F[i + 1].id = f.id => f.n < F[i + 1].n BY <1>5, <2>1
  <2> QED BY <1>1, <1>2, <1>3, <1>6, <2>1, <2>2, <2>3
<1>9. ASSUME NEW i \in 1..Len(G), NEW j \in 1..Len(G), i < j, G[i].id = G[j].id
      PROVE  G[i].n < G[j].n
  <2>1. /\ i + 1 \in 1..Len(F) /\ j + 1 \in 1..Len(F) /\ i + 1 < j + 1
        /\ G[i] = F[i + 1] /\ G[j] = F[j + 1]
    BY <1>1, <1>9
  <2> QED BY <1>9, <2>1 DEF Numbered
<1>10. ASSUME NEW c \in Channel, NEW m \in more[c] + 1..sent[c]
       PROVE  \E i \in 1..Len(G) : G[i].id = c /\ G[i].n = m
  <2>1. m \in taken[c] + 1..sent[c]
    <3>1. taken[c] \in Nat /\ sent[c] \in Nat /\ taken[c] <= more[c] /\ more[c] \in Nat
      BY <1>3, <1>7
    <3> QED BY <3>1
  <2>2. PICK i \in 1..Len(F) : F[i].id = c /\ F[i].n = m BY <2>1 DEF Numbered
  <2>3. i # 1
    <3>1. c = f.id => m > f.n BY <1>2, <1>3, <1>6
    <3> QED BY <1>2, <1>3, <2>2, <3>1 DEF f
  <2>4. i - 1 \in 1..Len(G) /\ G[i - 1] = F[i]
    <3>1. i - 1 \in 1..Len(G) BY <1>1, <2>3
    <3> QED BY <1>1, <3>1
  <2> QED BY <2>2, <2>4
<1>11. Numbered(G, more, sent) BY <1>3, <1>7, <1>8, <1>9, <1>10 DEF Numbered
<1> QED BY <1>6, <1>11 DEF G, f, more

-----------------------------------------------------------------------------
(* The invariant, and what a step shows of a channel. *)

Data(c) == IF c = 0 THEN Lines ELSE Chunks[c]

ServerInv ==
  /\ serialized \in 1..Len(Lines)
  /\ pumped \in [Channel -> Nat]
  /\ pumped[0] <= serialized
  /\ \A c \in Channel : pumped[c] <= Len(Data(c))
  /\ spawned \subseteq Registered(serialized)
  /\ source \in [Channel -> {"open", "ended", "failed"}]
  /\ wire \in Seq(Cell) /\ wireEnd \in {"open", "closed", "failed"}
  /\ wireEnd = "failed" => wire = <<>>
  /\ wireEnd = "closed" => PumpsDone

BufferInv == bufferList \in ListOf(Cell) /\ BufferAddsUp

Content(f) ==
  /\ f.type = "JSON" => f.id = 0 /\ f.n \in 1..pumped[0] /\ f.payload = <<Lines[f.n]>>
  /\ f.type # "JSON" => f.id \in StreamId /\ f.id \in Registered(serialized)
  /\ f.type = "CHUNK" => f.n \in 1..pumped[f.id] /\ f.payload = Chunks[f.id][f.n]
  /\ f.type = "END" => f.n = pumped[f.id] + 1 /\ source[f.id] = "ended"
  /\ f.type = "ERROR" => f.n = pumped[f.id] + 1 /\ source[f.id] = "failed"

\* How many frames the pump of a channel has made.
Made(c) == IF c # 0 /\ source[c] # "open" THEN pumped[c] + 1 ELSE pumped[c]
Live(c) == ~cancelled /\ state[c] \in {"none", "open"}

InPipe(F, rest, taken, sent) ==
  /\ F \in Seq(Frame) /\ rest \in Seq(Cell)
  /\ FlattenSeq(bufferList) \o rest = Bytes(F)
  /\ wireEnd # "failed" => rest = wire /\ \A c \in Channel : sent[c] = Made(c)
  /\ Numbered(F, taken, sent)
  /\ \A i \in 1..Len(F) : Content(F[i])
  /\ \A c \in Channel : Live(c) => taken[c] = Len(got[c])
FramesInv == pc # "end" => \E F, rest, taken, sent : InPipe(F, rest, taken, sent)

ClientInv ==
  /\ pc \in {"read", "parse", "end"} /\ cancelled \in BOOLEAN
  /\ state \in [Channel -> {"none", "open", "closed", "error", "cancelled"}]
  /\ got \in [Channel -> Seq(Seq(Cell) \cup Channel)]
  /\ \A c \in Channel : Len(got[c]) <= pumped[c] /\ got[c] = SubSeq(Data(c), 1, Len(got[c]))
  /\ linesRead \in 0..Len(got[0])
  /\ state[0] # "none"
  /\ streamControllers = {id \in StreamId : state[id] = "open"}
  /\ ~cancelled => \A id \in StreamId : Creates(id) <=> state[id] = "none"
  /\ cancelled => pc # "parse" /\ streamControllers = {} /\ state[0] # "open"
  /\ \A id \in StreamId : state[id] # "none" => id \in Registered(serialized)

Inv == ServerInv /\ ClientInv /\ BufferInv /\ FramesInv

View(c) == IF state[c] = "none" THEN "open" ELSE state[c]
Seen(c) == [sent |-> Sent(c), got |-> got[c], over |-> Over(c), state |-> View(c)]
Maps == \A c \in Channel : PerChannel!Step(Seen(c), Seen(c)') \/ Seen(c)' = Seen(c)

LEMMA ChannelFacts == /\ 0 \in Channel /\ StreamId \subseteq Channel /\ Channel \subseteq Nat
                      /\ 0 \notin StreamId /\ Channel = StreamId \cup {0}
BY ChannelAssumption DEF Channel

\* What the source of a channel makes.
LEMMA DataIs ==
  ASSUME NEW c \in Channel
  PROVE  Data(c) \in Seq(Seq(Cell) \cup Channel) /\ Len(Data(c)) \in Nat
<1>1. CASE c = 0
  <2>1. Lines \in Seq(Channel) BY ChannelAssumption
  <2>2. Channel \subseteq Seq(Cell) \cup Channel OBVIOUS
  <2>3. Lines \in Seq(Seq(Cell) \cup Channel) BY <2>1, <2>2, SeqMonotonic
  <2> QED BY <1>1, <2>3 DEF Data
<1>2. CASE c # 0
  <2>1. c \in StreamId BY <1>2, ChannelFacts
  <2> DEFINE B == Seq(Byte)
  <2>2. Chunks[c] \in Seq(B) BY <2>1, ChannelAssumption
  <2>3. B \subseteq Seq(Cell) \cup Channel
    <3>1. ASSUME NEW s \in Seq(Byte) PROVE s \in Seq(Cell)
      <4>1. Byte \subseteq Cell BY DEF Cell
      <4> QED BY <4>1, SeqMonotonic
    <3> QED BY <3>1
  <2> HIDE DEF B
  <2>4. Chunks[c] \in Seq(Seq(Cell) \cup Channel) BY <2>2, <2>3, SeqMonotonic
  <2> QED BY <1>2, <2>4 DEF Data
<1> QED BY <1>1, <1>2

LEMMA SentIs ==
  ASSUME NEW c \in Channel
  PROVE  Sent(c) = SubSeq(Data(c), 1, pumped[c])
BY DEF Sent, Data

LEMMA RegisteredGrows ==
  ASSUME NEW m \in Nat, NEW n \in Nat, m <= n
  PROVE  Registered(m) \subseteq Registered(n)
BY DEF Registered

\* One more of a sequence.
LEMMA Prefix ==
  ASSUME NEW B, NEW s \in Seq(B), NEW k \in Nat, k < Len(s)
  PROVE  /\ IsStrictPrefix(SubSeq(s, 1, k), SubSeq(s, 1, k + 1))
         /\ SubSeq(s, 1, k + 1) = Append(SubSeq(s, 1, k), s[k + 1])
<1> DEFINE x == SubSeq(s, 1, k)  y == SubSeq(s, 1, k + 1)
<1>1. /\ x \in Seq(B) /\ Len(x) = k /\ \A i \in 1..k : x[i] = s[i]
      /\ y \in Seq(B) /\ Len(y) = k + 1 /\ \A i \in 1..k + 1 : y[i] = s[i]
      /\ s[k + 1] \in B
  OBVIOUS
<1> HIDE DEF x, y
<1>2. y = Append(x, s[k + 1]) BY <1>1
<1>3. SubSeq(x, 1, Len(x)) = SubSeq(y, 1, Len(x))
  <2> DEFINE u == SubSeq(x, 1, k)  v == SubSeq(y, 1, k)
  <2>1. /\ u \in Seq(B) /\ Len(u) = k /\ \A i \in 1..k : u[i] = s[i]
        /\ v \in Seq(B) /\ Len(v) = k /\ \A i \in 1..k : v[i] = s[i]
    BY <1>1
  <2> HIDE DEF u, v
  <2>2. u = v BY <2>1, SeqEqual
  <2> QED BY <1>1, <2>2 DEF u, v
<1>4. Len(x) <= Len(y) /\ x # y BY <1>1
<1> QED BY <1>2, <1>3, <1>4 DEF IsStrictPrefix, IsPrefix, x, y

Rec(s, g, o, v) == [sent |-> s, got |-> g, over |-> o, state |-> v]

LEMMA StrictPrefixes ==
  ASSUME NEW s, NEW t, IsStrictPrefix(s, t)
  PROVE  PerChannel!IsStrictPrefix(s, t)
BY DEF IsStrictPrefix, IsPrefix, PerChannel!IsStrictPrefix, PerChannel!IsPrefix

\* The steps of Channels, on records.
LEMMA Ends ==
  ASSUME NEW s, NEW g, NEW v, NEW o, NEW o2
  PROVE  ~o /\ o2 = TRUE => PerChannel!Step(Rec(s, g, o, v), Rec(s, g, o2, v))
<1> DEFINE c == Rec(s, g, o, v)  d == Rec(s, g, o2, v)
<1>1. c.over = o /\ d = [c EXCEPT !.over = o2] BY DEF Rec
<1> HAVE ~o /\ o2 = TRUE
<1> HIDE DEF c, d
<1>2. ~c.over BY <1>1, Zenon
<1>3. d = [c EXCEPT !.over = o2] BY <1>1
<1>4. d = [c EXCEPT !.over = TRUE] BY <1>3, Zenon
<1>5. PerChannel!End(c, d) BY <1>2, <1>4, Zenon DEF PerChannel!End
<1> QED BY <1>5 DEF PerChannel!Step, c, d

LEMMA Sends ==
  ASSUME NEW s, NEW t, NEW g, NEW v, NEW o, NEW o2 \in BOOLEAN, ~o, IsStrictPrefix(s, t)
  PROVE  PerChannel!Step(Rec(s, g, o, v), Rec(t, g, o2, v))
<1> DEFINE c == Rec(s, g, o, v)  d == Rec(t, g, o2, v)
<1>1. c.over = o BY DEF Rec
<1>2. ~c.over BY <1>1, Zenon
<1>3. c.sent = s /\ d.sent = t BY DEF Rec
<1>4. d = [c EXCEPT !.sent = t, !.over = o2]
  <2>1. [Rec(s, g, o, v) EXCEPT !.sent = t] = Rec(t, g, o, v) BY DEF Rec
  <2>2. [Rec(t, g, o, v) EXCEPT !.over = o2] = Rec(t, g, o2, v) BY DEF Rec
  <2>3. [Rec(s, g, o, v) EXCEPT !.sent = t, !.over = o2]
          = [[Rec(s, g, o, v) EXCEPT !.sent = t] EXCEPT !.over = o2] OBVIOUS
  <2> QED BY <2>1, <2>2, <2>3, Zenon
<1> HIDE DEF c, d
<1>5. PerChannel!IsStrictPrefix(c.sent, d.sent) BY <1>3, StrictPrefixes, Zenon
<1>6. d = [c EXCEPT !.sent = d.sent, !.over = o2] BY <1>3, <1>4
<1>7. \E last \in BOOLEAN : d = [c EXCEPT !.sent = d.sent, !.over = last] BY <1>6, Zenon
<1>8. PerChannel!Send(c, d) BY <1>2, <1>5, <1>7, Zenon DEF PerChannel!Send
<1> QED BY <1>8 DEF PerChannel!Step, c, d

LEMMA Closes ==
  ASSUME NEW s, NEW o, NEW v, NEW v2
  PROVE  o /\ v = "open" /\ v2 = "closed" => PerChannel!Step(Rec(s, s, o, v), Rec(s, s, o, v2))
<1> DEFINE c == Rec(s, s, o, v)  d == Rec(s, s, o, v2)
<1>1. c.over = o /\ d = [c EXCEPT !.state = v2] BY DEF Rec
<1>2. c.state = v /\ c.got = s /\ c.sent = s BY DEF Rec
<1> HAVE o /\ v = "open" /\ v2 = "closed"
<1> HIDE DEF c, d
<1>3. c.over BY <1>1, Zenon
<1>4. d = [c EXCEPT !.state = v2] BY <1>1
<1>5. PerChannel!Close(c, d) BY <1>3, <1>2, <1>4, Zenon DEF PerChannel!Close
<1> QED BY <1>5 DEF PerChannel!Step, c, d

LEMMA Delivers ==
  ASSUME NEW s, NEW g, NEW o, Len(g) < Len(s)
  PROVE  PerChannel!Step(Rec(s, g, o, "open"), Rec(s, Append(g, s[Len(g) + 1]), o, "open"))
<1> DEFINE c == Rec(s, g, o, "open")  d == Rec(s, Append(g, s[Len(g) + 1]), o, "open")
<1>1. /\ c.state = "open" /\ c.got = g /\ c.sent = s
      /\ d = [c EXCEPT !.got = Append(g, s[Len(g) + 1])]
  BY DEF Rec
<1>2. [c EXCEPT !.got = Append(c.got, c.sent[Len(c.got) + 1])]
        = [c EXCEPT !.got = Append(g, s[Len(g) + 1])]
  BY <1>1
<1> HIDE DEF c, d
<1>3. PerChannel!Deliver(c, d) BY <1>1, <1>2 DEF PerChannel!Deliver
<1> QED BY <1>3 DEF PerChannel!Step, c, d

\* What a step of the server or of the network does to the channels.
LEMMA ServerMaps ==
  ASSUME ServerInv, UNCHANGED client,
         \A c \in Channel :
           \/ pumped'[c] = pumped[c] /\ Over(c)' = Over(c)
           \/ pumped'[c] = pumped[c] /\ ~Over(c) /\ Over(c)'
           \/ pumped'[c] = pumped[c] + 1 /\ pumped'[c] <= Len(Data(c)) /\ ~Over(c)
  PROVE  Maps
<1> SUFFICES ASSUME NEW c \in Channel PROVE PerChannel!Step(Seen(c), Seen(c)') \/ Seen(c)' = Seen(c)
  BY DEF Maps
<1>1. got'[c] = got[c] /\ View(c)' = View(c) BY DEF client, out, View
<1>2. Sent(c) = SubSeq(Data(c), 1, pumped[c]) /\ Sent(c)' = SubSeq(Data(c), 1, pumped'[c])
  BY DEF Sent, Data
<1> DEFINE s == Sent(c)  s2 == Sent(c)'  o == Over(c)  o2 == Over(c)'  v == View(c)  v2 == View(c)'
           g == got[c]  g2 == got'[c]
<1>3. Seen(c) = Rec(s, g, o, v) /\ Seen(c)' = Rec(s2, g2, o2, v2) BY DEF Seen, Rec
<1>4. o \in BOOLEAN /\ o2 \in BOOLEAN BY DEF Over
<1>5. CASE pumped'[c] = pumped[c] /\ Over(c)' = Over(c)
  <2>1. s2 = s BY <1>2, <1>5
  <2> QED BY <1>1, <1>3, <1>5, <2>1
<1>6. CASE pumped'[c] = pumped[c] /\ ~Over(c) /\ Over(c)'
  <2>1. s2 = s /\ g2 = g /\ v2 = v /\ o = FALSE /\ o2 = TRUE BY <1>1, <1>2, <1>4, <1>6
  <2> HIDE DEF s, s2, o, o2, v, v2, g, g2
  <2> QED BY <1>3, <2>1, Ends
<1>7. CASE pumped'[c] = pumped[c] + 1 /\ pumped'[c] <= Len(Data(c)) /\ ~Over(c)
  <2>1. IsStrictPrefix(s, s2)
    <3>1. pumped[c] \in Nat /\ Len(Data(c)) \in Nat BY DataIs DEF ServerInv
    <3>2. pumped[c] < Len(Data(c)) BY <1>7, <3>1
    <3>3. Data(c) \in Seq(Seq(Cell) \cup Channel) BY DataIs
    <3>4. IsStrictPrefix(SubSeq(Data(c), 1, pumped[c]), SubSeq(Data(c), 1, pumped[c] + 1))
      BY <3>1, <3>2, <3>3, Prefix
    <3> QED BY <1>2, <1>7, <3>4
  <2>2. g2 = g /\ v2 = v /\ o = FALSE BY <1>1, <1>4, <1>7
  <2> HIDE DEF s, s2, o, o2, v, v2, g, g2
  <2> QED BY <1>3, <1>4, <2>1, <2>2, Sends
<1> QED BY <1>5, <1>6, <1>7

\* What a step of the client may do to a channel.
Moves(c) ==
  \/ got'[c] = got[c] /\ View(c)' = View(c)
  \/ got'[c] = got[c] /\ View(c) = "open" /\ View(c)' \in {"error", "cancelled"}
  \/ /\ got'[c] = got[c] /\ View(c) = "open" /\ View(c)' = "closed"
     /\ Over(c) /\ Len(got[c]) = pumped[c]
  \/ /\ View(c) = "open" /\ View(c)' = "open" /\ Len(got[c]) < pumped[c]
     /\ got'[c] = Append(got[c], Data(c)[Len(got[c]) + 1])

\* A step of the client is one of Channels for each of them.
LEMMA ClientMaps ==
  ASSUME ServerInv, ClientInv, UNCHANGED server, \A c \in Channel : Moves(c)
  PROVE  Maps
<1> SUFFICES ASSUME NEW c \in Channel PROVE PerChannel!Step(Seen(c), Seen(c)') \/ Seen(c)' = Seen(c)
  BY DEF Maps
<1>1. Sent(c)' = Sent(c) /\ Over(c)' = Over(c) BY DEF server, Sent, Over
<1>2. Sent(c) = SubSeq(Data(c), 1, pumped[c]) BY SentIs
<1>3. /\ got[c] = SubSeq(Data(c), 1, Len(got[c])) /\ Len(got[c]) \in Nat
      /\ pumped[c] \in Nat /\ pumped[c] <= Len(Data(c))
  <2>1. got[c] \in Seq(Seq(Cell) \cup Channel) BY DEF ClientInv
  <2> QED BY <2>1 DEF ClientInv, ServerInv
<1>4. Data(c) \in Seq(Seq(Cell) \cup Channel) /\ Len(Data(c)) \in Nat BY DataIs
<1> DEFINE s == Sent(c)  o == Over(c)  v == View(c)  v2 == View(c)'
           g == got[c]  g2 == got'[c]
<1>5. Seen(c) = Rec(s, g, o, v) /\ Seen(c)' = Rec(s, g2, o, v2) BY <1>1 DEF Seen, Rec
<1>6. Moves(c) OBVIOUS
<1>7. CASE got'[c] = got[c] /\ View(c)' = View(c) BY <1>5, <1>7, Zenon
<1>8. CASE got'[c] = got[c] /\ View(c) = "open" /\ View(c)' \in {"error", "cancelled"}
  <2>1. g2 = g /\ v = "open" /\ v2 \in {"error", "cancelled"} BY <1>8
  <2> HIDE DEF s, o, v, v2, g, g2
  <2>2. PerChannel!Break(Seen(c), Seen(c)') BY <1>5, <2>1 DEF PerChannel!Break, Rec
  <2> QED BY <2>2 DEF PerChannel!Step
<1>9. CASE /\ got'[c] = got[c] /\ View(c) = "open" /\ View(c)' = "closed"
           /\ Over(c) /\ Len(got[c]) = pumped[c]
  <2>1. g2 = g /\ v = "open" /\ v2 = "closed" /\ g = s BY <1>2, <1>3, <1>9
  <2>2. o = TRUE BY <1>9 DEF Over
  <2> HIDE DEF s, o, v, v2, g, g2
  <2> QED BY <1>5, <2>1, <2>2, Closes
<1>10. CASE /\ View(c) = "open" /\ View(c)' = "open" /\ Len(got[c]) < pumped[c]
            /\ got'[c] = Append(got[c], Data(c)[Len(got[c]) + 1])
  <2>1. Len(s) = pumped[c] /\ s[Len(g) + 1] = Data(c)[Len(g) + 1]
    BY <1>2, <1>3, <1>4, <1>10
  <2>2. /\ v = "open" /\ v2 = "open" /\ g2 = Append(g, s[Len(g) + 1]) /\ Len(g) < Len(s)
    BY <1>10, <2>1
  <2> HIDE DEF s, o, v, v2, g, g2
  <2> QED BY <1>5, <2>2, Delivers
<1> QED BY <1>6, <1>7, <1>8, <1>9, <1>10 DEF Moves

-----------------------------------------------------------------------------
(* Steps of the server. *)

\* Lengths as numbers.
LEMMA LenFacts ==
  ASSUME ServerInv, ClientInv, NEW c \in Channel
  PROVE  /\ Len(got[c]) \in Nat /\ pumped[c] \in Nat /\ Len(Data(c)) \in Nat
         /\ Len(got[c]) <= pumped[c] /\ pumped[c] <= Len(Data(c))
<1>1. got[c] \in Seq(Seq(Cell) \cup Channel) BY DEF ClientInv
<1>2. Len(got[c]) \in Nat BY <1>1
<1>3. pumped[c] \in Nat BY DEF ServerInv
<1>4. Len(Data(c)) \in Nat BY DataIs
<1> QED BY <1>2, <1>3, <1>4 DEF ServerInv, ClientInv

\* The server goes on, the client does not move.
LEMMA ClientKept ==
  ASSUME ServerInv, ClientInv, BufferInv, UNCHANGED client,
         serialized' \in Nat, serialized <= serialized',
         pumped' \in [Channel -> Nat], \A c \in Channel : pumped[c] <= pumped'[c]
  PROVE  ClientInv' /\ BufferInv'
<1>1. \A c \in Channel : Len(got'[c]) <= pumped'[c]
  <2> SUFFICES ASSUME NEW c \in Channel PROVE Len(got'[c]) <= pumped'[c] OBVIOUS
  <2>1. Len(got[c]) \in Nat /\ pumped[c] \in Nat /\ Len(got[c]) <= pumped[c] BY LenFacts
  <2>2. got'[c] = got[c] BY DEF client, out
  <2> QED BY <2>1, <2>2
<1>2. Registered(serialized) \subseteq Registered(serialized')
  BY RegisteredGrows DEF ServerInv
<1>3. \A id \in StreamId : (Creates(id))' <=> Creates(id) BY DEF client, maps, Creates
<1>4. BufferInv' BY DEF BufferInv, BufferAddsUp, client, buffer
<1>5. \A id \in StreamId : state'[id] # "none" => id \in Registered(serialized')
  BY <1>2 DEF ClientInv, client, out
<1>6. \A c \in Channel : got'[c] = SubSeq(Data(c), 1, Len(got'[c]))
  BY DEF ClientInv, client, out
<1>7. UNCHANGED <<pc, cancelled, state, got, linesRead, streamControllers>> BY DEF client, out, maps
<1>8. \A c \in Channel : Data(c)' = Data(c) BY DEF Data
<1> QED BY <1>1, <1>3, <1>4, <1>5, <1>6, <1>7, <1>8 DEF ClientInv

LEMMA LiveKept ==
  ASSUME UNCHANGED client, NEW c
  PROVE  (Live(c))' <=> Live(c)
BY DEF Live, client, out

\* What the frames in the pipe say stays true when nothing is added to it.
LEMMA PipeKept ==
  ASSUME FramesInv, bufferList' = bufferList, pc' # "end" => pc # "end",
         \/ wireEnd' = "failed"
         \/ wireEnd # "failed" /\ wire' = wire /\ \A c \in Channel : Made(c)' = Made(c),
         \A f \in Frame : Content(f) => Content(f)',
         \A c \in Channel : (Live(c))' => Live(c) /\ got'[c] = got[c]
  PROVE  FramesInv'
<1> SUFFICES ASSUME pc' # "end"
             PROVE  \E F, rest, taken, sent : InPipe(F, rest, taken, sent)'
  BY DEF FramesInv
<1>1. PICK F, rest, taken, sent : InPipe(F, rest, taken, sent) BY DEF FramesInv
<1>2. F \in Seq(Frame) /\ rest \in Seq(Cell) BY <1>1 DEF InPipe
<1>3. (FlattenSeq(bufferList) \o rest = Bytes(F))' BY <1>1 DEF InPipe
<1>4. wireEnd' # "failed" => rest = wire' /\ \A c \in Channel : sent[c] = Made(c)'
  BY <1>1 DEF InPipe
<1>5. Numbered(F, taken, sent) BY <1>1 DEF InPipe
<1>6. \A i \in 1..Len(F) : Content(F[i])'
  <2> SUFFICES ASSUME NEW i \in 1..Len(F) PROVE Content(F[i])' OBVIOUS
  <2>1. F[i] \in Frame BY <1>2
  <2>2. Content(F[i]) BY <1>1 DEF InPipe
  <2> QED BY <2>1, <2>2
<1>7. \A c \in Channel : (Live(c))' => taken[c] = Len(got'[c])
  <2> SUFFICES ASSUME NEW c \in Channel, (Live(c))' PROVE taken[c] = Len(got'[c]) OBVIOUS
  <2>1. Live(c) /\ got'[c] = got[c] OBVIOUS
  <2>2. taken[c] = Len(got[c]) BY <1>1, <2>1 DEF InPipe
  <2> QED BY <2>1, <2>2
<1>8. (Numbered(F, taken, sent))' BY <1>5
<1>9. InPipe(F, rest, taken, sent)'
  BY <1>2, <1>3, <1>4, <1>6, <1>7, <1>8 DEF InPipe
<1> QED BY <1>9

\* A pump adds a frame: the next of its channel.
LEMMA PipeGrows ==
  ASSUME BufferInv, ServerInv, FramesInv, UNCHANGED client, UNCHANGED wireEnd,
         NEW f \in Frame, f.n = Made(f.id) + 1, Content(f)',
         wire' = IF wireEnd = "failed" THEN wire ELSE wire \o Code(f),
         \A c \in Channel : Made(c)' = IF c = f.id THEN Made(c) + 1 ELSE Made(c),
         \A g \in Frame : Content(g) => Content(g)'
  PROVE  FramesInv'
<1>1. UNCHANGED <<bufferList, pc, got>> /\ \A c \in Channel : (Live(c))' <=> Live(c)
  BY LiveKept DEF client, buffer, out
<1>2. CASE wireEnd = "failed"
  <2>1. wireEnd' = "failed" BY <1>2
  <2>2. \A c \in Channel : (Live(c))' => Live(c) /\ got'[c] = got[c] BY <1>1
  <2> QED BY <1>1, <2>1, <2>2, PipeKept
<1>3. CASE wireEnd # "failed"
  <2> SUFFICES ASSUME pc' # "end"
               PROVE  \E F, rest, taken, sent : InPipe(F, rest, taken, sent)'
    BY DEF FramesInv
  <2>1. PICK F, rest, taken, sent : InPipe(F, rest, taken, sent) BY <1>1 DEF FramesInv
  <2> DEFINE G == Append(F, f)
             more == [sent EXCEPT ![f.id] = @ + 1]
  <2>2. PICK left : left = wire \o Code(f) OBVIOUS
  <2>3. F \in Seq(Frame) /\ G \in Seq(Frame) BY <2>1 DEF InPipe
  <2>4. Code(f) \in Seq(Cell) /\ wire \in Seq(Cell) BY CodeIs DEF ServerInv
  <2>5. left \in Seq(Cell) BY <2>2, <2>4
  <2>6. f.id \in Channel BY DEF Frame
  <2>7. (FlattenSeq(bufferList) \o left = Bytes(G))'
    <3>1. FlattenSeq(bufferList) \in Seq(Cell) BY FlatType DEF BufferInv
    <3>2. Bytes(G) = Bytes(F) \o Code(f) BY <2>3, BytesAppend
    <3>3. Bytes(F) = FlattenSeq(bufferList) \o wire BY <1>3, <2>1 DEF InPipe
    <3> DEFINE a == FlattenSeq(bufferList)  c == Code(f)
    <3>4. a \in Seq(Cell) /\ c \in Seq(Cell) BY <2>4, <3>1
    <3> HIDE DEF a, c
    <3>5. (a \o wire) \o c = a \o (wire \o c) BY <2>4, <3>4, ConcatAssociative
    <3> QED BY <1>1, <2>2, <3>2, <3>3, <3>5 DEF a, c
  <2>8. wire' = left BY <1>3, <2>2
  <2>9. Numbered(F, taken, sent) /\ \A c \in Channel : sent[c] = Made(c)
    BY <1>3, <2>1 DEF InPipe
  <2>10. sent \in [Channel -> Nat] BY <2>9 DEF Numbered
  <2>11. \A c \in Channel : more[c] = Made(c)'
    BY <2>6, <2>9, <2>10
  <2>12. f.n = sent[f.id] + 1 BY <2>6, <2>9
  <2>13. Numbered(G, taken, more) BY <2>3, <2>9, <2>12, NumberedAppend
  <2>14. \A i \in 1..Len(G) : Content(G[i])'
    <3> SUFFICES ASSUME NEW i \in 1..Len(G) PROVE Content(G[i])' OBVIOUS
    <3>1. CASE i \in 1..Len(F)
      <4>1. G[i] = F[i] /\ F[i] \in Frame BY <2>3, <3>1
      <4>2. Content(F[i]) BY <2>1, <3>1 DEF InPipe
      <4>3. Content(F[i])' BY <4>1, <4>2
      <4> QED BY <4>1, <4>3
    <3>2. CASE i = Len(F) + 1
      <4>1. G[i] = f BY <2>3, <3>2
      <4> QED BY <4>1
    <3> QED BY <2>3, <3>1, <3>2
  <2>15. \A c \in Channel : (Live(c))' => taken[c] = Len(got'[c])
    BY <1>1, <2>1 DEF InPipe
  <2> HIDE DEF G, more
  <2>16. (Numbered(G, taken, more))' BY <2>13
  <2>17. InPipe(G, left, taken, more)'
    BY <2>3, <2>5, <2>7, <2>8, <2>11, <2>14, <2>15, <2>16 DEF InPipe
  <2> QED BY <2>17
<1> QED BY <1>2, <1>3

Kept == Inv' /\ Maps

\* What a frame says of its source stays true.
LEMMA ContentGrows ==
  ASSUME ServerInv, serialized' \in Nat, serialized <= serialized',
         pumped' \in [Channel -> Nat], \A c \in Channel : pumped[c] <= pumped'[c],
         \A id \in StreamId : source[id] # "open" =>
           source'[id] = source[id] /\ pumped'[id] = pumped[id]
  PROVE  \A f \in Frame : Content(f) => Content(f)'
<1> SUFFICES ASSUME NEW f \in Frame, Content(f) PROVE Content(f)' OBVIOUS
<1>1. f.id \in Channel /\ f.n \in Nat /\ f.type \in FrameType BY DEF Frame
<1>2. /\ pumped[0] \in Nat /\ pumped'[0] \in Nat /\ pumped[0] <= pumped'[0]
      /\ pumped[f.id] \in Nat /\ pumped'[f.id] \in Nat /\ pumped[f.id] <= pumped'[f.id]
  BY <1>1, ChannelFacts DEF ServerInv
<1>3. Registered(serialized) \subseteq Registered(serialized') BY RegisteredGrows DEF ServerInv
<1>4. f.type = "JSON" => f.id = 0 /\ f.n \in 1..pumped'[0] /\ f.payload = <<Lines[f.n]>>
  BY <1>1, <1>2 DEF Content
<1>5. f.type # "JSON" => f.id \in StreamId /\ f.id \in Registered(serialized')
  BY <1>3 DEF Content
<1>6. f.type = "CHUNK" => f.n \in 1..pumped'[f.id] /\ f.payload = Chunks[f.id][f.n]
  BY <1>1, <1>2 DEF Content
<1>7. f.type = "END" => f.n = pumped'[f.id] + 1 /\ source'[f.id] = "ended"
  BY <1>5 DEF Content
<1>8. f.type = "ERROR" => f.n = pumped'[f.id] + 1 /\ source'[f.id] = "failed"
  BY <1>5 DEF Content
<1>9. Registered(serialized)' = Registered(serialized') BY DEF Registered
<1> QED BY <1>4, <1>5, <1>6, <1>7, <1>8, <1>9 DEF Content

\* A step of the server that puts nothing into the connection.
LEMMA Quiet ==
  ASSUME Inv, ServerInv', UNCHANGED client, UNCHANGED pumped, serialized <= serialized',
         \A id \in StreamId : source'[id] = source[id],
         wireEnd' = "failed" \/ (wireEnd # "failed" /\ wire' = wire),
         Over(0)' = Over(0) \/ (~Over(0) /\ Over(0)')
  PROVE  Kept
<1>1. serialized' \in Nat /\ pumped' \in [Channel -> Nat] BY DEF ServerInv
<1>2. \A c \in Channel : pumped[c] <= pumped'[c] /\ pumped'[c] = pumped[c] BY DEF Inv, ServerInv
<1>3. ClientInv' /\ BufferInv' BY <1>1, <1>2, ClientKept DEF Inv
<1>4. \A f \in Frame : Content(f) => Content(f)' BY <1>1, <1>2, ContentGrows DEF Inv
<1>5. \A c \in Channel : Made(c)' = Made(c) BY ChannelFacts DEF Made
<1>6. UNCHANGED <<bufferList, pc, got>> /\ \A c \in Channel : (Live(c))' <=> Live(c)
  BY LiveKept DEF client, buffer, out
<1>7. FramesInv'
  <2>1. \A c \in Channel : (Live(c))' => Live(c) /\ got'[c] = got[c] BY <1>6
  <2>2. \/ wireEnd' = "failed"
        \/ wireEnd # "failed" /\ wire' = wire /\ \A c \in Channel : Made(c)' = Made(c)
    BY <1>5
  <2>3. FramesInv BY DEF Inv
  <2> QED BY <1>4, <1>6, <2>1, <2>2, <2>3, PipeKept
<1>8. ASSUME NEW c \in Channel
      PROVE  \/ pumped'[c] = pumped[c] /\ Over(c)' = Over(c)
             \/ pumped'[c] = pumped[c] /\ ~Over(c) /\ Over(c)'
  <2>1. CASE c = 0 BY <1>2, <2>1
  <2>2. CASE c # 0
    <3>1. source'[c] = source[c] BY <2>2, ChannelFacts
    <3>2. Over(c)' = Over(c) BY <2>2, <3>1 DEF Over
    <3> QED BY <1>2, <3>2
  <2> QED BY <2>1, <2>2
<1>9. Maps
  <2>1. ServerInv BY DEF Inv
  <2> QED BY <1>8, <2>1, ServerMaps
<1> QED BY <1>3, <1>7, <1>9 DEF Kept, Inv

\* A step of the server that puts the frame f into the connection.
LEMMA Noisy ==
  ASSUME Inv, ServerInv', UNCHANGED client, UNCHANGED serialized,
         NEW f \in Frame, f.n = Made(f.id) + 1, Content(f)', Enqueue(Code(f)),
         Made(f.id)' = Made(f.id) + 1, ~Over(f.id),
         \/ pumped'[f.id] = pumped[f.id] + 1 /\ pumped'[f.id] <= Len(Data(f.id))
         \/ pumped'[f.id] = pumped[f.id] /\ Over(f.id)',
         f.id # 0 => source[f.id] = "open",
         \A c \in Channel \ {f.id} : pumped'[c] = pumped[c] /\ source'[c] = source[c]
  PROVE  Kept
<1>1. f.id \in Channel BY DEF Frame
<1>2. serialized' \in Nat /\ serialized \in Nat /\ pumped' \in [Channel -> Nat]
  BY DEF Inv, ServerInv
<1>3. ASSUME NEW c \in Channel PROVE pumped[c] <= pumped'[c]
  <2>1. pumped[c] \in Nat /\ pumped'[c] \in Nat BY <1>2 DEF Inv, ServerInv
  <2>2. pumped'[c] = pumped[c] \/ pumped'[c] = pumped[c] + 1 BY <1>1
  <2> QED BY <2>1, <2>2
<1>4. ClientInv' /\ BufferInv' BY <1>2, <1>3, ClientKept DEF Inv
<1>5. \A g \in Frame : Content(g) => Content(g)'
  <2>1. \A id \in StreamId : source[id] # "open" =>
          source'[id] = source[id] /\ pumped'[id] = pumped[id]
    BY ChannelFacts
  <2> QED BY <1>2, <1>3, <2>1, ContentGrows DEF Inv
<1>6. \A c \in Channel : Made(c)' = IF c = f.id THEN Made(c) + 1 ELSE Made(c)
  <2> SUFFICES ASSUME NEW c \in Channel PROVE Made(c)' = IF c = f.id THEN Made(c) + 1 ELSE Made(c)
    OBVIOUS
  <2>1. CASE c = f.id BY <2>1
  <2>2. CASE c # f.id BY <2>2 DEF Made
  <2> QED BY <2>1, <2>2
<1>7. FramesInv'
  <2>1. UNCHANGED wireEnd /\ wire' = IF wireEnd = "failed" THEN wire ELSE wire \o Code(f)
    BY DEF Enqueue
  <2>2. BufferInv /\ ServerInv /\ FramesInv BY DEF Inv
  <2> QED BY <1>5, <1>6, <2>1, <2>2, PipeGrows
<1>8. ASSUME NEW c \in Channel
      PROVE  \/ pumped'[c] = pumped[c] /\ Over(c)' = Over(c)
             \/ pumped'[c] = pumped[c] /\ ~Over(c) /\ Over(c)'
             \/ pumped'[c] = pumped[c] + 1 /\ pumped'[c] <= Len(Data(c)) /\ ~Over(c)
  <2>1. CASE c = f.id BY <2>1
  <2>2. CASE c # f.id
    <3>1. pumped'[c] = pumped[c] /\ source'[c] = source[c] BY <2>2
    <3>2. Over(c)' = Over(c) BY <3>1 DEF Over
    <3> QED BY <3>1, <3>2
  <2> QED BY <2>1, <2>2
<1>9. Maps
  <2>1. ServerInv BY DEF Inv
  <2> QED BY <1>8, <2>1, ServerMaps
<1> QED BY <1>4, <1>7, <1>9 DEF Kept, Inv

LEMMA SerializeKeeps == ASSUME Inv, Serialize, UNCHANGED client PROVE Kept
<1>1. /\ source[0] = "open" /\ UNCHANGED <<pumped, spawned, wire, wireEnd>>
      /\ \/ serialized < Len(Lines) /\ serialized' = serialized + 1 /\ source' = source
         \/ serialized' = serialized /\ source' = [source EXCEPT ![0] = "ended"]
  BY DEF Serialize, network
<1>2. ServerInv BY DEF Inv
<1>3. /\ serialized \in 1..Len(Lines) /\ Len(Lines) \in Nat
      /\ source \in [Channel -> {"open", "ended", "failed"}]
  BY <1>2, ChannelAssumption DEF ServerInv
<1>4. serialized <= serialized' /\ serialized' \in 1..Len(Lines) /\ serialized \in Nat BY <1>1, <1>3
<1>5. source' \in [Channel -> {"open", "ended", "failed"}] BY <1>1, <1>3
<1>6. \A id \in StreamId : source'[id] = source[id] BY <1>1, <1>3, ChannelFacts
<1>7. wireEnd # "closed" BY <1>1, <1>2 DEF ServerInv, PumpsDone
<1>8. ServerInv'
  <2>1. spawned' \subseteq Registered(serialized')
    <3>1. Registered(serialized) \subseteq Registered(serialized') BY <1>4, RegisteredGrows
    <3> QED BY <1>1, <1>2, <3>1 DEF ServerInv
  <2>2. pumped'[0] <= serialized'
    <3>1. pumped[0] \in Nat /\ pumped[0] <= serialized BY <1>2, ChannelFacts DEF ServerInv
    <3> QED BY <1>1, <1>4, <3>1
  <2>3. Registered(serialized)' = Registered(serialized') BY DEF Registered
  <2>4. \A c \in Channel : Data(c)' = Data(c) BY DEF Data
  <2> QED BY <1>1, <1>2, <1>4, <1>5, <1>7, <2>1, <2>2, <2>3, <2>4 DEF ServerInv
<1>9. ~Over(0) BY <1>1 DEF Over
<1>10. Over(0)' = Over(0) \/ (~Over(0) /\ Over(0)') BY <1>9 DEF Over
<1>11. wireEnd' = "failed" \/ (wireEnd # "failed" /\ wire' = wire) BY <1>1
<1>12. UNCHANGED pumped BY <1>1
<1> QED BY <1>4, <1>6, <1>8, <1>10, <1>11, <1>12, Quiet

\* Steps that touch neither the sources nor what has been serialized.
LEMMA StillKeeps ==
  ASSUME Inv, UNCHANGED client, UNCHANGED <<serialized, pumped, source>>,
         spawned' \subseteq Registered(serialized), wire' \in Seq(Cell),
         \/ wireEnd' = "failed" /\ wire' = <<>>
         \/ wireEnd # "failed" /\ wire' = wire /\ wireEnd' \in {"open", "closed"},
         wireEnd' = "closed" => PumpsDone'
  PROVE  Kept
<1>1. ServerInv BY DEF Inv
<1>2. ServerInv'
  <2>1. Registered(serialized)' = Registered(serialized) BY DEF Registered
  <2>2. \A c \in Channel : Data(c)' = Data(c) BY DEF Data
  <2>3. wireEnd' \in {"open", "closed", "failed"} OBVIOUS
  <2> QED BY <1>1, <2>1, <2>2, <2>3 DEF ServerInv
<1>3. Over(0)' = Over(0) BY DEF Over
<1>4. serialized <= serialized' BY <1>1 DEF ServerInv
<1>5. wireEnd' = "failed" \/ (wireEnd # "failed" /\ wire' = wire) OBVIOUS
<1>6. UNCHANGED pumped /\ \A id \in StreamId : source'[id] = source[id] OBVIOUS
<1> QED BY <1>2, <1>3, <1>4, <1>5, <1>6, Quiet

LEMMA PumpLateKeeps ==
  ASSUME Inv, NEW id \in StreamId, PumpLate(id), UNCHANGED client PROVE Kept
<1>1. /\ id \in Registered(serialized) \ spawned /\ spawned' = spawned \cup {id}
      /\ UNCHANGED <<serialized, pumped, source, wire, wireEnd>>
  BY DEF PumpLate, network
<1>2. ServerInv BY DEF Inv
<1>3. spawned' \subseteq Registered(serialized) /\ wire' \in Seq(Cell) BY <1>1, <1>2 DEF ServerInv
<1>4. \/ wireEnd' = "failed" /\ wire' = <<>>
      \/ wireEnd # "failed" /\ wire' = wire /\ wireEnd' \in {"open", "closed"}
  BY <1>1, <1>2 DEF ServerInv
<1>5. wireEnd' # "closed" BY <1>1, <1>2 DEF ServerInv, PumpsDone
<1>6. UNCHANGED <<serialized, pumped, source>> BY <1>1
<1> QED BY <1>3, <1>4, <1>5, <1>6, StillKeeps

LEMMA CloseOutputKeeps == ASSUME Inv, CloseOutput, UNCHANGED client PROVE Kept
<1>1. /\ wireEnd = "open" /\ PumpsDone /\ wireEnd' = "closed"
      /\ UNCHANGED <<serialized, pumped, spawned, source, wire>>
  BY DEF CloseOutput, server
<1>2. ServerInv BY DEF Inv
<1>3. spawned' \subseteq Registered(serialized) /\ wire' \in Seq(Cell) BY <1>1, <1>2 DEF ServerInv
<1>4. PumpsDone' BY <1>1 DEF PumpsDone, Registered
<1>5. UNCHANGED <<serialized, pumped, source>> BY <1>1
<1>6. wireEnd # "failed" /\ wire' = wire /\ wireEnd' \in {"open", "closed"} BY <1>1
<1> QED BY <1>3, <1>4, <1>5, <1>6, StillKeeps

LEMMA CancelOutputKeeps == ASSUME Inv, CancelOutput, UNCHANGED client PROVE Kept
<1>1. wireEnd' = "failed" /\ UNCHANGED <<serialized, pumped, spawned, source, wire, wireEnd>>
  BY DEF CancelOutput, network
<1>2. spawned' \subseteq Registered(serialized) /\ wire' \in Seq(Cell) /\ wire' = <<>>
  BY <1>1 DEF Inv, ServerInv
<1>3. UNCHANGED <<serialized, pumped, source>> /\ wireEnd' # "closed" BY <1>1
<1> QED BY <1>1, <1>2, <1>3, StillKeeps

LEMMA DisconnectKeeps == ASSUME Inv, Disconnect, UNCHANGED client PROVE Kept
<1>1. wireEnd' = "failed" /\ wire' = <<>> /\ UNCHANGED <<serialized, pumped, spawned, source>>
  BY DEF Disconnect, Broken, server
<1>2. spawned' \subseteq Registered(serialized) /\ wire' \in Seq(Cell) BY <1>1 DEF Inv, ServerInv
<1>3. UNCHANGED <<serialized, pumped, source>> /\ wireEnd' # "closed" BY <1>1
<1> QED BY <1>1, <1>2, <1>3, StillKeeps

LEMMA JSONFailsKeeps == ASSUME Inv, JSONFails, UNCHANGED client PROVE Kept
<1>1. /\ source[0] = "open" /\ source' = [source EXCEPT ![0] = "failed"]
      /\ wireEnd' = "failed" /\ wire' = <<>> /\ UNCHANGED <<serialized, pumped, spawned>>
  BY DEF JSONFails, Broken
<1>2. ServerInv BY DEF Inv
<1>3. source \in [Channel -> {"open", "ended", "failed"}] BY <1>2 DEF ServerInv
<1>4. source' \in [Channel -> {"open", "ended", "failed"}] BY <1>1, <1>3
<1>5. ServerInv'
  <2>1. Registered(serialized)' = Registered(serialized) BY <1>1 DEF Registered
  <2>2. \A c \in Channel : Data(c)' = Data(c) BY DEF Data
  <2>3. wire' \in Seq(Cell) BY <1>1
  <2>4. wireEnd' \in {"open", "closed", "failed"} /\ wireEnd' # "closed" BY <1>1
  <2> QED BY <1>1, <1>2, <1>4, <2>1, <2>2, <2>3, <2>4 DEF ServerInv
<1>6. \A id \in StreamId : source'[id] = source[id] BY <1>1, <1>3, ChannelFacts
<1>7. source'[0] = "failed" BY <1>1, <1>3, ChannelFacts
<1>8. Over(0)' = Over(0)
  <2>1. ~Over(0) BY <1>1 DEF Over
  <2>2. ~Over(0)' BY <1>7 DEF Over
  <2>3. Over(0) \in BOOLEAN /\ Over(0)' \in BOOLEAN BY DEF Over
  <2> QED BY <2>1, <2>2, <2>3
<1>9. serialized <= serialized' BY <1>1, <1>2 DEF ServerInv
<1>10. UNCHANGED pumped /\ wireEnd' = "failed" BY <1>1
<1> QED BY <1>5, <1>6, <1>8, <1>9, <1>10, Quiet

\* Each call of encodeFrame makes the code of a frame.
LEMMA FrameExists ==
  ASSUME NEW t \in FrameType, NEW c \in Channel, NEW p \in Seq(Cell), NEW k \in Nat
  PROVE  \E f \in Frame : /\ f.type = t /\ f.id = c /\ f.payload = p /\ f.n = k
                          /\ Code(f) = encodeFrame(t, c, p)
<1> DEFINE f == [type |-> t, id |-> c, payload |-> p, n |-> k]
<1>1. f \in Frame /\ f.type = t /\ f.id = c /\ f.payload = p /\ f.n = k BY DEF Frame
<1>2. Code(f) = encodeFrame(t, c, p) BY <1>1 DEF Code
<1> QED BY <1>1, <1>2

LEMMA EnqueueTypes ==
  ASSUME ServerInv, NEW f \in Frame, Enqueue(Code(f))
  PROVE  /\ wire' \in Seq(Cell) /\ wireEnd' = wireEnd
         /\ wireEnd' = "failed" => wire' = <<>>
<1>1. wire \in Seq(Cell) BY DEF ServerInv
<1>2. Code(f) \in Seq(Cell) BY CodeIs
<1>3. wire \o Code(f) \in Seq(Cell) BY <1>1, <1>2
<1> QED BY <1>1, <1>3 DEF Enqueue, ServerInv

\* A line is pumped.
LEMMA PumpJSONKeeps == ASSUME Inv, PumpJSON, UNCHANGED client PROVE Kept
<1> DEFINE k == pumped[0] + 1
<1>1. /\ pumped[0] < serialized /\ pumped' = [pumped EXCEPT ![0] = @ + 1]
      /\ Enqueue(encodeFrame("JSON", 0, <<Lines[k]>>))
      /\ UNCHANGED <<serialized, spawned, source>>
  BY DEF PumpJSON
<1>2. ServerInv BY DEF Inv
<1>3. /\ 0 \in Channel /\ pumped \in [Channel -> Nat] /\ pumped[0] \in Nat
      /\ serialized \in 1..Len(Lines) /\ Len(Lines) \in Nat
  BY <1>2, ChannelFacts, ChannelAssumption DEF ServerInv
<1>4. k \in 1..Len(Lines) /\ k \in Nat /\ k <= serialized BY <1>1, <1>3
<1>5. Lines[k] \in Cell
  <2>1. Lines[k] \in Channel BY <1>4, ChannelAssumption
  <2> QED BY <2>1, ChannelFacts DEF Cell
<1>6. PICK f \in Frame : /\ f.type = "JSON" /\ f.id = 0 /\ f.payload = <<Lines[k]>> /\ f.n = k
                         /\ Code(f) = encodeFrame("JSON", 0, <<Lines[k]>>)
  <2>1. "JSON" \in FrameType BY DEF FrameType
  <2> DEFINE p == <<Lines[k]>>
  <2>2. p \in Seq(Cell) BY <1>5
  <2> HIDE DEF k, p
  <2>3. \E f \in Frame : /\ f.type = "JSON" /\ f.id = 0 /\ f.payload = p /\ f.n = k
                         /\ Code(f) = encodeFrame("JSON", 0, p)
    BY <1>3, <1>4, <2>1, <2>2, FrameExists
  <2> QED BY <2>3 DEF p
<1>7. Enqueue(Code(f)) BY <1>1, <1>6
<1>8. /\ pumped' \in [Channel -> Nat] /\ pumped'[0] = k
      /\ \A c \in Channel \ {0} : pumped'[c] = pumped[c]
  BY <1>1, <1>3, <1>4
<1>9. wireEnd # "closed" BY <1>1, <1>2, <1>3 DEF ServerInv, PumpsDone
<1>10. ServerInv'
  <2>1. Registered(serialized)' = Registered(serialized) BY <1>1 DEF Registered
  <2>2. \A c \in Channel : Data(c)' = Data(c) BY DEF Data
  <2>3. wire' \in Seq(Cell) /\ wireEnd' = wireEnd /\ (wireEnd' = "failed" => wire' = <<>>)
    BY <1>2, <1>6, <1>7, EnqueueTypes
  <2>4. \A c \in Channel : pumped'[c] <= Len(Data(c))
    <3>1. Data(0) = Lines BY DEF Data
    <3>2. \A c \in Channel : pumped[c] <= Len(Data(c)) BY <1>2 DEF ServerInv
    <3> QED BY <1>3, <1>4, <1>8, <3>1, <3>2
  <2>5. pumped'[0] <= serialized' BY <1>1, <1>4, <1>8
  <2> QED BY <1>1, <1>2, <1>8, <1>9, <2>1, <2>2, <2>3, <2>4, <2>5 DEF ServerInv
<1>11. Made(0) = pumped[0] /\ Made(0)' = pumped'[0] BY DEF Made
<1>12. Content(f)'
  <2>1. f.n \in 1..pumped'[0] BY <1>4, <1>6, <1>8
  <2> QED BY <1>6, <2>1 DEF Content
<1>13. ~Over(0) BY <1>1, <1>3 DEF Over
<1>14. Len(Data(0)) = Len(Lines) BY DEF Data
<1>15. f.n = Made(f.id) + 1 /\ Made(f.id)' = Made(f.id) + 1 BY <1>6, <1>8, <1>11
<1>16. pumped'[f.id] = pumped[f.id] + 1 /\ pumped'[f.id] <= Len(Data(f.id))
  BY <1>3, <1>4, <1>6, <1>8, <1>14
<1>17. ~Over(f.id) /\ (f.id # 0 => source[f.id] = "open") BY <1>6, <1>13
<1>18. \A c \in Channel \ {f.id} : pumped'[c] = pumped[c] /\ source'[c] = source[c]
  BY <1>1, <1>6, <1>8
<1>19. UNCHANGED serialized BY <1>1
<1> QED BY <1>6, <1>7, <1>10, <1>12, <1>15, <1>16, <1>17, <1>18, <1>19, Noisy

\* The frames of a raw stream.
LEMMA PumpRawKeeps ==
  ASSUME Inv, NEW id \in StreamId, id \in spawned, source[id] = "open",
         UNCHANGED <<serialized, spawned>>, UNCHANGED client,
         NEW f \in Frame, f.id = id, f.n = pumped[id] + 1, Enqueue(Code(f)), Content(f)',
         \/ /\ pumped[id] < Len(Chunks[id])
            /\ pumped' = [pumped EXCEPT ![id] = @ + 1] /\ UNCHANGED source
         \/ /\ \E s \in {"ended", "failed"} : source' = [source EXCEPT ![id] = s]
            /\ UNCHANGED pumped
  PROVE  Kept
<1>1. ServerInv BY DEF Inv
<1>2. /\ id \in Channel /\ id # 0 /\ 0 \in Channel
      /\ pumped \in [Channel -> Nat] /\ pumped[id] \in Nat
      /\ source \in [Channel -> {"open", "ended", "failed"}]
  BY <1>1, ChannelFacts DEF ServerInv
<1>3. Data(id) = Chunks[id] /\ Len(Data(id)) \in Nat BY <1>2, DataIs DEF Data
<1>4. /\ pumped' \in [Channel -> Nat] /\ source' \in [Channel -> {"open", "ended", "failed"}]
      /\ \A c \in Channel \ {id} : pumped'[c] = pumped[c] /\ source'[c] = source[c]
      /\ \/ /\ pumped'[id] = pumped[id] + 1 /\ pumped'[id] <= Len(Data(id))
            /\ source'[id] = "open"
         \/ pumped'[id] = pumped[id] /\ source'[id] # "open"
  <2>1. CASE /\ pumped[id] < Len(Chunks[id])
             /\ pumped' = [pumped EXCEPT ![id] = @ + 1] /\ UNCHANGED source
    BY <1>2, <1>3, <2>1
  <2>2. ASSUME NEW s \in {"ended", "failed"}, source' = [source EXCEPT ![id] = s],
               UNCHANGED pumped
        PROVE  /\ pumped' \in [Channel -> Nat]
               /\ source' \in [Channel -> {"open", "ended", "failed"}]
               /\ \A c \in Channel \ {id} : pumped'[c] = pumped[c] /\ source'[c] = source[c]
               /\ pumped'[id] = pumped[id] /\ source'[id] # "open"
    BY <1>2, <2>2
  <2> QED BY <2>1, <2>2
<1>5. wireEnd # "closed"
  <2>1. id \in Registered(serialized) BY <1>1 DEF ServerInv
  <2> QED BY <1>1, <2>1 DEF ServerInv, PumpsDone
<1>6. ServerInv'
  <2>1. Registered(serialized)' = Registered(serialized) BY DEF Registered
  <2>2. \A c \in Channel : Data(c)' = Data(c) BY DEF Data
  <2>3. wire' \in Seq(Cell) /\ wireEnd' = wireEnd /\ (wireEnd' = "failed" => wire' = <<>>)
    BY <1>1, EnqueueTypes
  <2>4. \A c \in Channel : pumped'[c] <= Len(Data(c))
    <3>1. \A c \in Channel : pumped[c] <= Len(Data(c)) BY <1>1 DEF ServerInv
    <3> QED BY <1>2, <1>4, <3>1
  <2>5. pumped'[0] <= serialized' BY <1>1, <1>2, <1>4 DEF ServerInv
  <2> QED BY <1>1, <1>4, <1>5, <2>1, <2>2, <2>3, <2>4, <2>5 DEF ServerInv
<1>7. Made(id) = pumped[id] /\ Made(id)' = pumped[id] + 1 BY <1>2, <1>4 DEF Made
<1>8. ~Over(id) BY <1>2 DEF Over
<1>9. \/ pumped'[f.id] = pumped[f.id] + 1 /\ pumped'[f.id] <= Len(Data(f.id))
      \/ pumped'[f.id] = pumped[f.id] /\ Over(f.id)'
  BY <1>2, <1>4 DEF Over
<1>10. f.n = Made(f.id) + 1 /\ Made(f.id)' = Made(f.id) + 1 BY <1>7
<1>11. ~Over(f.id) /\ (f.id # 0 => source[f.id] = "open") BY <1>8
<1>12. \A c \in Channel \ {f.id} : pumped'[c] = pumped[c] /\ source'[c] = source[c] BY <1>4
<1>13. UNCHANGED serialized OBVIOUS
<1> QED BY <1>6, <1>9, <1>10, <1>11, <1>12, <1>13, Noisy

\* What is known of a raw stream that has a pump.
LEMMA RawFacts ==
  ASSUME Inv, NEW id \in StreamId, id \in spawned
  PROVE  /\ id \in Channel /\ id # 0 /\ pumped \in [Channel -> Nat] /\ pumped[id] \in Nat
         /\ source \in [Channel -> {"open", "ended", "failed"}]
         /\ id \in Registered(serialized) /\ Len(Chunks[id]) \in Nat
         /\ Chunks[id] \in Seq(Seq(Byte))
<1>1. ServerInv BY DEF Inv
<1>2. /\ id \in Channel /\ id # 0
  BY ChannelFacts
<1>3. /\ pumped \in [Channel -> Nat] /\ pumped[id] \in Nat
      /\ source \in [Channel -> {"open", "ended", "failed"}]
      /\ id \in Registered(serialized)
  BY <1>1, <1>2 DEF ServerInv
<1>4. Chunks[id] \in Seq(Seq(Byte)) BY ChannelAssumption
<1> DEFINE B == Seq(Byte)
<1>5. Chunks[id] \in Seq(B) BY <1>4
<1> HIDE DEF B
<1>6. Len(Chunks[id]) \in Nat BY <1>5
<1> QED BY <1>2, <1>3, <1>4, <1>6

\* A chunk, and the end or the error of a raw stream, are pumped.
LEMMA PumpChunkKeeps ==
  ASSUME Inv, NEW id \in StreamId, id \in spawned, source[id] = "open",
         UNCHANGED <<serialized, spawned>>, UNCHANGED client, PumpChunk(id)
  PROVE  Kept
<1> DEFINE k == pumped[id] + 1
<1>1. /\ pumped[id] < Len(Chunks[id]) /\ pumped' = [pumped EXCEPT ![id] = @ + 1] /\ UNCHANGED source
      /\ Enqueue(encodeFrame("CHUNK", id, Chunks[id][k]))
  BY DEF PumpChunk
<1>2. /\ id \in Channel /\ id # 0 /\ pumped \in [Channel -> Nat] /\ pumped[id] \in Nat
      /\ id \in Registered(serialized) /\ Len(Chunks[id]) \in Nat
  BY RawFacts
<1>3. Chunks[id][k] \in Seq(Cell)
  <2> DEFINE B == Seq(Byte)
  <2>1. Chunks[id] \in Seq(B) BY RawFacts
  <2> HIDE DEF B
  <2>2. Chunks[id][k] \in B BY <1>1, <1>2, <2>1
  <2>3. Byte \subseteq Cell BY DEF Cell
  <2> QED BY <2>2, <2>3, SeqMonotonic DEF B
<1>4. PICK f \in Frame : /\ f.type = "CHUNK" /\ f.id = id /\ f.payload = Chunks[id][k]
                         /\ f.n = k /\ Code(f) = encodeFrame("CHUNK", id, Chunks[id][k])
  <2>1. "CHUNK" \in FrameType /\ k \in Nat BY <1>2 DEF FrameType
  <2> QED BY <1>2, <1>3, <2>1, FrameExists
<1>5. Content(f)'
  <2>1. f.n \in 1..pumped'[id] BY <1>1, <1>2, <1>4
  <2>2. Registered(serialized)' = Registered(serialized) BY DEF Registered
  <2> QED BY <1>2, <1>4, <2>1, <2>2 DEF Content
<1>6. Enqueue(Code(f)) BY <1>1, <1>4
<1>7. \/ /\ pumped[id] < Len(Chunks[id])
         /\ pumped' = [pumped EXCEPT ![id] = @ + 1] /\ UNCHANGED source
      \/ /\ \E s \in {"ended", "failed"} : source' = [source EXCEPT ![id] = s]
         /\ UNCHANGED pumped
  BY <1>1
<1>8. f \in Frame /\ f.id = id /\ f.n = pumped[id] + 1 BY <1>4
<1> QED BY <1>5, <1>6, <1>7, <1>8, PumpRawKeeps

LEMMA PumpOverKeeps ==
  ASSUME Inv, NEW id \in StreamId, id \in spawned, source[id] = "open",
         UNCHANGED <<serialized, spawned, pumped>>, UNCHANGED client,
         NEW t, NEW s, NEW p,
         \/ t = "END" /\ s = "ended" /\ p = <<>>
         \/ t = "ERROR" /\ s = "failed" /\ p = <<"message">>,
         source' = [source EXCEPT ![id] = s], Enqueue(encodeFrame(t, id, p))
  PROVE  Kept
<1> DEFINE k == pumped[id] + 1
<1>1. /\ id \in Channel /\ id # 0 /\ pumped[id] \in Nat
      /\ source \in [Channel -> {"open", "ended", "failed"}]
      /\ id \in Registered(serialized)
  BY RawFacts
<1>2. p \in Seq(Cell)
  <2>1. "message" \in Cell BY DEF Cell
  <2>2. <<"message">> \in Seq(Cell) /\ <<>> \in Seq(Cell) BY <2>1
  <2> QED BY <2>2
<1>3. t \in FrameType /\ k \in Nat BY <1>1 DEF FrameType
<1>4. PICK f \in Frame : /\ f.type = t /\ f.id = id /\ f.payload = p /\ f.n = k
                         /\ Code(f) = encodeFrame(t, id, p)
  BY <1>1, <1>2, <1>3, FrameExists
<1>5. source'[id] = s BY <1>1
<1>6. Content(f)'
  <2>1. Registered(serialized)' = Registered(serialized) BY DEF Registered
  <2>2. t # "JSON" /\ t # "CHUNK" OBVIOUS
  <2>3. t = "END" => s = "ended" OBVIOUS
  <2>4. t = "ERROR" => s = "failed" OBVIOUS
  <2> QED BY <1>1, <1>4, <1>5, <2>1, <2>2, <2>3, <2>4 DEF Content
<1>7. Enqueue(Code(f)) BY <1>4
<1>8. \/ /\ pumped[id] < Len(Chunks[id])
         /\ pumped' = [pumped EXCEPT ![id] = @ + 1] /\ UNCHANGED source
      \/ /\ \E x \in {"ended", "failed"} : source' = [source EXCEPT ![id] = x]
         /\ UNCHANGED pumped
  <2>1. s \in {"ended", "failed"} OBVIOUS
  <2> QED BY <2>1, Zenon
<1>9. f \in Frame /\ f.id = id /\ f.n = pumped[id] + 1 BY <1>4
<1>10. UNCHANGED <<serialized, spawned>> OBVIOUS
<1> QED BY <1>6, <1>7, <1>8, <1>9, <1>10, PumpRawKeeps

\* All steps of the server, and the faults.
LEMMA ServerKeeps == ASSUME Inv, Server PROVE Kept
<1>1. UNCHANGED client /\ ServerStep BY DEF Server
<1>2. CASE Serialize BY <1>1, <1>2, SerializeKeeps
<1>3. CASE PumpJSON BY <1>1, <1>3, PumpJSONKeeps
<1>4. CASE CloseOutput BY <1>1, <1>4, CloseOutputKeeps
<1>5. CASE CancelOutput BY <1>1, <1>5, CancelOutputKeeps
<1>6. ASSUME NEW id \in StreamId, PumpLate(id) PROVE Kept BY <1>1, <1>6, PumpLateKeeps
<1>7. ASSUME NEW id \in StreamId, PumpRaw(id) PROVE Kept
  <2>1. /\ id \in spawned /\ source[id] = "open" /\ UNCHANGED <<serialized, spawned>>
        /\ PumpChunk(id) \/ PumpEnd(id) \/ PumpError(id)
    BY <1>7 DEF PumpRaw
  <2>2. CASE PumpChunk(id) BY <1>1, <2>1, <2>2, PumpChunkKeeps
  <2>3. CASE PumpEnd(id)
    <3>1. /\ source' = [source EXCEPT ![id] = "ended"] /\ UNCHANGED pumped
          /\ Enqueue(encodeFrame("END", id, <<>>))
      BY <2>3 DEF PumpEnd
    <3>2. UNCHANGED <<serialized, spawned, pumped>> BY <2>1, <3>1
    <3> QED BY <1>1, <2>1, <3>1, <3>2, PumpOverKeeps
  <2>4. CASE PumpError(id)
    <3>1. /\ source' = [source EXCEPT ![id] = "failed"] /\ UNCHANGED pumped
          /\ Enqueue(encodeFrame("ERROR", id, <<"message">>))
      BY <2>4 DEF PumpError
    <3>2. UNCHANGED <<serialized, spawned, pumped>> BY <2>1, <3>1
    <3> QED BY <1>1, <2>1, <3>1, <3>2, PumpOverKeeps
  <2> QED BY <2>1, <2>2, <2>3, <2>4
<1> QED BY <1>1, <1>2, <1>3, <1>4, <1>5, <1>6, <1>7 DEF ServerStep

LEMMA FaultKeeps == ASSUME Inv, Fault PROVE Kept
<1>1. UNCHANGED client /\ (JSONFails \/ Disconnect) BY DEF Fault
<1> QED BY <1>1, JSONFailsKeeps, DisconnectKeeps

-----------------------------------------------------------------------------
(* Steps of the client. *)

\* A step of the client leaves the server as it is, and may break the connection.
LEMMA ServerKept ==
  ASSUME ServerInv, UNCHANGED server, wire' \in Seq(Cell),
         \/ wireEnd' = wireEnd /\ (wireEnd = "failed" => wire' = <<>>)
         \/ wireEnd' = "failed" /\ wire' = <<>>
  PROVE  /\ ServerInv'
         /\ \A f \in Frame : Content(f) => Content(f)'
         /\ \A c \in Channel : Made(c)' = Made(c)
<1>1. UNCHANGED <<serialized, pumped, spawned, source>> BY DEF server
<1>2. Registered(serialized)' = Registered(serialized) BY <1>1 DEF Registered
<1>3. PumpsDone' <=> PumpsDone BY <1>1 DEF PumpsDone, Registered
<1>4. \A c \in Channel : Data(c)' = Data(c) BY DEF Data
<1>5. ServerInv' BY <1>1, <1>2, <1>3, <1>4 DEF ServerInv
<1>6. \A f \in Frame : Content(f) => Content(f)' BY <1>1, <1>2 DEF Content
<1>7. \A c \in Channel : Made(c)' = Made(c) BY <1>1 DEF Made
<1> QED BY <1>5, <1>6, <1>7

\* Ending takes in all open channels, with the JSON lines or without.
LEMMA EndingIs ==
  ASSUME ClientInv, NEW s
  PROVE  /\ Ending(Left, s) = [c \in Channel |-> IF state[c] = "open" THEN s ELSE state[c]]
         /\ Ending(streamControllers, s)
              = [c \in Channel |-> IF c # 0 /\ state[c] = "open" THEN s ELSE state[c]]
<1>1. \A c \in Channel : c \in streamControllers <=> c # 0 /\ state[c] = "open"
  BY ChannelFacts DEF ClientInv
<1>2. \A c \in Channel : c \in Left /\ state[c] = "open" <=> state[c] = "open"
  BY <1>1 DEF Left
<1> QED BY <1>1, <1>2 DEF Ending

\* All streams end at once.
LEMMA AllEnd ==
  ASSUME ClientInv, BufferInv, NEW s \in {"error", "closed"},
         state' = Ending(Left, s), streamControllers' = {}, pc' = "end",
         UNCHANGED <<cancelled, streams, cancelledStreamIds, got, linesRead, bufferList, totalLength>>,
         UNCHANGED server
  PROVE  /\ ClientInv' /\ BufferInv' /\ FramesInv'
         /\ \A c \in Channel : /\ got'[c] = got[c]
                               /\ \/ state'[c] = state[c] /\ state[c] # "open"
                                  \/ state[c] = "open" /\ state'[c] = s
<1> DEFINE States == {"none", "open", "closed", "error", "cancelled"}
<1>1. state \in [Channel -> States] /\ 0 \in Channel BY ChannelFacts DEF ClientInv
<1>2. state' = [c \in Channel |-> IF state[c] = "open" THEN s ELSE state[c]] BY EndingIs
<1>3. \A c \in Channel : \/ state'[c] = state[c] /\ state[c] # "open"
                         \/ state[c] = "open" /\ state'[c] = s
  BY <1>2
<1>4. state' \in [Channel -> States] /\ \A c \in Channel : state'[c] # "open" BY <1>1, <1>2
<1>5. \A c \in Channel : state'[c] = "none" <=> state[c] = "none" BY <1>3
<1>6. \A id \in StreamId : (Creates(id))' <=> Creates(id) BY DEF Creates
<1>7. UNCHANGED <<serialized, pumped>> BY DEF server
<1>8. Registered(serialized)' = Registered(serialized) BY <1>7 DEF Registered
<1>9. linesRead' \in 0..Len(got'[0]) BY DEF ClientInv
<1>10. \A c \in Channel : Data(c)' = Data(c) BY DEF Data
<1>11. streamControllers' = {id \in StreamId : state'[id] = "open"} BY <1>4, ChannelFacts
<1>12. state'[0] # "none" BY <1>1, <1>5 DEF ClientInv
<1>13. ~cancelled' => \A id \in StreamId : (Creates(id))' <=> state'[id] = "none"
  BY <1>5, <1>6, ChannelFacts DEF ClientInv
<1>15. \A id \in StreamId : state'[id] # "none" => id \in Registered(serialized)'
  BY <1>5, <1>8, ChannelFacts DEF ClientInv
<1>16. /\ got' \in [Channel -> Seq(Seq(Cell) \cup Channel)] /\ cancelled' \in BOOLEAN
       /\ \A c \in Channel : Len(got'[c]) <= pumped'[c] /\ got'[c] = SubSeq(Data(c), 1, Len(got'[c]))
  BY <1>7 DEF ClientInv
<1>17. ClientInv'
  BY <1>1, <1>4, <1>9, <1>10, <1>11, <1>12, <1>13, <1>15, <1>16 DEF ClientInv
<1>18. BufferInv' BY DEF BufferInv, BufferAddsUp
<1> QED BY <1>3, <1>17, <1>18 DEF FramesInv

\* The catch clause: all streams end with the error.
LEMMA FailKeeps ==
  ASSUME Inv, Fail, UNCHANGED server, wire' \in Seq(Cell), wireEnd' = wireEnd,
         wireEnd = "failed" => wire' = <<>>
  PROVE  Kept
<1>1. /\ state' = Ending(Left, "error") /\ streamControllers' = {} /\ pc' = "end"
      /\ UNCHANGED <<cancelled, streams, cancelledStreamIds, got, linesRead, bufferList, totalLength>>
  BY DEF Fail, buffer
<1>2. ClientInv /\ BufferInv /\ ServerInv BY DEF Inv
<1>3. "error" \in {"error", "closed"} BY <1>1
<1>4. /\ ClientInv' /\ BufferInv' /\ FramesInv'
      /\ \A c \in Channel : /\ got'[c] = got[c]
                            /\ \/ state'[c] = state[c] /\ state[c] # "open"
                               \/ state[c] = "open" /\ state'[c] = "error"
  BY <1>1, <1>2, <1>3, AllEnd
<1>5. ServerInv' BY <1>2, ServerKept
<1>6. \A c \in Channel : Moves(c) BY <1>4 DEF Moves, View
<1>7. Maps BY <1>2, <1>6, ClientMaps
<1> QED BY <1>4, <1>5, <1>7 DEF Kept, Inv

LEMMA ReadFailsKeeps == ASSUME Inv, ReadFails PROVE Kept
<1>1. Fail /\ UNCHANGED <<server, wire, wireEnd>> BY DEF ReadFails, network
<1>2. wire' \in Seq(Cell) /\ (wireEnd = "failed" => wire' = <<>>) BY <1>1 DEF Inv, ServerInv
<1> QED BY <1>1, <1>2, FailKeeps

\* When the input is over and nothing is left over, everything has arrived.
LEMMA AllArrived ==
  ASSUME Inv, pc = "read", ~cancelled, wire = <<>>, wireEnd = "closed", totalLength = 0,
         NEW c \in Channel, state[c] = "open"
  PROVE  Over(c) /\ Len(got[c]) = pumped[c]
<1>1. ServerInv /\ ClientInv /\ BufferInv /\ FramesInv BY DEF Inv
<1>2. PICK F, rest, taken, sent : InPipe(F, rest, taken, sent) BY <1>1 DEF FramesInv
<1>3. FlattenSeq(bufferList) = <<>>
  <2>1. FlattenSeq(bufferList) \in Seq(Cell) /\ Len(FlattenSeq(bufferList)) = 0
    BY <1>1, FlatType DEF BufferInv, BufferAddsUp
  <2> QED BY <2>1
<1>4. rest = <<>> /\ F \in Seq(Frame) /\ Bytes(F) = FlattenSeq(bufferList) \o rest
  BY <1>2 DEF InPipe
<1>5. Bytes(F) = <<>>
  <2>1. <<>> \o <<>> = <<>> OBVIOUS
  <2> QED BY <1>3, <1>4, <2>1
<1>6. F = <<>>
  <2> SUFFICES ASSUME F # <<>> PROVE FALSE OBVIOUS
  <2>1. F[1] \in Frame /\ Tail(F) \in Seq(Frame) BY <1>4
  <2>2. Bytes(F) = Code(F[1]) \o Bytes(Tail(F)) BY <1>4, BytesFirst
  <2>3. Code(F[1]) \in Seq(Cell) /\ Len(Code(F[1])) = 2 + Len(F[1].payload) BY <2>1, CodeIs
  <2>4. Bytes(Tail(F)) \in Seq(Cell) BY <2>1, BytesType
  <2>5. Len(F[1].payload) \in Nat BY <2>1 DEF Frame
  <2>6. Len(Code(F[1]) \o Bytes(Tail(F))) = Len(Code(F[1])) + Len(Bytes(Tail(F)))
    BY <2>3, <2>4, ConcatProperties
  <2>7. Len(Bytes(Tail(F))) \in Nat BY <2>4
  <2>8. Len(Bytes(F)) = 0 BY <1>5
  <2> QED BY <2>2, <2>3, <2>5, <2>6, <2>7, <2>8
<1>7. taken[c] = sent[c] BY <1>2, <1>6, NumberedEmpty DEF InPipe
<1>8. sent[c] = Made(c) BY <1>2 DEF InPipe
<1>9. taken[c] = Len(got[c]) BY <1>2 DEF InPipe, Live
<1>10. Len(got[c]) = Made(c) BY <1>7, <1>8, <1>9
<1>11. Len(got[c]) \in Nat /\ pumped[c] \in Nat /\ Len(got[c]) <= pumped[c] BY <1>1, LenFacts
<1>12. PumpsDone BY <1>1 DEF ServerInv
<1>13. CASE c = 0 BY <1>10, <1>12, <1>13 DEF Made, Over, PumpsDone
<1>14. CASE c # 0
  <2>1. c \in StreamId BY <1>14, ChannelFacts
  <2>2. c \in Registered(serialized) BY <1>1, <2>1 DEF ClientInv
  <2>3. source[c] # "open" BY <1>12, <2>2 DEF PumpsDone
  <2>4. Made(c) = pumped[c] + 1 BY <1>14, <2>3 DEF Made
  <2> QED BY <1>10, <1>11, <2>4
<1> QED BY <1>13, <1>14

\* The input is over.
LEMMA ReadDoneKeeps == ASSUME Inv, ReadDone PROVE Kept
<1>1. ServerInv /\ ClientInv /\ BufferInv /\ FramesInv BY DEF Inv
<1>2. /\ pc = "read" /\ (cancelled \/ (wire = <<>> /\ wireEnd = "closed"))
      /\ Finish /\ UNCHANGED <<server, wire, wireEnd>>
  BY DEF ReadDone, network
<1>3. wire' \in Seq(Cell) /\ (wireEnd = "failed" => wire' = <<>>) BY <1>1, <1>2 DEF ServerInv
<1>4. CASE totalLength # 0
  <2>1. Fail BY <1>2, <1>4 DEF Finish
  <2> QED BY <1>2, <1>3, <2>1, FailKeeps
<1>5. CASE totalLength = 0
  <2>1. /\ state' = Ending(Left, "closed") /\ streamControllers' = {} /\ pc' = "end"
        /\ UNCHANGED <<cancelled, streams, cancelledStreamIds, got, bufferList, totalLength, linesRead>>
    BY <1>2, <1>5 DEF Finish, buffer
  <2>2. "closed" \in {"error", "closed"} BY <2>1
  <2>3. /\ ClientInv' /\ BufferInv' /\ FramesInv'
        /\ \A c \in Channel : /\ got'[c] = got[c]
                              /\ \/ state'[c] = state[c] /\ state[c] # "open"
                                 \/ state[c] = "open" /\ state'[c] = "closed"
    BY <1>1, <1>2, <2>1, <2>2, AllEnd
  <2>4. ServerInv' BY <1>1, <1>2, <1>3, ServerKept
  <2>5. ASSUME NEW c \in Channel PROVE Moves(c)
    <3>1. CASE state'[c] = state[c] /\ state[c] # "open" BY <2>3, <3>1 DEF Moves, View
    <3>2. CASE state[c] = "open" /\ state'[c] = "closed"
      <4>1. ~cancelled
        <5>1. c = 0 \/ c \in StreamId BY ChannelFacts
        <5> QED BY <1>1, <3>2, <5>1 DEF ClientInv
      <4>2. Over(c) /\ Len(got[c]) = pumped[c] BY <1>2, <1>5, <3>2, <4>1, AllArrived
      <4> QED BY <2>3, <3>2, <4>2 DEF Moves, View
    <3> QED BY <2>3, <3>1, <3>2
  <2>6. Maps BY <1>1, <1>2, <2>5, ClientMaps
  <2> QED BY <2>3, <2>4, <2>6 DEF Kept, Inv
<1> QED BY <1>4, <1>5

Status == {"none", "open", "closed", "error", "cancelled"}

\* The invariant of the client, as facts.
LEMMA ClientFacts ==
  ASSUME Inv
  PROVE  /\ state \in [Channel -> Status] /\ state[0] # "none"
         /\ got \in [Channel -> Seq(Seq(Cell) \cup Channel)]
         /\ \A c \in Channel : Len(got[c]) \in Nat
         /\ linesRead \in 0..Len(got[0]) /\ linesRead \in Nat
         /\ 0 \in Channel /\ 0 \notin StreamId
<1>1. ClientInv BY DEF Inv
<1>2. got \in [Channel -> Seq(Seq(Cell) \cup Channel)] BY <1>1 DEF ClientInv
<1>3. ASSUME NEW c \in Channel PROVE Len(got[c]) \in Nat
  <2>1. got[c] \in Seq(Seq(Cell) \cup Channel) BY <1>2
  <2> QED BY <2>1
<1>4. 0 \in Channel /\ 0 \notin StreamId BY ChannelFacts
<1>5. linesRead \in 0..Len(got[0]) BY <1>1 DEF ClientInv
<1>6. Len(got[0]) \in Nat BY <1>3, <1>4
<1>7. linesRead \in Nat BY <1>5, <1>6
<1>8. state \in [Channel -> Status] /\ state[0] # "none" BY <1>1 DEF ClientInv, Status
<1> QED BY <1>2, <1>3, <1>4, <1>5, <1>7, <1>8

\* What has been read grows by at most what the frame in front carries.
LEMMA GotKept ==
  ASSUME Inv, UNCHANGED server, UNCHANGED got
  PROVE  /\ got' \in [Channel -> Seq(Seq(Cell) \cup Channel)]
         /\ \A c \in Channel : Len(got'[c]) <= pumped'[c] /\ got'[c] = SubSeq(Data(c), 1, Len(got'[c]))
<1>1. pumped' = pumped BY DEF server
<1>2. ClientInv BY DEF Inv
<1> QED BY <1>1, <1>2 DEF ClientInv

\* One raw stream is created, ends or is cancelled.
LEMMA OneStream ==
  ASSUME Inv, ~cancelled, UNCHANGED <<cancelled, server>>, pc' \in {"read", "parse", "end"},
         NEW id \in StreamId, NEW t \in Status \ {"none"}, id \in Registered(serialized),
         state' = [state EXCEPT ![id] = t],
         streamControllers' = IF t = "open" THEN streamControllers \cup {id}
                                            ELSE streamControllers \ {id},
         \A j \in StreamId \ {id} : (Creates(j))' <=> Creates(j), ~(Creates(id))',
         linesRead' \in 0..Len(got'[0]),
         got' \in [Channel -> Seq(Seq(Cell) \cup Channel)],
         \A c \in Channel : Len(got'[c]) <= pumped'[c] /\ got'[c] = SubSeq(Data(c), 1, Len(got'[c]))
  PROVE  ClientInv'
<1>1. ClientInv BY DEF Inv
<1>2. state \in [Channel -> Status] /\ state[0] # "none" /\ 0 \in Channel /\ 0 \notin StreamId
  BY ClientFacts
<1>3. id \in Channel BY ChannelFacts
<1>4. /\ state' \in [Channel -> Status] /\ state'[id] = t
      /\ \A c \in Channel \ {id} : state'[c] = state[c]
  BY <1>2, <1>3
<1>5. state'[0] # "none" BY <1>2, <1>4
<1>6. streamControllers = {j \in StreamId : state[j] = "open"} BY <1>1 DEF ClientInv
<1>7. streamControllers' = {j \in StreamId : state'[j] = "open"}
  <2>1. \A j \in StreamId \ {id} : state'[j] = state[j] BY <1>4, ChannelFacts
  <2>2. ASSUME NEW j PROVE j \in streamControllers' <=> j \in StreamId /\ state'[j] = "open"
    <3>1. CASE j = id BY <1>4, <3>1
    <3>2. CASE j # id
      <4>1. j \in streamControllers' <=> j \in streamControllers BY <3>2
      <4>2. j \in StreamId => state'[j] = state[j] BY <2>1, <3>2
      <4> QED BY <1>6, <4>1, <4>2
    <3> QED BY <3>1, <3>2
  <2> QED BY <2>2
<1>8. ASSUME NEW j \in StreamId PROVE (Creates(j))' <=> state'[j] = "none"
  <2>1. CASE j = id BY <1>4, <2>1
  <2>2. CASE j # id
    <3>1. Creates(j) <=> state[j] = "none" BY <1>1 DEF ClientInv
    <3>2. state'[j] = state[j] BY <1>4, <2>2, ChannelFacts
    <3>3. (Creates(j))' <=> Creates(j) BY <2>2
    <3> QED BY <3>1, <3>2, <3>3
  <2> QED BY <2>1, <2>2
<1>9. UNCHANGED serialized BY DEF server
<1>10. \A j \in StreamId : state'[j] # "none" => j \in Registered(serialized)'
  <2>1. Registered(serialized)' = Registered(serialized) BY <1>9 DEF Registered
  <2>2. \A j \in StreamId \ {id} : state'[j] = state[j] BY <1>4, ChannelFacts
  <2> QED BY <1>1, <2>1, <2>2 DEF ClientInv
<1>11. \A c \in Channel : Data(c)' = Data(c) BY DEF Data
<1>12. ~cancelled' /\ cancelled' \in BOOLEAN BY <1>1 DEF ClientInv
<1>13. state' \in [Channel -> {"none", "open", "closed", "error", "cancelled"}] BY <1>4 DEF Status
<1> QED BY <1>5, <1>7, <1>8, <1>10, <1>11, <1>12, <1>13 DEF ClientInv

\* Steps that leave what is under way alone, and give nothing to a reader.
LEMMA QuietClient ==
  ASSUME Inv, ClientInv', UNCHANGED <<server, network, got, bufferList, totalLength>>,
         pc' # "end" => pc # "end", \A c \in Channel : (Live(c))' => Live(c),
         \A c \in Channel : View(c)' = View(c) \/ (View(c) = "open" /\ View(c)' = "cancelled")
  PROVE  Kept
<1>1. ServerInv /\ ClientInv /\ BufferInv /\ FramesInv BY DEF Inv
<1>2. UNCHANGED <<wire, wireEnd>> BY DEF network
<1>3. wire' \in Seq(Cell) /\ wireEnd' = wireEnd /\ (wireEnd = "failed" => wire' = <<>>)
  BY <1>1, <1>2 DEF ServerInv
<1>4. /\ ServerInv' /\ (\A f \in Frame : Content(f) => Content(f)')
      /\ \A c \in Channel : Made(c)' = Made(c)
  BY <1>1, <1>3, ServerKept
<1>5. BufferInv' BY <1>1 DEF BufferInv, BufferAddsUp
<1>6. \/ wireEnd' = "failed"
      \/ wireEnd # "failed" /\ wire' = wire /\ \A c \in Channel : Made(c)' = Made(c)
  BY <1>2, <1>4
<1>7. \A c \in Channel : (Live(c))' => Live(c) /\ got'[c] = got[c] OBVIOUS
<1>8. FramesInv' BY <1>1, <1>4, <1>6, <1>7, PipeKept
<1>9. \A c \in Channel : Moves(c) BY DEF Moves
<1>10. Maps BY <1>1, <1>9, ClientMaps
<1> QED BY <1>4, <1>5, <1>8, <1>10 DEF Kept, Inv

\* The line that is read next refers to a registered stream, if to any.
LEMMA LineRead ==
  ASSUME Inv, linesRead < Len(got[0]), NEW id, id = got[0][linesRead + 1], id # 0
  PROVE  id \in StreamId /\ id \in Registered(serialized)
<1>1. Len(got[0]) \in Nat /\ linesRead \in 0..Len(got[0]) /\ 0 \in Channel BY ClientFacts
<1>2. ServerInv /\ ClientInv BY DEF Inv
<1> DEFINE k == linesRead + 1
<1>3. k \in 1..Len(got[0]) BY <1>1
<1>4. got[0] = SubSeq(Lines, 1, Len(got[0])) BY <1>1, <1>2 DEF ClientInv, Data
<1>5. Len(got[0]) <= pumped[0] /\ pumped[0] \in Nat /\ pumped[0] <= serialized
      /\ serialized \in 1..Len(Lines)
  BY <1>1, <1>2 DEF ServerInv, ClientInv
<1>6. Len(Lines) \in Nat BY ChannelAssumption
<1>7. k \in 1..serialized /\ k \in 1..Len(Lines) BY <1>1, <1>3, <1>5, <1>6
<1> HIDE DEF k
<1>8. got[0][k] = Lines[k]
  <2>1. SubSeq(Lines, 1, Len(got[0]))[k] = Lines[k] BY <1>1, <1>3
  <2> QED BY <1>4, <2>1
<1>9. id = Lines[k] BY <1>8 DEF k
<1>10. id \in Channel BY <1>7, <1>9, ChannelAssumption
<1> QED BY <1>7, <1>9, <1>10, ChannelFacts DEF Registered

\* The steps of the readers.
LEMMA ReadLineKeeps == ASSUME Inv, ReadLine PROVE Kept
<1> DEFINE id == got[0][linesRead + 1]
<1>1. ClientInv BY DEF Inv
<1>2. /\ linesRead < Len(got[0]) /\ linesRead' = linesRead + 1
      /\ UNCHANGED <<bufferList, totalLength, pc, cancelled, cancelledStreamIds, got, server, network>>
      /\ IF id = 0 \/ TooMany(id) \/ cancelled
         THEN UNCHANGED <<streams, streamControllers, state>>
         ELSE /\ streams' = CreatedIn(streams, id)
              /\ streamControllers' = CreatedIn(streamControllers, id)
              /\ state' = CreatedState(id)
  BY DEF ReadLine, buffer
<1>3. /\ state \in [Channel -> Status] /\ Len(got[0]) \in Nat /\ linesRead \in 0..Len(got[0])
      /\ 0 \in Channel
  BY ClientFacts
<1>4. linesRead' \in 0..Len(got'[0]) BY <1>2, <1>3
<1>6. pc' \in {"read", "parse", "end"} BY <1>1, <1>2 DEF ClientInv
<1>7. UNCHANGED <<server, got>> BY <1>2
<1>8. CASE UNCHANGED <<streams, streamControllers, state>>
  <2>1. \A j \in StreamId : (Creates(j))' <=> Creates(j) BY <1>2, <1>8 DEF Creates
  <2>2. UNCHANGED serialized BY <1>7 DEF server
  <2>3. Registered(serialized)' = Registered(serialized) BY <2>2 DEF Registered
  <2>4. \A c \in Channel : Data(c)' = Data(c) BY DEF Data
  <2>5. ClientInv' BY <1>1, <1>2, <1>4, <1>7, <1>8, <2>1, <2>3, <2>4, GotKept DEF ClientInv
  <2>6. \A c \in Channel : View(c)' = View(c) /\ ((Live(c))' => Live(c))
    BY <1>2, <1>8 DEF View, Live
  <2> QED BY <1>2, <2>5, <2>6, QuietClient
<1>9. CASE ~(id = 0 \/ TooMany(id) \/ cancelled)
  <2>0. ~cancelled BY <1>9
  <2>1. PICK j : j = id OBVIOUS
  <2>2. j \in StreamId /\ j \in Registered(serialized) BY <1>2, <1>9, <2>1, LineRead
  <2>3. /\ streams' = CreatedIn(streams, j) /\ state' = CreatedState(j)
        /\ streamControllers' = CreatedIn(streamControllers, j)
    BY <1>2, <1>9, <2>1
  <2>4. Creates(j) <=> state[j] = "none" BY <1>1, <2>0, <2>2 DEF ClientInv
  <2>5. j \in Channel /\ j # 0 BY <2>2, ChannelFacts
  <2> DEFINE t == IF state[j] = "none" THEN "open" ELSE state[j]
  <2>6. t \in Status \ {"none"}
    <3>1. state[j] \in Status BY <1>3, <2>5
    <3> QED BY <3>1 DEF Status
  <2>7. state' = [state EXCEPT ![j] = t]
    <3>1. CASE state[j] = "none" BY <2>3, <2>4, <3>1 DEF CreatedState
    <3>2. CASE state[j] # "none" BY <1>3, <2>3, <2>4, <3>2 DEF CreatedState
    <3> QED BY <3>1, <3>2
  <2>8. streamControllers' = IF t = "open" THEN streamControllers \cup {j}
                                           ELSE streamControllers \ {j}
    <3>1. j \in streamControllers <=> state[j] = "open" BY <1>1, <2>2 DEF ClientInv
    <3>2. CASE state[j] = "none" BY <2>3, <2>4, <3>2 DEF CreatedIn
    <3>3. CASE state[j] # "none"
      <4>1. streamControllers' = streamControllers BY <2>3, <2>4, <3>3 DEF CreatedIn
      <4> QED BY <3>1, <3>3, <4>1
    <3> QED BY <3>2, <3>3
  <2>9. \A i \in StreamId \ {j} : (Creates(i))' <=> Creates(i)
    BY <1>2, <2>3 DEF Creates, CreatedIn
  <2>10. ~(Creates(j))'
    BY <1>2, <2>3 DEF Creates, CreatedIn
  <2> HIDE DEF t
  <2>11. PICK u : u = t OBVIOUS
  <2>12. UNCHANGED <<cancelled, server>> BY <1>2
  <2>13. ClientInv'
    BY <1>4, <2>0, <1>6, <1>7, <2>2, <2>6, <2>7, <2>8, <2>9, <2>10, <2>11, <2>12, GotKept, OneStream
  <2>14. ASSUME NEW c \in Channel PROVE View(c)' = View(c) /\ ((Live(c))' => Live(c))
    <3>1. CASE c = j
      <4>1. state'[j] = t BY <1>3, <2>5, <2>7
      <4> QED BY <1>2, <2>0, <3>1, <4>1 DEF View, Live, t
    <3>2. CASE c # j
      <4>1. state'[c] = state[c] BY <1>3, <2>7, <3>2
      <4> QED BY <1>2, <4>1 DEF View, Live
    <3> QED BY <3>1, <3>2
  <2> QED BY <1>2, <2>13, <2>14, QuietClient
<1> QED BY <1>2, <1>8, <1>9

LEMMA RequestKeeps == ASSUME Inv, Request PROVE Kept
<1>1. /\ UNCHANGED <<bufferList, totalLength, pc, cancelled, streams, streamControllers>>
      /\ UNCHANGED <<cancelledStreamIds, state, got, linesRead, server, network>>
  BY DEF Request, buffer, maps
<1>2. ClientInv BY DEF Inv
<1>3. \A j \in StreamId : (Creates(j))' <=> Creates(j) BY <1>1 DEF Creates
<1>4. UNCHANGED serialized BY <1>1 DEF server
<1>5. Registered(serialized)' = Registered(serialized) BY <1>4 DEF Registered
<1>6. \A c \in Channel : Data(c)' = Data(c) BY DEF Data
<1>7. UNCHANGED <<server, got>> BY <1>1
<1>8. ClientInv' BY <1>1, <1>2, <1>3, <1>5, <1>6, <1>7, GotKept DEF ClientInv
<1>9. \A c \in Channel : View(c)' = View(c) /\ ((Live(c))' => Live(c)) BY <1>1 DEF View, Live
<1> QED BY <1>1, <1>8, <1>9, QuietClient

LEMMA CancelStreamKeeps == ASSUME Inv, NEW id \in StreamId, CancelStream(id) PROVE Kept
<1>1. ClientInv BY DEF Inv
<1>2. /\ state[id] = "open" /\ state' = [state EXCEPT ![id] = "cancelled"]
      /\ cancelledStreamIds' = cancelledStreamIds \cup {id}
      /\ streamControllers' = streamControllers \ {id} /\ streams' = streams \ {id}
      /\ UNCHANGED <<bufferList, totalLength, pc, cancelled, got, linesRead, server, network>>
  BY DEF CancelStream, buffer
<1>3. /\ state \in [Channel -> Status] /\ linesRead \in 0..Len(got[0])
  BY ClientFacts
<1>4. linesRead' \in 0..Len(got'[0]) BY <1>2, <1>3
<1>5. ~cancelled BY <1>1, <1>2 DEF ClientInv
<1>6. pc' \in {"read", "parse", "end"} BY <1>1, <1>2 DEF ClientInv
<1>7. id \in Registered(serialized) BY <1>1, <1>2 DEF ClientInv
<1>8. /\ \A i \in StreamId \ {id} : (Creates(i))' <=> Creates(i)
      /\ ~(Creates(id))'
  BY <1>2 DEF Creates
<1>9. "cancelled" \in Status \ {"none"} /\ "cancelled" # "open" BY DEF Status
<1>10. streamControllers' = IF "cancelled" = "open" THEN streamControllers \cup {id}
                                                    ELSE streamControllers \ {id}
  BY <1>2, <1>9
<1>11. UNCHANGED <<cancelled, server>> /\ UNCHANGED got BY <1>2
<1>12. ClientInv'
  BY <1>2, <1>4, <1>5, <1>6, <1>7, <1>8, <1>9, <1>10, <1>11, GotKept, OneStream
<1>13. ASSUME NEW c \in Channel
       PROVE  /\ View(c)' = View(c) \/ (View(c) = "open" /\ View(c)' = "cancelled")
              /\ (Live(c))' => Live(c)
  <2>1. CASE c = id
    <3>1. state'[id] = "cancelled" BY <1>2, <1>3, <2>1
    <3> QED BY <1>2, <2>1, <3>1 DEF View, Live
  <2>2. CASE c # id
    <3>1. state'[c] = state[c] BY <1>2, <1>3, <2>2
    <3> QED BY <1>2, <3>1 DEF View, Live
  <2> QED BY <2>1, <2>2
<1> QED BY <1>2, <1>12, <1>13, QuietClient

LEMMA CancelJSONKeeps == ASSUME Inv, CancelJSON PROVE Kept
<1>1. ServerInv /\ ClientInv /\ BufferInv /\ FramesInv BY DEF Inv
<1>2. /\ pc # "parse" /\ state[0] = "open" /\ cancelled' = TRUE
      /\ state' = [Ending(streamControllers, "error") EXCEPT ![0] = "cancelled"]
      /\ streamControllers' = {}
      /\ wireEnd' = "failed" /\ wire' = <<>>
      /\ UNCHANGED <<bufferList, totalLength, pc, got, linesRead, server>>
  BY DEF CancelJSON, Broken, buffer
<1>3. /\ state \in [Channel -> Status] /\ 0 \in Channel /\ Len(got[0]) \in Nat /\ 0 \notin StreamId
  BY ClientFacts
<1>4. \A c \in Channel : state'[c] = IF c = 0 THEN "cancelled"
                                     ELSE IF state[c] = "open" THEN "error" ELSE state[c]
  <2>1. Ending(streamControllers, "error")
          = [c \in Channel |-> IF c # 0 /\ state[c] = "open" THEN "error" ELSE state[c]]
    BY <1>1, EndingIs
  <2> QED BY <1>2, <2>1
<1>5. state' \in [Channel -> Status]
  <2>1. state' = [c \in Channel |-> IF c = 0 THEN "cancelled"
                                    ELSE IF state[c] = "open" THEN "error" ELSE state[c]]
    <3>1. Ending(streamControllers, "error")
            = [c \in Channel |-> IF c # 0 /\ state[c] = "open" THEN "error" ELSE state[c]]
      BY <1>1, EndingIs
    <3> QED BY <1>2, <3>1
  <2>2. \A c \in Channel : state[c] \in Status BY <1>3
  <2> QED BY <2>1, <2>2 DEF Status
<1>6. \A c \in Channel : state'[c] # "open" BY <1>4
<1>7. ClientInv'
  <2>1. streamControllers' = {j \in StreamId : state'[j] = "open"} BY <1>2, <1>6, ChannelFacts
  <2>2. linesRead' \in 0..Len(got'[0]) BY <1>1, <1>2 DEF ClientInv
  <2>3. UNCHANGED serialized BY <1>2 DEF server
  <2>4. Registered(serialized)' = Registered(serialized) BY <2>3 DEF Registered
  <2>5. \A j \in StreamId : state'[j] # "none" => j \in Registered(serialized)'
    <3>1. \A j \in StreamId : state'[j] # "none" => state[j] # "none" BY <1>3, <1>4, ChannelFacts
    <3> QED BY <1>1, <2>4, <3>1 DEF ClientInv
  <2>6. \A c \in Channel : Data(c)' = Data(c) BY DEF Data
  <2>7. state'[0] # "none" /\ state'[0] # "open" BY <1>3, <1>4
  <2>8. /\ got' \in [Channel -> Seq(Seq(Cell) \cup Channel)]
        /\ \A c \in Channel : Len(got'[c]) <= pumped'[c] /\ got'[c] = SubSeq(Data(c), 1, Len(got'[c]))
    BY <1>2, GotKept
  <2>9. state' \in [Channel -> {"none", "open", "closed", "error", "cancelled"}] BY <1>5 DEF Status
  <2>10. pc' \in {"read", "parse", "end"} /\ pc' # "parse" BY <1>1, <1>2 DEF ClientInv
  <2>11. cancelled' = TRUE BY <1>2
  <2> QED BY <1>2, <2>1, <2>2, <2>5, <2>6, <2>7, <2>8, <2>9, <2>10, <2>11 DEF ClientInv
<1>8. wire' \in Seq(Cell) BY <1>2
<1>9. ServerInv' /\ (\A f \in Frame : Content(f) => Content(f)') BY <1>1, <1>2, <1>8, ServerKept
<1>10. BufferInv' BY <1>1, <1>2 DEF BufferInv, BufferAddsUp
<1>11. \A c \in Channel : (Live(c))' => Live(c) /\ got'[c] = got[c] BY <1>2 DEF Live
<1>12. FramesInv' BY <1>1, <1>2, <1>9, <1>11, PipeKept
<1>13. ASSUME NEW c \in Channel PROVE Moves(c)
  <2>1. got'[c] = got[c] BY <1>2
  <2>2. CASE c = 0 BY <1>2, <1>4, <2>1, <2>2 DEF Moves, View
  <2>3. CASE c # 0 /\ state[c] = "open" BY <1>4, <2>1, <2>3 DEF Moves, View
  <2>4. CASE c # 0 /\ state[c] # "open" BY <1>4, <2>1, <2>4 DEF Moves, View
  <2> QED BY <2>2, <2>3, <2>4
<1>14. Maps BY <1>1, <1>2, <1>13, ClientMaps
<1> QED BY <1>7, <1>9, <1>10, <1>12, <1>14 DEF Kept, Inv

\* A piece arrives: from the connection into the list.
LEMMA SmallerIs ==
  ASSUME NEW a \in Nat, NEW b \in Nat
  PROVE  Min({a, b}) = IF a <= b THEN a ELSE b
<1> DEFINE IsMin(m) == m \in {a, b} /\ \A x \in {a, b} : m <= x
           m == IF a <= b THEN a ELSE b
<1>1. IsMin(m) OBVIOUS
<1>2. \A x : IsMin(x) => x = m
  <2> SUFFICES ASSUME NEW x, IsMin(x) PROVE x = m OBVIOUS
  <2>1. x = a \/ x = b OBVIOUS
  <2>2. x <= a /\ x <= b OBVIOUS
  <2> QED BY <2>1, <2>2
<1>3. Min({a, b}) \in {a, b} /\ \A x \in {a, b} : Min({a, b}) <= x BY <1>1 DEF Min
<1>4. IsMin(Min({a, b})) BY <1>3
<1> QED BY <1>2, <1>4

LEMMA ReadKeeps == ASSUME Inv, NEW size \in Pieces, Read(size) PROVE Kept
<1> DEFINE n == Min({size, Len(wire)})
           x == SubSeq(wire, 1, n)
           y == SubSeq(wire, n + 1, Len(wire))
<1>1. ServerInv /\ ClientInv /\ BufferInv /\ FramesInv BY DEF Inv
<1>2. /\ pc = "read" /\ ~cancelled /\ n > 0 /\ wire' = y
      /\ IF totalLength + n > limit.bytes THEN Fail
         ELSE /\ bufferList' = Append(bufferList, x)
              /\ totalLength' = totalLength + n
              /\ pc' = "parse"
              /\ UNCHANGED <<limit, frameCount, cancelled, maps, out>>
      /\ UNCHANGED <<server, wireEnd>>
  BY DEF Read
<1>3. wire \in Seq(Cell) /\ Len(wire) \in Nat /\ size \in Nat
  BY <1>1, DecoderAssumption DEF ServerInv
<1>4. n \in 1..Len(wire)
  <2>1. n = IF size <= Len(wire) THEN size ELSE Len(wire) BY <1>3, SmallerIs
  <2> HIDE DEF n
  <2> QED BY <1>2, <1>3, <2>1
<1> HIDE DEF n
<1>5. x \in Seq(Cell) /\ y \in Seq(Cell) /\ Len(x) = n /\ n \in Nat BY <1>3, <1>4
<1>6. wireEnd # "failed"
  <2>1. wire # <<>> BY <1>4
  <2> QED BY <1>1, <2>1 DEF ServerInv
<1>7. CASE totalLength + n > limit.bytes
  <2>1. Fail BY <1>2, <1>7
  <2>2. wire' \in Seq(Cell) BY <1>2, <1>5
  <2> QED BY <1>2, <1>6, <2>1, <2>2, FailKeeps
<1>8. CASE ~(totalLength + n > limit.bytes)
  <2>1. /\ bufferList' = Append(bufferList, x) /\ totalLength' = totalLength + n /\ pc' = "parse"
        /\ UNCHANGED <<cancelled, streams, streamControllers, cancelledStreamIds, state, got, linesRead>>
    BY <1>2, <1>8 DEF maps, out
  <2>2. /\ ServerInv' /\ (\A f \in Frame : Content(f) => Content(f)')
        /\ \A c \in Channel : Made(c)' = Made(c)
    BY <1>1, <1>2, <1>5, <1>6, ServerKept
  <2>3. ClientInv'
    <3>1. UNCHANGED <<serialized, pumped>> BY <1>2 DEF server
    <3>2. Registered(serialized)' = Registered(serialized) BY <3>1 DEF Registered
    <3>3. \A c \in Channel : Data(c)' = Data(c) BY DEF Data
    <3>4. \A j \in StreamId : (Creates(j))' <=> Creates(j) BY <2>1 DEF Creates
    <3> QED BY <1>1, <1>2, <2>1, <3>1, <3>2, <3>3, <3>4 DEF ClientInv
  <2> DEFINE b == FlattenSeq(bufferList)
  <2>4. /\ FlattenSeq(bufferList') = b \o x /\ b \in Seq(Cell)
        /\ bufferList' \in ListOf(Cell)
    <3>1. bufferList \in ListOf(Cell) BY <1>1 DEF BufferInv
    <3>2. FlattenSeq(Append(bufferList, x)) = FlattenSeq(bufferList) \o x BY <1>5, <3>1, FlatAppend
    <3>3. Append(bufferList, x) \in ListOf(Cell)
      <4> DEFINE C == Seq(Cell)
      <4>1. bufferList \in Seq(C) /\ x \in C BY <1>5, <3>1 DEF ListOf
      <4> HIDE DEF C, x
      <4>2. Append(bufferList, x) \in Seq(C) BY <4>1
      <4> QED BY <4>2 DEF ListOf, C
    <3> QED BY <2>1, <3>1, <3>2, <3>3, FlatType
  <2>5. BufferInv'
    <3>1. Len(b \o x) = Len(b) + Len(x)
      <4>1. b \in Seq(Cell) /\ x \in Seq(Cell) BY <1>5, <2>4
      <4> HIDE DEF b, x
      <4> QED BY <4>1, ConcatProperties
    <3>2. totalLength = Len(b) BY <1>1 DEF BufferInv, BufferAddsUp
    <3>3. totalLength' = Len(FlattenSeq(bufferList')) BY <1>5, <2>1, <2>4, <3>1, <3>2
    <3> QED BY <2>4, <3>3 DEF BufferInv, BufferAddsUp
  <2>6. FramesInv'
    <3>1. PICK F, rest, taken, sent : InPipe(F, rest, taken, sent) BY <1>1, <1>2 DEF FramesInv
    <3>2. PICK left : left = y OBVIOUS
    <3>3. b \o wire = Bytes(F) BY <1>6, <3>1 DEF InPipe
    <3>4. x \o left = wire
      <4>1. n \in 1 - 1..Len(wire) /\ 1 \in 1..Len(wire) + 1 /\ Len(wire) \in n..Len(wire)
        BY <1>3, <1>4
      <4>2. SubSeq(wire, 1, n) \o SubSeq(wire, n + 1, Len(wire)) = SubSeq(wire, 1, Len(wire))
        BY <1>3, <4>1, ConcatAdjacentSubSeq
      <4>3. SubSeq(wire, 1, Len(wire)) = wire BY <1>3, SubSeqFull
      <4> QED BY <3>2, <4>2, <4>3
    <3>5. (b \o x) \o left = b \o (x \o left)
      <4>1. b \in Seq(Cell) /\ x \in Seq(Cell) /\ left \in Seq(Cell) BY <1>5, <2>4, <3>2
      <4> HIDE DEF b, x
      <4> QED BY <4>1, ConcatAssociative
    <3>6. FlattenSeq(bufferList') \o left = Bytes(F) BY <2>4, <3>3, <3>4, <3>5
    <3>7. (FlattenSeq(bufferList) \o left = Bytes(F))' BY <3>6
    <3>8. F \in Seq(Frame) /\ left \in Seq(Cell) BY <1>5, <3>1, <3>2 DEF InPipe
    <3>9. \A i \in 1..Len(F) : Content(F[i])'
      <4> SUFFICES ASSUME NEW i \in 1..Len(F) PROVE Content(F[i])' OBVIOUS
      <4>1. F[i] \in Frame BY <3>8
      <4>2. Content(F[i]) BY <3>1 DEF InPipe
      <4> QED BY <2>2, <4>1, <4>2
    <3>10. \A c \in Channel : (Live(c))' => taken[c] = Len(got'[c])
      BY <2>1, <3>1 DEF InPipe, Live
    <3>11. Numbered(F, taken, sent)' BY <3>1 DEF InPipe
    <3>12. left = wire' /\ \A c \in Channel : sent[c] = Made(c)'
      BY <1>2, <1>6, <2>2, <3>1, <3>2 DEF InPipe
    <3> HIDE DEF b, x, y
    <3>13. InPipe(F, left, taken, sent)'
      BY <3>7, <3>8, <3>9, <3>10, <3>11, <3>12 DEF InPipe
    <3> QED BY <3>13 DEF FramesInv
  <2>7. \A c \in Channel : Moves(c) BY <2>1 DEF Moves, View
  <2>8. Maps BY <1>1, <1>2, <2>7, ClientMaps
  <2> QED BY <2>2, <2>3, <2>5, <2>6, <2>8 DEF Kept, Inv
<1> QED BY <1>7, <1>8

\* The pipe once the frame f has been taken out of it, with l still buffered.
Without(f, l, F, rest, taken, sent) ==
  /\ F \in Seq(Frame) /\ rest \in Seq(Cell)
  /\ FlattenSeq(l) \o rest = Bytes(F)
  /\ wireEnd # "failed" => rest = wire /\ \A c \in Channel : sent[c] = Made(c)
  /\ Numbered(F, taken, sent)
  /\ \A i \in 1..Len(F) : Content(F[i])
  /\ \A c \in Channel : Live(c) => taken[c] = IF c = f.id THEN Len(got[c]) + 1 ELSE Len(got[c])

\* What Parse finds in front is a frame that was sent, the next of its stream.
InFront(f) ==
  /\ Header = [type |-> f.type, id |-> f.id, length |-> Len(f.payload)]
  /\ FrameSize = 2 + Len(f.payload) /\ Payload = f.payload
  /\ FrameSize \in 0..totalLength /\ totalLength \in Nat
  /\ Content(f)
  /\ Live(f.id) => f.n = Len(got[f.id]) + 1
  /\ Drop(FrameSize) \in ListOf(Cell)
  /\ Len(FlattenSeq(Drop(FrameSize))) = totalLength - FrameSize
  /\ \E F, rest, taken, sent : Without(f, Drop(FrameSize), F, rest, taken, sent)

LEMMA ParsedFrame ==
  ASSUME Inv, pc = "parse", ~Incomplete
  PROVE  \E f \in Frame : InFront(f)
<1> DEFINE x == FlattenSeq(bufferList)
<1>1. ServerInv /\ ClientInv /\ BufferInv /\ FramesInv BY DEF Inv
<1>2. PICK F, rest, taken, sent : InPipe(F, rest, taken, sent) BY <1>1 DEF FramesInv
<1>3. bufferList \in ListOf(Cell) /\ x \in Seq(Cell) /\ totalLength = Len(x) /\ Len(x) \in Nat
  <2>1. bufferList \in ListOf(Cell) BY <1>1 DEF BufferInv
  <2>2. x \in Seq(Cell) BY <2>1, FlatType
  <2> QED BY <1>1, <2>1, <2>2 DEF BufferInv, BufferAddsUp
<1>4. F \in Seq(Frame) /\ rest \in Seq(Cell) /\ x \o rest = Bytes(F) BY <1>2 DEF InPipe
<1>5. Len(x) >= 2 /\ ~(totalLength < FrameSize)
  <2>1. ~(totalLength < 2) BY DEF Incomplete, HeaderSize
  <2>2. ~(totalLength < FrameSize) BY DEF Incomplete
  <2>3. Len(x) >= 2 BY <1>3, <2>1
  <2> QED BY <2>2, <2>3
<1>6. F # <<>>
  <2> SUFFICES ASSUME F = <<>> PROVE FALSE OBVIOUS
  <2>1. x \o rest = <<>> BY <1>4, BytesEmpty
  <2> HIDE DEF x
  <2>2. Len(x \o rest) = Len(x) + Len(rest) /\ Len(rest) \in Nat BY <1>3, <1>4, ConcatProperties
  <2>3. Len(x \o rest) = 0 BY <2>1
  <2> QED BY <1>3, <1>5, <2>2, <2>3
<1> DEFINE f == F[1]  G == Tail(F)  l == Len(f.payload)
<1>7. f \in Frame /\ G \in Seq(Frame) /\ l \in Nat
  <2>1. f \in Frame /\ G \in Seq(Frame) BY <1>4, <1>6
  <2> QED BY <2>1 DEF Frame
<1>8. x \o rest = Code(f) \o Bytes(G) BY <1>4, <1>6, BytesFirst
<1>9. Bytes(G) \in Seq(Cell) BY <1>7, BytesType
<1>10. /\ SubSeq(x, 1, 2)[1] = [type |-> f.type, id |-> f.id] /\ SubSeq(x, 1, 2)[2] = l
       /\ Len(x) >= 2 + l => /\ SubSeq(SubSeq(x, 1, 2 + l), 3, 2 + l) = f.payload
                             /\ SubSeq(x, 2 + l + 1, Len(x)) \o rest = Bytes(G)
  <2> HIDE DEF x, f, G
  <2>1. f \in Frame /\ x \in Seq(Cell) /\ rest \in Seq(Cell) /\ Bytes(G) \in Seq(Cell)
    BY <1>3, <1>4, <1>7, <1>9
  <2> QED BY <1>5, <1>8, <2>1, FrontIs
<1>11. Header = [type |-> f.type, id |-> f.id, length |-> l]
  BY <1>10 DEF Header, Take, HeaderSize
<1>12. FrameSize = 2 + l BY <1>11 DEF FrameSize, HeaderSize
<1>13. Len(x) >= 2 + l
  <2>1. ~(totalLength < 2 + l) BY <1>5, <1>12
  <2> QED BY <1>3, <1>7, <2>1
<1>14. Payload = f.payload
  <2>1. Payload = SubSeq(SubSeq(x, 1, 2 + l), 2 + 1, 2 + l) BY <1>12 DEF Payload, Take, HeaderSize
  <2>2. 2 + 1 = 3 OBVIOUS
  <2> QED BY <1>10, <1>13, <2>1, <2>2
<1>15. 2 + l \in 0..Len(FlattenSeq(bufferList)) BY <1>3, <1>7, <1>13
<1>16. /\ Drop(2 + l) \in ListOf(Cell)
       /\ FlattenSeq(Drop(2 + l)) = SubSeq(x, 2 + l + 1, Len(x))
  <2> HIDE DEF l
  <2> QED BY <1>3, <1>15, Dropped
<1>17. Len(FlattenSeq(Drop(2 + l))) = totalLength - (2 + l)
  <2>1. Len(SubSeq(x, 2 + l + 1, Len(x))) = Len(x) - (2 + l)
    <3> DEFINE m == 2 + l
    <3>1. m \in Nat /\ m <= Len(x) BY <1>7, <1>13
    <3> HIDE DEF m, x
    <3>2. Len(SubSeq(x, m + 1, Len(x))) = Len(x) - m BY <1>3, <3>1
    <3> QED BY <3>2 DEF m
  <2> QED BY <1>3, <1>16, <2>1
<1>18. Content(f)
  <2>1. 1 \in 1..Len(F) BY <1>4, <1>6
  <2> QED BY <1>2, <2>1 DEF InPipe
<1> DEFINE more == [taken EXCEPT ![f.id] = @ + 1]
<1>19. Numbered(F, taken, sent) BY <1>2 DEF InPipe
<1>20. f.n = taken[f.id] + 1 /\ Numbered(G, more, sent)
  BY <1>4, <1>6, <1>19, NumberedFirst
<1>21. f.id \in Channel BY <1>7 DEF Frame
<1>22. taken \in [Channel -> Nat] BY <1>19 DEF Numbered
<1>23. Live(f.id) => f.n = Len(got[f.id]) + 1 BY <1>2, <1>20, <1>21 DEF InPipe
<1>24. \A c \in Channel : Live(c) => more[c] = IF c = f.id THEN Len(got[c]) + 1 ELSE Len(got[c])
  BY <1>2, <1>21, <1>22 DEF InPipe
<1>25. \A i \in 1..Len(G) : Content(G[i])
  <2> SUFFICES ASSUME NEW i \in 1..Len(G) PROVE Content(G[i]) OBVIOUS
  <2>1. i + 1 \in 1..Len(F) /\ G[i] = F[i + 1] BY <1>4, <1>6
  <2> QED BY <1>2, <2>1 DEF InPipe
<1>26. FlattenSeq(Drop(2 + l)) \o rest = Bytes(G) BY <1>10, <1>13, <1>16
<1> HIDE DEF f, G, l, more, x
<1>27. Without(f, Drop(FrameSize), G, rest, more, sent)
  <2>1. Drop(FrameSize) = Drop(2 + l) BY <1>12
  <2>2. FlattenSeq(Drop(FrameSize)) \o rest = Bytes(G) BY <1>26, <2>1
  <2>3. wireEnd # "failed" => rest = wire /\ \A c \in Channel : sent[c] = Made(c)
    BY <1>2 DEF InPipe
  <2> QED BY <1>4, <1>7, <1>20, <1>24, <1>25, <2>2, <2>3 DEF Without
<1>28. InFront(f)
  <2>1. Drop(FrameSize) = Drop(2 + l) BY <1>12
  <2>2. Drop(FrameSize) \in ListOf(Cell) BY <1>16, <2>1
  <2>3. Len(FlattenSeq(Drop(FrameSize))) = totalLength - FrameSize BY <1>12, <1>17, <2>1
  <2>4. FrameSize \in 0..totalLength /\ totalLength \in Nat BY <1>3, <1>7, <1>12, <1>13
  <2>5. Header = [type |-> f.type, id |-> f.id, length |-> Len(f.payload)] BY <1>11 DEF l
  <2>6. FrameSize = 2 + Len(f.payload) BY <1>12 DEF l
  <2> QED BY <1>14, <1>18, <1>23, <1>27, <2>2, <2>3, <2>4, <2>5, <2>6 DEF InFront
<1> QED BY <1>7, <1>28

-----------------------------------------------------------------------------
(* A frame is parsed. *)

\* The frame f is taken out of the buffer and given to its stream.
LEMMA FrameTaken ==
  ASSUME Inv, pc = "parse", UNCHANGED <<server, network>>, pc' = pc,
         NEW f \in Frame, InFront(f),
         bufferList' = Drop(FrameSize), totalLength' = totalLength - FrameSize,
         \A c \in Channel : (Live(c))' => Live(c) /\ Len(got'[c]) = IF c = f.id THEN Len(got[c]) + 1
                                                                    ELSE Len(got[c]),
         ClientInv', \A c \in Channel : Moves(c)
  PROVE  Kept
<1>1. ServerInv /\ ClientInv BY DEF Inv
<1>2. UNCHANGED <<wire, wireEnd>> BY DEF network
<1>3. wire' \in Seq(Cell) /\ wireEnd' = wireEnd /\ (wireEnd = "failed" => wire' = <<>>)
  BY <1>1, <1>2 DEF ServerInv
<1>4. /\ ServerInv' /\ (\A g \in Frame : Content(g) => Content(g)')
      /\ \A c \in Channel : Made(c)' = Made(c)
  BY <1>1, <1>3, ServerKept
<1>5. BufferInv' BY DEF InFront, BufferInv, BufferAddsUp
<1>6. FramesInv'
  <2>1. PICK l : l = Drop(FrameSize) OBVIOUS
  <2>2. PICK F, rest, taken, sent : Without(f, l, F, rest, taken, sent) BY <2>1 DEF InFront
  <2>3. F \in Seq(Frame) /\ rest \in Seq(Cell) /\ FlattenSeq(l) \o rest = Bytes(F)
    BY <2>2 DEF Without
  <2>4. (FlattenSeq(bufferList) \o rest = Bytes(F))' BY <2>1, <2>3
  <2>5. wireEnd' # "failed" => rest = wire' /\ \A c \in Channel : sent[c] = Made(c)'
    BY <1>2, <1>4, <2>2 DEF Without
  <2>6. (Numbered(F, taken, sent))' BY <2>2 DEF Without
  <2>7. \A i \in 1..Len(F) : Content(F[i])'
    <3> SUFFICES ASSUME NEW i \in 1..Len(F) PROVE Content(F[i])' OBVIOUS
    <3>1. F[i] \in Frame BY <2>3
    <3>2. Content(F[i]) BY <2>2 DEF Without
    <3> QED BY <1>4, <3>1, <3>2
  <2>8. \A c \in Channel : (Live(c))' => taken[c] = Len(got'[c]) BY <2>2 DEF Without
  <2>9. InPipe(F, rest, taken, sent)' BY <2>3, <2>4, <2>5, <2>6, <2>7, <2>8 DEF InPipe
  <2> QED BY <2>9 DEF FramesInv
<1>7. Maps BY <1>1, ClientMaps
<1> QED BY <1>4, <1>5, <1>6, <1>7 DEF Kept, Inv

\* The reader of c gets what comes next.
LEMMA GotGrows ==
  ASSUME Inv, UNCHANGED server, NEW c \in Channel, Len(got[c]) < pumped[c],
         got' = [got EXCEPT ![c] = Append(@, Data(c)[Len(got[c]) + 1])]
  PROVE  /\ got' \in [Channel -> Seq(Seq(Cell) \cup Channel)]
         /\ \A d \in Channel : Len(got'[d]) <= pumped'[d] /\ got'[d] = SubSeq(Data(d), 1, Len(got'[d]))
         /\ got'[c] = Append(got[c], Data(c)[Len(got[c]) + 1]) /\ Len(got'[c]) = Len(got[c]) + 1
         /\ \A d \in Channel : d # c => got'[d] = got[d]
<1>1. ServerInv /\ ClientInv BY DEF Inv
<1>2. got \in [Channel -> Seq(Seq(Cell) \cup Channel)] BY ClientFacts
<1>3. /\ Len(got[c]) \in Nat /\ pumped[c] \in Nat /\ Len(Data(c)) \in Nat
      /\ pumped[c] <= Len(Data(c))
  BY <1>1, LenFacts
<1>4. Data(c) \in Seq(Seq(Cell) \cup Channel) BY DataIs
<1> DEFINE B == Seq(Cell) \cup Channel  s == Data(c)  k == Len(got[c])
           x == Append(got[c], s[k + 1])
<1>5. got[c] = SubSeq(s, 1, k) BY <1>1 DEF ClientInv
<1>6. x = SubSeq(s, 1, k + 1) BY <1>3, <1>4, <1>5, Prefix
<1>7. x \in Seq(B) /\ Len(x) = k + 1
  <2>1. s[k + 1] \in B BY <1>3, <1>4
  <2>2. got[c] \in Seq(B) BY <1>2
  <2> HIDE DEF B, s
  <2> QED BY <2>1, <2>2
<1>8. got' = [got EXCEPT ![c] = x] OBVIOUS
<1> HIDE DEF x, B
<1>9. /\ got' \in [Channel -> Seq(Seq(Cell) \cup Channel)] /\ got'[c] = x
      /\ \A d \in Channel : d # c => got'[d] = got[d]
  BY <1>2, <1>7, <1>8 DEF B
<1>10. pumped' = pumped BY DEF server
<1>11. ASSUME NEW d \in Channel
       PROVE  Len(got'[d]) <= pumped'[d] /\ got'[d] = SubSeq(Data(d), 1, Len(got'[d]))
  <2>1. CASE d = c BY <1>3, <1>6, <1>7, <1>9, <1>10, <2>1
  <2>2. CASE d # c
    <3>1. got'[d] = got[d] BY <1>9, <2>2
    <3> QED BY <1>1, <1>10, <3>1 DEF ClientInv
  <2> QED BY <2>1, <2>2
<1> QED BY <1>7, <1>9, <1>11 DEF x

\* Nothing changes for the client but what its readers have got.
LEMMA SameStreams ==
  ASSUME Inv, ~cancelled,
         UNCHANGED <<cancelled, streams, streamControllers, cancelledStreamIds, state, pc, server>>,
         linesRead' \in 0..Len(got'[0]),
         got' \in [Channel -> Seq(Seq(Cell) \cup Channel)],
         \A c \in Channel : Len(got'[c]) <= pumped'[c] /\ got'[c] = SubSeq(Data(c), 1, Len(got'[c]))
  PROVE  ClientInv'
<1>1. ClientInv BY DEF Inv
<1>2. UNCHANGED serialized BY DEF server
<1>3. Registered(serialized)' = Registered(serialized) BY <1>2 DEF Registered
<1>4. \A c \in Channel : Data(c)' = Data(c) BY DEF Data
<1>5. \A j \in StreamId : (Creates(j))' <=> Creates(j) BY DEF Creates
<1> QED BY <1>1, <1>3, <1>4, <1>5 DEF ClientInv

\* A line, a chunk, and the end or the error of a stream.
LEMMA JSONParsed ==
  ASSUME Inv, pc = "parse", UNCHANGED <<server, network>>, UNCHANGED <<pc, cancelled>>,
         NEW f \in Frame, InFront(f), f.type = "JSON",
         bufferList' = Drop(FrameSize), totalLength' = totalLength - FrameSize, OnJSON
  PROVE  Kept
<1>1. ServerInv /\ ClientInv BY DEF Inv
<1>2. /\ got' = IF state[0] = "open" THEN [got EXCEPT ![0] = Append(@, Payload[1])] ELSE got
      /\ UNCHANGED <<streams, streamControllers, cancelledStreamIds, state, linesRead>>
  BY DEF OnJSON, maps
<1>3. ~cancelled BY <1>1 DEF ClientInv
<1>4. f.id = 0 /\ f.n \in 1..pumped[0] /\ f.payload = <<Lines[f.n]>> BY DEF InFront, Content
<1>5. Payload[1] = Lines[f.n] BY <1>4 DEF InFront
<1>6. /\ 0 \in Channel /\ Len(got[0]) \in Nat /\ linesRead \in 0..Len(got[0]) /\ linesRead \in Nat
      /\ state[0] # "none"
  BY ClientFacts
<1>7. pumped[0] \in Nat BY <1>1, <1>6 DEF ServerInv
<1>8. CASE state[0] = "open"
  <2>1. f.n = Len(got[0]) + 1 BY <1>3, <1>4, <1>8 DEF InFront, Live
  <2>2. Len(got[0]) < pumped[0] BY <1>4, <1>6, <1>7, <2>1
  <2>3. got' = [got EXCEPT ![0] = Append(@, Data(0)[Len(got[0]) + 1])] BY <1>2, <1>5, <1>8, <2>1 DEF Data
  <2>4. /\ got' \in [Channel -> Seq(Seq(Cell) \cup Channel)]
        /\ \A d \in Channel : Len(got'[d]) <= pumped'[d] /\ got'[d] = SubSeq(Data(d), 1, Len(got'[d]))
        /\ got'[0] = Append(got[0], Data(0)[Len(got[0]) + 1]) /\ Len(got'[0]) = Len(got[0]) + 1
        /\ \A d \in Channel : d # 0 => got'[d] = got[d]
    BY <1>6, <2>2, <2>3, GotGrows
  <2>5. linesRead' \in 0..Len(got'[0]) BY <1>2, <1>6, <1>8, <2>4
  <2>6. ClientInv' BY <1>2, <1>3, <2>4, <2>5, SameStreams
  <2>7. \A c \in Channel : (Live(c))' => Live(c) /\ Len(got'[c]) = IF c = f.id THEN Len(got[c]) + 1
                                                                   ELSE Len(got[c])
    BY <1>2, <1>4, <2>4 DEF Live
  <2>8. ASSUME NEW c \in Channel PROVE Moves(c)
    <3>1. View(c)' = View(c) BY <1>2 DEF View
    <3>2. CASE c = 0
      <4>1. View(0) = "open" BY <1>8 DEF View
      <4> QED BY <2>2, <2>4, <3>1, <3>2, <4>1 DEF Moves
    <3>3. CASE c # 0 BY <2>4, <3>1, <3>3 DEF Moves
    <3> QED BY <3>2, <3>3
  <2> QED BY <2>6, <2>7, <2>8, FrameTaken
<1>9. CASE state[0] # "open"
  <2>1. got' = got /\ linesRead' = linesRead BY <1>2, <1>9
  <2>2. linesRead' \in 0..Len(got'[0]) BY <1>6, <2>1
  <2>3. ClientInv' BY <1>2, <1>3, <2>1, <2>2, GotKept, SameStreams
  <2>4. \A c \in Channel : (Live(c))' => Live(c) /\ Len(got'[c]) = IF c = f.id THEN Len(got[c]) + 1
                                                                   ELSE Len(got[c])
    BY <1>2, <1>4, <1>6, <1>9, <2>1 DEF Live
  <2>5. \A c \in Channel : Moves(c) BY <1>2, <2>1 DEF Moves, View
  <2> QED BY <2>3, <2>4, <2>5, FrameTaken
<1> QED BY <1>8, <1>9

\* What the maps say of the stream of a frame.
LEMMA AliveIs ==
  ASSUME Inv, ~cancelled, NEW id \in StreamId
  PROVE  /\ Creates(id) <=> state[id] = "none"
         /\ Alive(id) <=> state[id] \in {"none", "open"}
         /\ id \in streamControllers <=> state[id] = "open"
<1>1. ClientInv BY DEF Inv
<1>2. Creates(id) <=> state[id] = "none" BY <1>1 DEF ClientInv
<1>3. id \in streamControllers <=> state[id] = "open" BY <1>1 DEF ClientInv
<1>4. Alive(id) <=> Creates(id) \/ id \in streamControllers BY DEF Alive, CreatedIn
<1> QED BY <1>2, <1>3, <1>4

LEMMA ChunkParsed ==
  ASSUME Inv, pc = "parse", UNCHANGED <<server, network>>, UNCHANGED <<pc, cancelled>>,
         NEW f \in Frame, InFront(f), f.type = "CHUNK", NEW id, id = f.id,
         bufferList' = Drop(FrameSize), totalLength' = totalLength - FrameSize, OnChunk(id)
  PROVE  Kept
<1>1. ServerInv /\ ClientInv BY DEF Inv
<1>2. /\ got' = IF Alive(id) THEN [got EXCEPT ![id] = Append(@, Payload)] ELSE got
      /\ streams' = CreatedIn(streams, id)
      /\ streamControllers' = CreatedIn(streamControllers, id)
      /\ state' = CreatedState(id)
      /\ UNCHANGED <<cancelledStreamIds, linesRead>>
  BY DEF OnChunk
<1>3. ~cancelled BY <1>1 DEF ClientInv
<1>4. /\ id \in StreamId /\ id \in Registered(serialized)
      /\ f.n \in 1..pumped[id] /\ f.payload = Chunks[id][f.n]
  BY DEF InFront, Content
<1>5. Payload = Chunks[id][f.n] BY <1>4 DEF InFront
<1>6. id \in Channel /\ id # 0 BY <1>4, ChannelFacts
<1>7. /\ state \in [Channel -> Status] /\ Len(got[id]) \in Nat /\ 0 \in Channel
      /\ linesRead \in 0..Len(got[0])
  BY <1>6, ClientFacts
<1>8. /\ Creates(id) <=> state[id] = "none"
      /\ Alive(id) <=> state[id] \in {"none", "open"}
      /\ id \in streamControllers <=> state[id] = "open"
  BY <1>3, <1>4, AliveIs
<1>9. pumped[id] \in Nat BY <1>1, <1>6 DEF ServerInv
<1> DEFINE t == IF state[id] = "none" THEN "open" ELSE state[id]
<1>10. t \in Status \ {"none"}
  <2>1. state[id] \in Status BY <1>6, <1>7
  <2> QED BY <2>1 DEF Status
<1>11. state' = [state EXCEPT ![id] = t]
  <2>1. CASE state[id] = "none" BY <1>2, <1>8, <2>1 DEF CreatedState
  <2>2. CASE state[id] # "none" BY <1>2, <1>7, <1>8, <2>2 DEF CreatedState
  <2> QED BY <2>1, <2>2
<1>12. streamControllers' = IF t = "open" THEN streamControllers \cup {id}
                                          ELSE streamControllers \ {id}
  <2>1. CASE state[id] = "none" BY <1>2, <1>8, <2>1 DEF CreatedIn
  <2>2. CASE state[id] # "none"
    <3>1. streamControllers' = streamControllers BY <1>2, <1>8, <2>2 DEF CreatedIn
    <3> QED BY <1>8, <2>2, <3>1
  <2> QED BY <2>1, <2>2
<1>13. \A i \in StreamId \ {id} : (Creates(i))' <=> Creates(i) BY <1>2 DEF Creates, CreatedIn
<1>14. ~(Creates(id))' BY <1>2 DEF Creates, CreatedIn
<1> HIDE DEF t
<1>15. PICK u : u = t OBVIOUS
<1>16. UNCHANGED <<cancelled, server>> /\ pc' \in {"read", "parse", "end"} OBVIOUS
<1>17. \A c \in Channel : state'[c] = IF c = id THEN u ELSE state[c] BY <1>7, <1>11, <1>15
<1>18. View(id)' = View(id) /\ \A c \in Channel : View(c)' = View(c) /\ ((Live(c))' => Live(c))
  <2>1. ASSUME NEW c \in Channel PROVE View(c)' = View(c) /\ ((Live(c))' => Live(c))
    <3>1. CASE c = id BY <1>3, <1>15, <1>17, <3>1 DEF View, Live, t
    <3>2. CASE c # id
      <4>1. state'[c] = state[c] BY <1>17, <3>2
      <4> QED BY <4>1 DEF View, Live
    <3> QED BY <3>1, <3>2
  <2> QED BY <1>6, <2>1
<1>19. CASE Alive(id)
  <2>1. f.n = Len(got[id]) + 1 BY <1>3, <1>8, <1>19 DEF InFront, Live
  <2>2. Len(got[id]) < pumped[id] BY <1>4, <1>7, <1>9, <2>1
  <2>3. got' = [got EXCEPT ![id] = Append(@, Data(id)[Len(got[id]) + 1])]
    BY <1>2, <1>5, <1>6, <1>19, <2>1 DEF Data
  <2>4. /\ got' \in [Channel -> Seq(Seq(Cell) \cup Channel)]
        /\ \A d \in Channel : Len(got'[d]) <= pumped'[d] /\ got'[d] = SubSeq(Data(d), 1, Len(got'[d]))
        /\ got'[id] = Append(got[id], Data(id)[Len(got[id]) + 1]) /\ Len(got'[id]) = Len(got[id]) + 1
        /\ \A d \in Channel : d # id => got'[d] = got[d]
    BY <1>6, <2>2, <2>3, GotGrows
  <2>5. linesRead' \in 0..Len(got'[0]) BY <1>2, <1>6, <1>7, <2>4
  <2>6. ClientInv'
    BY <1>3, <1>4, <1>10, <1>11, <1>12, <1>13, <1>14, <1>15, <1>16, <2>4, <2>5, OneStream
  <2>7. \A c \in Channel : (Live(c))' => Live(c) /\ Len(got'[c]) = IF c = f.id THEN Len(got[c]) + 1
                                                                   ELSE Len(got[c])
    BY <1>18, <2>4
  <2>8. ASSUME NEW c \in Channel PROVE Moves(c)
    <3>1. View(c)' = View(c) BY <1>18
    <3>2. CASE c = id
      <4>1. View(id) = "open" BY <1>8, <1>19 DEF View
      <4> QED BY <2>2, <2>4, <3>1, <3>2, <4>1 DEF Moves
    <3>3. CASE c # id BY <2>4, <3>1, <3>3 DEF Moves
    <3> QED BY <3>2, <3>3
  <2> QED BY <2>6, <2>7, <2>8, FrameTaken
<1>20. CASE ~Alive(id)
  <2>1. got' = got BY <1>2, <1>20
  <2>2. linesRead' \in 0..Len(got'[0]) BY <1>2, <1>7, <2>1
  <2>3. UNCHANGED got BY <2>1
  <2>4. ClientInv'
    BY <1>3, <1>4, <1>10, <1>11, <1>12, <1>13, <1>14, <1>15, <1>16, <2>2, <2>3, GotKept, OneStream
  <2>5. ~Live(id) BY <1>8, <1>20 DEF Live
  <2>6. \A c \in Channel : (Live(c))' => Live(c) /\ Len(got'[c]) = IF c = f.id THEN Len(got[c]) + 1
                                                                   ELSE Len(got[c])
    BY <1>18, <2>1, <2>5
  <2>7. \A c \in Channel : Moves(c) BY <1>18, <2>1 DEF Moves
  <2> QED BY <2>4, <2>6, <2>7, FrameTaken
<1> QED BY <1>19, <1>20

LEMMA EndParsed ==
  ASSUME Inv, pc = "parse", UNCHANGED <<server, network>>, UNCHANGED <<pc, cancelled>>,
         NEW f \in Frame, InFront(f), NEW id, id = f.id, NEW s,
         \/ f.type = "END" /\ s = "closed"
         \/ f.type = "ERROR" /\ s = "error",
         bufferList' = Drop(FrameSize), totalLength' = totalLength - FrameSize, OnEnd(id, s)
  PROVE  Kept
<1>1. ServerInv /\ ClientInv BY DEF Inv
<1>2. /\ streams' = CreatedIn(streams, id)
      /\ cancelledStreamIds' = cancelledStreamIds \cup {id}
      /\ streamControllers' = streamControllers \ {id}
      /\ state' = IF Alive(id) THEN [state EXCEPT ![id] = s] ELSE state
      /\ UNCHANGED <<got, linesRead>>
  BY DEF OnEnd
<1>3. ~cancelled BY <1>1 DEF ClientInv
<1>4. /\ id \in StreamId /\ id \in Registered(serialized)
      /\ f.type = "END" => f.n = pumped[id] + 1 /\ source[id] = "ended"
  BY DEF InFront, Content
<1>5. id \in Channel /\ id # 0 BY <1>4, ChannelFacts
<1>6. /\ state \in [Channel -> Status] /\ Len(got[id]) \in Nat /\ linesRead \in 0..Len(got[0])
  BY <1>5, ClientFacts
<1>7. /\ Alive(id) <=> state[id] \in {"none", "open"}
      /\ id \in streamControllers <=> state[id] = "open"
  BY <1>3, <1>4, AliveIs
<1>8. pumped[id] \in Nat BY <1>1, <1>5 DEF ServerInv
<1> DEFINE t == IF Alive(id) THEN s ELSE state[id]
<1>9. t \in Status \ {"none"} /\ t # "open"
  <2>1. state[id] \in Status BY <1>5, <1>6
  <2>2. s \in {"closed", "error"} OBVIOUS
  <2> HIDE DEF Alive
  <2> QED BY <1>7, <2>1, <2>2 DEF Status
<1>10. state' = [state EXCEPT ![id] = t] BY <1>2, <1>6
<1>11. \A i \in StreamId \ {id} : (Creates(i))' <=> Creates(i) BY <1>2 DEF Creates, CreatedIn
<1>12. ~(Creates(id))' BY <1>2 DEF Creates, CreatedIn
<1> HIDE DEF t
<1>13. PICK u : u = t OBVIOUS
<1>14. UNCHANGED <<cancelled, server>> /\ pc' \in {"read", "parse", "end"} OBVIOUS
<1>15. streamControllers' = IF u = "open" THEN streamControllers \cup {id}
                                          ELSE streamControllers \ {id}
  BY <1>2, <1>9, <1>13
<1>16. UNCHANGED got /\ linesRead' \in 0..Len(got'[0]) BY <1>2, <1>6
<1>17. ClientInv'
  BY <1>3, <1>4, <1>9, <1>10, <1>11, <1>12, <1>13, <1>14, <1>15, <1>16, GotKept, OneStream
<1>18. \A c \in Channel : state'[c] = IF c = id THEN u ELSE state[c] BY <1>6, <1>10, <1>13
<1>19. ~(Live(id))' BY <1>5, <1>9, <1>13, <1>18 DEF Live
<1>20. \A c \in Channel : (Live(c))' => Live(c) /\ Len(got'[c]) = IF c = f.id THEN Len(got[c]) + 1
                                                                  ELSE Len(got[c])
  <2> SUFFICES ASSUME NEW c \in Channel, (Live(c))'
               PROVE  Live(c) /\ Len(got'[c]) = IF c = f.id THEN Len(got[c]) + 1 ELSE Len(got[c])
    OBVIOUS
  <2>1. c # id BY <1>19
  <2>2. state'[c] = state[c] BY <1>18, <2>1
  <2>3. Live(c) BY <2>2 DEF Live
  <2> QED BY <1>16, <2>1, <2>3
<1>21. ASSUME NEW c \in Channel PROVE Moves(c)
  <2>1. CASE c # id
    <3>1. state'[c] = state[c] BY <1>18, <2>1
    <3> QED BY <1>16, <3>1 DEF Moves, View
  <2>2. CASE c = id /\ ~Alive(id)
    <3>1. state'[c] = state[c] BY <1>2, <2>2
    <3> QED BY <1>16, <3>1 DEF Moves, View
  <2>3. CASE c = id /\ Alive(id)
    <3>1. state'[c] = s BY <1>5, <1>13, <1>18, <2>3 DEF t
    <3>2. View(c) = "open" BY <1>7, <2>3 DEF View
    <3>3. View(c)' = s BY <3>1 DEF View
    <3>4. CASE s = "error" BY <1>16, <3>2, <3>3, <3>4 DEF Moves
    <3>5. CASE s = "closed"
      <4>1. f.type = "END" BY <3>5
      <4>2. f.n = Len(got[id]) + 1 BY <1>3, <1>7, <2>3 DEF InFront, Live
      <4>3. Len(got[id]) = pumped[id] BY <1>4, <1>6, <1>8, <4>1, <4>2
      <4>4. Over(c) BY <1>4, <1>5, <2>3, <4>1 DEF Over
      <4> QED BY <1>16, <2>3, <3>2, <3>3, <3>5, <4>3, <4>4 DEF Moves
    <3> QED BY <3>4, <3>5
  <2> QED BY <2>1, <2>2, <2>3
<1> QED BY <1>17, <1>20, <1>21, FrameTaken

-----------------------------------------------------------------------------
(* All steps, and the theorems. *)

\* What Parse does with the frame in front, or without one.
LEMMA ParseKeeps == ASSUME Inv, Parse PROVE Kept
<1>1. ServerInv /\ ClientInv BY DEF Inv
<1>2. pc = "parse" /\ UNCHANGED <<server, network>> BY DEF Parse
<1>3. ~cancelled BY <1>1, <1>2 DEF ClientInv
<1>4. CASE Fail
  <2>1. UNCHANGED <<wire, wireEnd>> BY <1>2 DEF network
  <2>2. wire' \in Seq(Cell) /\ wireEnd' = wireEnd /\ (wireEnd = "failed" => wire' = <<>>)
    BY <1>1, <2>1 DEF ServerInv
  <2> QED BY <1>2, <1>4, <2>2, FailKeeps
<1>5. CASE pc' = "read" /\ UNCHANGED <<limit, buffer, cancelled, maps, out>>
  <2>1. UNCHANGED <<cancelled, streams, streamControllers, cancelledStreamIds, state, got, linesRead,
                    bufferList, totalLength>>
    BY <1>5 DEF buffer, maps, out
  <2>2. ClientInv'
    <3>1. UNCHANGED serialized BY <1>2 DEF server
    <3>2. Registered(serialized)' = Registered(serialized) BY <3>1 DEF Registered
    <3>3. \A c \in Channel : Data(c)' = Data(c) BY DEF Data
    <3>4. \A j \in StreamId : (Creates(j))' <=> Creates(j) BY <2>1 DEF Creates
    <3>5. UNCHANGED <<server, got>> BY <1>2, <2>1
    <3> QED BY <1>1, <1>5, <2>1, <3>2, <3>3, <3>4, <3>5, GotKept DEF ClientInv
  <2>3. pc # "end" BY <1>2
  <2>4. \A c \in Channel : (Live(c))' => Live(c) BY <2>1 DEF Live
  <2>5. \A c \in Channel : View(c)' = View(c) BY <2>1 DEF View
  <2> QED BY <1>2, <2>1, <2>2, <2>3, <2>4, <2>5, QuietClient
<1>6. CASE ~Incomplete /\ ~Fail
  <2>1. PICK f \in Frame : InFront(f) BY <1>2, <1>6, ParsedFrame
  <2>2. Header.type = f.type /\ Header.id = f.id BY <2>1 DEF InFront
  <2>3. /\ bufferList' = Drop(FrameSize) /\ totalLength' = totalLength - FrameSize
        /\ UNCHANGED <<pc, cancelled>>
    BY <1>6 DEF Parse
  <2>4. CASE f.type = "JSON"
    <3>1. OnJSON BY <1>6, <2>2, <2>4 DEF Parse
    <3> QED BY <1>2, <2>1, <2>3, <2>4, <3>1, JSONParsed
  <2>5. CASE f.type = "CHUNK"
    <3>1. OnChunk(Header.id) BY <1>6, <2>2, <2>5 DEF Parse
    <3>2. OnChunk(f.id) BY <2>2, <3>1 DEF OnChunk
    <3> QED BY <1>2, <2>1, <2>3, <2>5, <3>2, ChunkParsed
  <2>6. CASE f.type = "END"
    <3>1. OnEnd(Header.id, "closed") BY <1>6, <2>2, <2>6 DEF Parse
    <3>2. OnEnd(f.id, "closed") BY <2>2, <3>1 DEF OnEnd
    <3> QED BY <1>2, <2>1, <2>3, <2>6, <3>2, EndParsed
  <2>7. CASE f.type = "ERROR"
    <3>1. OnEnd(Header.id, "error") BY <1>6, <2>2, <2>7 DEF Parse
    <3>2. OnEnd(f.id, "error") BY <2>2, <3>1 DEF OnEnd
    <3> QED BY <1>2, <2>1, <2>3, <2>7, <3>2, EndParsed
  <2>8. f.type \in {"JSON", "CHUNK", "END", "ERROR"} BY DEF Frame, FrameType
  <2> QED BY <2>4, <2>5, <2>6, <2>7, <2>8
<1>7. Fail \/ (pc' = "read" /\ UNCHANGED <<limit, buffer, cancelled, maps, out>>) \/ ~Incomplete
  BY DEF Parse
<1> QED BY <1>4, <1>5, <1>6, <1>7

LEMMA NextKeeps == ASSUME Inv, Next PROVE Kept
<1>1. CASE Server BY <1>1, ServerKeeps
<1>2. CASE Fault BY <1>2, FaultKeeps
<1>3. CASE ClientStep
  <2>1. CASE \E n \in Pieces : Read(n) BY <2>1, ReadKeeps
  <2>2. CASE ReadDone BY <2>2, ReadDoneKeeps
  <2>3. CASE ReadFails BY <2>3, ReadFailsKeeps
  <2>4. CASE Parse BY <2>4, ParseKeeps
  <2>5. CASE Request BY <2>5, RequestKeeps
  <2>6. CASE ReadLine BY <2>6, ReadLineKeeps
  <2> QED BY <1>3, <2>1, <2>2, <2>3, <2>4, <2>5, <2>6 DEF ClientStep
<1>4. CASE Cancel BY <1>4, CancelJSONKeeps, CancelStreamKeeps DEF Cancel
<1> QED BY <1>1, <1>2, <1>3, <1>4 DEF Next

LEMMA StutterKeeps == ASSUME Inv, UNCHANGED vars PROVE Kept
<1>1. UNCHANGED <<server, network, client>> BY DEF vars
<1>2. ServerInv /\ ClientInv /\ BufferInv BY DEF Inv
<1>3. UNCHANGED <<serialized, pumped, spawned, source, wire, wireEnd>> BY <1>1 DEF server, network
<1>4. wire' \in Seq(Cell) /\ wireEnd' = wireEnd /\ (wireEnd = "failed" => wire' = <<>>)
  BY <1>2, <1>3 DEF ServerInv
<1>5. ServerInv' BY <1>1, <1>2, <1>4, ServerKept
<1>6. /\ serialized' \in Nat /\ serialized <= serialized' /\ pumped' \in [Channel -> Nat]
      /\ \A c \in Channel : pumped[c] <= pumped'[c]
  BY <1>2, <1>3 DEF ServerInv
<1>7. ClientInv' BY <1>1, <1>2, <1>6, ClientKept
<1>8. UNCHANGED <<pc, cancelled, state, got, bufferList, totalLength>> BY <1>1 DEF client, buffer, out
<1>9. \A c \in Channel : ((Live(c))' => Live(c)) /\ View(c)' = View(c) BY <1>8 DEF Live, View
<1> QED BY <1>1, <1>7, <1>8, <1>9, QuietClient

LEMMA InitInv == ASSUME Init PROVE Inv
<1>1. /\ serialized = 1 /\ pumped = [c \in Channel |-> 0] /\ spawned = Registered(1)
      /\ source = [c \in Channel |-> "open"] /\ wire = <<>> /\ wireEnd = "open"
      /\ bufferList = <<>> /\ totalLength = 0 /\ pc = "read" /\ cancelled = FALSE
      /\ streams = {} /\ streamControllers = {} /\ cancelledStreamIds = {}
      /\ state = [c \in Channel |-> IF c = 0 THEN "open" ELSE "none"]
      /\ got = [c \in Channel |-> <<>>] /\ linesRead = 0
  BY DEF Init, ServerInit, ClientInit
<1>2. 0 \in Channel BY ChannelFacts
<1>3. ServerInv
  <2>1. serialized \in 1..Len(Lines)
    <3>1. Len(Lines) \in Nat /\ Len(Lines) # 0 BY ChannelAssumption
    <3> QED BY <1>1, <3>1
  <2>2. \A c \in Channel : pumped[c] <= Len(Data(c)) BY <1>1, DataIs
  <2>3. wire \in Seq(Cell) BY <1>1
  <2> QED BY <1>1, <1>2, <2>1, <2>2, <2>3 DEF ServerInv
<1>4. ClientInv
  <2>1. got \in [Channel -> Seq(Seq(Cell) \cup Channel)]
    <3> DEFINE B == Seq(Cell) \cup Channel
    <3>1. <<>> \in Seq(B) OBVIOUS
    <3> HIDE DEF B
    <3> QED BY <1>1, <3>1 DEF B
  <2>2. \A c \in Channel : Len(got[c]) <= pumped[c] /\ got[c] = SubSeq(Data(c), 1, Len(got[c]))
    <3> SUFFICES ASSUME NEW c \in Channel
                 PROVE  Len(got[c]) <= pumped[c] /\ got[c] = SubSeq(Data(c), 1, Len(got[c]))
      OBVIOUS
    <3>1. got[c] = <<>> /\ Len(got[c]) = 0 /\ pumped[c] = 0 BY <1>1
    <3>2. SubSeq(Data(c), 1, 0) = <<>> BY DataIs
    <3> QED BY <3>1, <3>2
  <2>3. \A id \in StreamId : state[id] = "none" BY <1>1, ChannelFacts
  <2>4. \A id \in StreamId : Creates(id) BY <1>1 DEF Creates
  <2>5. state \in [Channel -> {"none", "open", "closed", "error", "cancelled"}] BY <1>1
  <2>6. linesRead \in 0..Len(got[0]) BY <1>1, <1>2
  <2>7. state[0] = "open" BY <1>1, <1>2
  <2>8. streamControllers = {id \in StreamId : state[id] = "open"} BY <1>1, <2>3
  <2> QED BY <1>1, <2>1, <2>2, <2>3, <2>4, <2>5, <2>6, <2>7, <2>8 DEF ClientInv
<1>5. bufferList \in ListOf(Cell) /\ FlattenSeq(bufferList) = <<>> BY <1>1, FlatEmpty DEF ListOf
<1>6. BufferInv BY <1>1, <1>5 DEF BufferInv, BufferAddsUp
<1>7. FramesInv
  <2> DEFINE zero == [c \in Channel |-> 0]
  <2>1. FlattenSeq(bufferList) \o <<>> = Bytes(<<>>)
    <3>1. <<>> \o <<>> = <<>> OBVIOUS
    <3> QED BY <1>5, <3>1, BytesEmpty
  <2>2. Numbered(<<>>, zero, zero) BY DEF Numbered
  <2>3. \A c \in Channel : zero[c] = Made(c) /\ zero[c] = Len(got[c]) BY <1>1 DEF Made
  <2>4. <<>> \in Seq(Frame) /\ <<>> \in Seq(Cell) /\ wire = <<>> BY <1>1
  <2>5. \A i \in 1..Len(<<>>) : Content(<<>>[i]) OBVIOUS
  <2> HIDE DEF zero
  <2>6. InPipe(<<>>, <<>>, zero, zero) BY <2>1, <2>2, <2>3, <2>4, <2>5 DEF InPipe
  <2> QED BY <2>6 DEF FramesInv
<1> QED BY <1>3, <1>4, <1>6, <1>7 DEF Inv

\* The channels at the start, and through a step.
LEMMA InitMaps == ASSUME Init PROVE PerChannel!Init
<1>1. /\ serialized = 1 /\ pumped = [c \in Channel |-> 0]
      /\ source = [c \in Channel |-> "open"]
      /\ state = [c \in Channel |-> IF c = 0 THEN "open" ELSE "none"]
      /\ got = [c \in Channel |-> <<>>]
  BY DEF Init, ServerInit, ClientInit
<1>2. ASSUME NEW c \in Channel
      PROVE  [sent |-> Sent(c), got |-> got[c], over |-> Over(c),
              state |-> IF state[c] = "none" THEN "open" ELSE state[c]] = PerChannel!Initial
  <2>1. SubSeq(Data(c), 1, 0) = <<>> BY DataIs
  <2>2. Sent(c) = <<>>
    <3>1. pumped[c] = 0 BY <1>1
    <3> QED BY <2>1, <3>1, SentIs
  <2>3. Over(c) = FALSE BY <1>1, ChannelFacts DEF Over
  <2>4. got[c] = <<>> /\ (IF state[c] = "none" THEN "open" ELSE state[c]) = "open" BY <1>1
  <2> QED BY <2>2, <2>3, <2>4 DEF PerChannel!Initial
<1> QED BY <1>2 DEF PerChannel!Init

LEMMA StepMaps ==
  ASSUME Maps
  PROVE  [PerChannel!Next]_[c \in Channel |->
           [sent |-> Sent(c), got |-> got[c], over |-> Over(c),
            state |-> IF state[c] = "none" THEN "open" ELSE state[c]]]
<1> DEFINE channel == [c \in Channel |->
             [sent |-> Sent(c), got |-> got[c], over |-> Over(c),
              state |-> IF state[c] = "none" THEN "open" ELSE state[c]]]
<1>1. channel = [c \in Channel |-> Seen(c)] BY DEF Seen, View
<1>2. channel' = [c \in Channel |-> Seen(c)'] BY DEF Seen, View
<1>3. PerChannel!Next BY <1>1, <1>2 DEF Maps, PerChannel!Next
<1> QED BY <1>3

(***************************************************************************)
(* BufferAddsUp, for every way the bytes may be cut into pieces: the       *)
(* totalLength that createFrameDecoder keeps, by adding what arrives and   *)
(* taking off the frames, is the number of bytes in its bufferList.        *)
(***************************************************************************)
THEOREM BufferIsCounted == Spec => []BufferAddsUp
<1>1. Init => Inv BY InitInv
<1>2. Inv /\ [Next]_vars => Inv' BY NextKeeps, StutterKeeps DEF Kept
<1>3. Inv => BufferAddsUp BY DEF Inv, BufferInv
<1> QED BY <1>1, <1>2, <1>3, PTL DEF Spec

(***************************************************************************)
(* ImplementsChannels, for any number of streams, of any lengths, under    *)
(* all limits: what createMultiplexedStream interleaves into one response, *)
(* createFrameDecoder hands out again so that every stream is one of       *)
(* Channels.  What its reader gets is a beginning of what its source has   *)
(* made, in order, and a normal end comes only after all of it.            *)
(***************************************************************************)
THEOREM StreamsAreSeparate == Spec => ImplementsChannels
<1>1. Init => Inv /\ PerChannel!Init BY InitInv, InitMaps
<1>2. Inv /\ [Next]_vars => Inv' /\ [PerChannel!Next]_[c \in Channel |->
           [sent |-> Sent(c), got |-> got[c], over |-> Over(c),
            state |-> IF state[c] = "none" THEN "open" ELSE state[c]]]
  BY NextKeeps, StutterKeeps, StepMaps DEF Kept
<1> QED BY <1>1, <1>2, PTL DEF Spec, ImplementsChannels, PerChannel!Spec
=============================================================================
