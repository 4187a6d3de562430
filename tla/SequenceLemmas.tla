--------------------------- MODULE SequenceLemmas ---------------------------
(***************************************************************************)
(* What FlattenSeq makes of a sequence of sequences, for the modules whose *)
(* properties are about messages and the bytes they are made of.  Nothing  *)
(* here is about the firmware.                                             *)
(*                                                                         *)
(* FlattenSeq is a recursive function.  What it computes for every input   *)
(* is shown by the least index at which it would compute something else.   *)
(***************************************************************************)
EXTENDS Integers, Sequences, SequencesExt, SequenceTheorems, WellFoundedInduction, TLAPS

\* Concatenation is associative, under a name by which provers find it.
Associates(s, t, u) == (s \o t) \o u = s \o (t \o u)

LEMMA ConcatAssociates ==
    ASSUME NEW S, NEW s \in Seq(S), NEW t \in Seq(S), NEW u \in Seq(S)
    PROVE  Associates(s, t, u)
  BY ConcatAssociative, SMTT(60) DEF Associates

\* Every set of numbers that is not empty has a least element.
LEMMA FirstExists ==
    ASSUME NEW T \in SUBSET Nat, T # {}
    PROVE  \E i \in T : \A j \in T : i <= j
<1>1. \E i \in T : \A j \in T : <<j, i>> \notin OpToRel(<, Nat)
  BY NatLessThanWellFounded, WFMin
<1>2. \A i, j \in Nat : <<j, i>> \notin OpToRel(<, Nat) => i <= j
  BY DEF OpToRel
<1> QED
  BY <1>1, <1>2

\* Induction up to a number: a set that holds 0 and the successor of each of its
\* elements holds all.
LEMMA UpTo ==
    ASSUME NEW n \in Nat, NEW T, 0 \in T, \A i \in 0..n : i < n /\ i \in T => i + 1 \in T
    PROVE  \A i \in 0..n : i \in T
<1> DEFINE Bad == {i \in 0..n : i \notin T}
<1>1. SUFFICES ASSUME Bad # {} PROVE FALSE
  OBVIOUS
<1>2. Bad \in SUBSET Nat
  OBVIOUS
<1> HIDE DEF Bad
<1>3. PICK i \in Bad : \A j \in Bad : i <= j
  BY <1>1, <1>2, FirstExists
<1>4. i \in 0..n /\ i \notin T
  BY <1>3 DEF Bad
<1>5. i # 0
  BY <1>4
<1>6. i - 1 \in 0..n /\ i - 1 < n /\ (i - 1) + 1 = i
  BY <1>4, <1>5
<1>7. i - 1 \in T
  BY <1>3, <1>4, <1>6 DEF Bad
<1> QED
  BY <1>4, <1>6, <1>7

-----------------------------------------------------------------------------
(* FlattenSeq. *)

\* f[i] is what the first i elements of q amount to.
Sums(f, q, S) ==
    /\ f \in [0..Len(q) -> Seq(S)]
    /\ f[0] = <<>>
    /\ \A i \in 1..Len(q) : f[i] = f[i - 1] \o q[i]

\* There is such a function.
LEMMA SumsExist ==
    ASSUME NEW S, NEW q \in Seq(Seq(S))
    PROVE  \E f : Sums(f, q, S)
<1> DEFINE Upto(n, f) == /\ f \in [0..n -> Seq(S)]
                         /\ f[0] = <<>>
                         /\ \A i \in 1..n : f[i] = f[i - 1] \o q[i]
           T == {n \in 0..Len(q) : \E f : Upto(n, f)}
<1>1. Len(q) \in Nat /\ \A i \in 1..Len(q) : q[i] \in Seq(S)
  BY LenProperties, ElementOfSeq
<1>2. 0 \in T
  <2>1. [i \in 0..0 |-> <<>>] \in [0..0 -> Seq(S)]
    BY EmptySeq
  <2>2. Upto(0, [i \in 0..0 |-> <<>>])
    BY <2>1
  <2> HIDE DEF Upto
  <2> QED
    BY <1>1, <2>2
<1>3. ASSUME NEW n \in 0..Len(q), n < Len(q), n \in T PROVE n + 1 \in T
  <2>1. PICK f : Upto(n, f)
    BY <1>3
  <2> DEFINE g == [i \in 0..(n + 1) |-> IF i <= n THEN f[i] ELSE f[n] \o q[n + 1]]
  <2>2. n \in Nat /\ n + 1 \in 1..Len(q) /\ q[n + 1] \in Seq(S)
    BY <1>1, <1>3
  <2>3. f[n] \o q[n + 1] \in Seq(S)
    BY <2>1, <2>2, ConcatProperties
  <2>4. g \in [0..(n + 1) -> Seq(S)]
    BY <2>1, <2>2, <2>3
  <2>5. g[0] = <<>>
    BY <2>1, <2>2
  <2>6. ASSUME NEW i \in 1..(n + 1) PROVE g[i] = g[i - 1] \o q[i]
    <3>1. i - 1 \in 0..n /\ i - 1 <= n /\ i - 1 \in 0..(n + 1) /\ i \in 0..(n + 1)
      BY <2>2
    <3>2. g[i - 1] = f[i - 1] /\ g[i] = IF i <= n THEN f[i] ELSE f[n] \o q[n + 1]
      BY <3>1
    <3> HIDE DEF g
    <3>3. CASE i <= n
      <4>1. i \in 1..n
        BY <2>2, <3>3
      <4>2. f[i] = f[i - 1] \o q[i]
        BY <2>1, <4>1
      <4> QED
        BY <3>2, <3>3, <4>2
    <3>4. CASE ~(i <= n)
      <4>1. i = n + 1 /\ i - 1 = n
        BY <2>2, <3>4
      <4> QED
        BY <3>2, <3>4, <4>1
    <3> QED
      BY <3>3, <3>4
  <2> HIDE DEF g
  <2>7. Upto(n + 1, g)
    BY <2>4, <2>5, <2>6
  <2> HIDE DEF Upto
  <2> QED
    BY <2>2, <2>7
<1> HIDE DEF T
<1>4. \A n \in 0..Len(q) : n \in T
  BY <1>1, <1>2, <1>3, UpTo
<1>5. Len(q) \in 0..Len(q)
  BY <1>1
<1> QED
  BY <1>4, <1>5 DEF T, Sums

\* FlattenSeq computes the last of the sums.
LEMMA FlattenSums ==
    ASSUME NEW S, NEW q \in Seq(Seq(S)), NEW f, Sums(f, q, S)
    PROVE  FlattenSeq(q) = f[Len(q)]
<1>1. Len(q) \in Nat /\ \A i \in 1..Len(q) : q[i] \in Seq(S)
  BY LenProperties, ElementOfSeq
<1>2. CASE Len(q) = 0
  <2>1. q = <<>>
    BY <1>2, EmptySeq
  <2>2. f[0] = <<>>
    BY DEF Sums
  <2> QED
    BY <1>2, <2>1, <2>2 DEF FlattenSeq
<1>3. CASE Len(q) # 0
  <2> DEFINE Rec(h) == h = [i \in 1..Len(q) |-> IF i = 1 THEN q[i] ELSE h[i - 1] \o q[i]]
             k == [i \in 1..Len(q) |-> f[i]]
             flatten == CHOOSE h : Rec(h)
  <2>1. Rec(k)
    <3>1. \A i \in 1..Len(q) : f[i] = IF i = 1 THEN q[i] ELSE k[i - 1] \o q[i]
      <4>1. ASSUME NEW i \in 1..Len(q) PROVE f[i] = IF i = 1 THEN q[i] ELSE k[i - 1] \o q[i]
        <5>1. f[i] = f[i - 1] \o q[i]
          BY DEF Sums
        <5>2. CASE i = 1
          <6>1. f[0] = <<>> /\ q[i] \in Seq(S)
            BY <1>1 DEF Sums
          <6>2. <<>> \o q[i] = q[i]
            BY <6>1, ConcatEmptySeq
          <6>3. f[i - 1] = <<>>
            BY <5>2, <6>1
          <6>4. f[i] = q[i]
            BY <5>1, <6>2, <6>3, Zenon
          <6> QED
            BY <5>2, <6>4, Zenon
        <5>3. CASE i # 1
          <6>1. i - 1 \in 1..Len(q)
            BY <1>1, <5>3
          <6>2. k[i - 1] = f[i - 1]
            BY <6>1
          <6> HIDE DEF k
          <6>3. f[i] = k[i - 1] \o q[i]
            BY <5>1, <6>2, Zenon
          <6> QED
            BY <5>3, <6>3, Zenon
        <5> QED
          BY <5>2, <5>3
      <4> QED
        BY <4>1
    <3> QED
      BY <3>1
  <2> HIDE DEF Rec, k
  <2>2. Rec(flatten)
    BY <2>1
  <2> HIDE DEF flatten
  <2> DEFINE T == {i \in 0..Len(q) : i = 0 \/ flatten[i] = f[i]}
  <2>3. 0 \in T
    BY <1>1
  <2>4. ASSUME NEW i \in 0..Len(q), i < Len(q), i \in T PROVE i + 1 \in T
    <3>1. i + 1 \in 1..Len(q) /\ (i + 1) - 1 = i /\ i + 1 \in 0..Len(q)
      <4> HIDE DEF T
      <4> QED
        BY <1>1, <2>4
    <3>2. flatten[i + 1] = IF i + 1 = 1 THEN q[i + 1] ELSE flatten[(i + 1) - 1] \o q[i + 1]
      <4>1. flatten = [j \in 1..Len(q) |-> IF j = 1 THEN q[j] ELSE flatten[j - 1] \o q[j]]
        BY <2>2, Zenon DEF Rec
      <4> QED
        BY <3>1, <4>1, Zenon
    <3>3. f[i + 1] = f[(i + 1) - 1] \o q[i + 1] /\ f[0] = <<>>
      BY <3>1, Zenon DEF Sums
    <3>4. f[i + 1] = f[i] \o q[i + 1] /\ q[i + 1] \in Seq(S)
      BY <1>1, <3>1, <3>3
    <3>5. CASE i = 0
      <4>1. <<>> \o q[i + 1] = q[i + 1]
        BY <3>4, ConcatEmptySeq
      <4>2. flatten[i + 1] = q[i + 1]
        BY <3>2, <3>5
      <4> QED
        BY <3>1, <3>3, <3>4, <3>5, <4>1, <4>2
    <3>6. CASE i # 0
      <4>1. flatten[i + 1] = flatten[i] \o q[i + 1]
        <5>1. i + 1 # 1
          BY <2>4, <3>6
        <5> QED
          BY <3>1, <3>2, <5>1, Zenon
      <4>2. flatten[i] = f[i]
        BY <2>4, <3>6
      <4>3. flatten[i + 1] = f[i + 1]
        BY <3>4, <4>1, <4>2, Zenon
      <4> QED
        BY <3>1, <4>3
    <3> QED
      BY <3>5, <3>6
  <2> HIDE DEF T
  <2>5. \A i \in 0..Len(q) : i \in T
    BY <1>1, <2>3, <2>4, UpTo
  <2>6. flatten[Len(q)] = f[Len(q)]
    BY <1>1, <1>3, <2>5 DEF T
  <2>7. FlattenSeq(q) = flatten[Len(q)]
    BY <1>3, Zenon DEF FlattenSeq, flatten, Rec
  <2> QED
    BY <2>6, <2>7
<1> QED
  BY <1>2, <1>3

\* A sequence of sequences over S flattens into a sequence over S.
LEMMA FlattenType ==
    ASSUME NEW S, NEW q \in Seq(Seq(S))
    PROVE  FlattenSeq(q) \in Seq(S)
<1>1. PICK f : Sums(f, q, S)
  BY SumsExist
<1>2. FlattenSeq(q) = f[Len(q)] /\ Len(q) \in 0..Len(q)
  BY <1>1, FlattenSums, LenProperties
<1> QED
  BY <1>1, <1>2 DEF Sums

\* An element added at the end.
LEMMA FlattenAppend ==
    ASSUME NEW S, NEW q \in Seq(Seq(S)), NEW e \in Seq(S)
    PROVE  FlattenSeq(Append(q, e)) = FlattenSeq(q) \o e
<1> DEFINE p == Append(q, e)
<1>1. /\ p \in Seq(Seq(S)) /\ Len(p) = Len(q) + 1 /\ p[Len(q) + 1] = e /\ Len(q) \in Nat
      /\ \A i \in 1..Len(q) : p[i] = q[i]
  BY AppendProperties, LenProperties
<1> HIDE DEF p
<1>2. PICK f : Sums(f, q, S)
  BY SumsExist
<1>3. PICK g : Sums(g, p, S)
  BY <1>1, SumsExist
<1>4. FlattenSeq(q) = f[Len(q)] /\ FlattenSeq(p) = g[Len(q) + 1]
  BY <1>1, <1>2, <1>3, FlattenSums
<1>5. g[Len(q) + 1] = g[Len(q)] \o e
  <2>1. Len(q) + 1 \in 1..Len(p) /\ (Len(q) + 1) - 1 = Len(q)
    BY <1>1
  <2>2. g[Len(q) + 1] = g[(Len(q) + 1) - 1] \o p[Len(q) + 1]
    BY <1>3, <2>1, Zenon DEF Sums
  <2> QED
    BY <1>1, <2>1, <2>2, Zenon
<1> DEFINE T == {i \in 0..Len(q) : g[i] = f[i]}
<1>6. 0 \in T
  BY <1>1, <1>2, <1>3 DEF Sums
<1>7. ASSUME NEW i \in 0..Len(q), i < Len(q), i \in T PROVE i + 1 \in T
  <2>1. /\ i + 1 \in 1..Len(q) /\ i + 1 \in 0..Len(q) /\ i + 1 \in 1..Len(p)
        /\ (i + 1) - 1 = i
    <3> HIDE DEF T
    <3> QED
      BY <1>1, <1>7
  <2>2. /\ f[i + 1] = f[(i + 1) - 1] \o q[i + 1]
        /\ g[i + 1] = g[(i + 1) - 1] \o p[i + 1]
    BY <1>2, <1>3, <2>1, Zenon DEF Sums
  <2>3. p[i + 1] = q[i + 1] /\ g[i] = f[i]
    BY <1>1, <1>7, <2>1
  <2>4. g[i + 1] = f[i + 1]
    BY <2>1, <2>2, <2>3, Zenon
  <2> QED
    BY <2>1, <2>4
<1> HIDE DEF T
<1>8. \A i \in 0..Len(q) : i \in T
  BY <1>1, <1>6, <1>7, UpTo
<1>9. g[Len(q)] = f[Len(q)]
  <2>1. Len(q) \in 0..Len(q)
    BY <1>1
  <2> QED
    BY <1>8, <2>1 DEF T
<1> QED
  BY <1>4, <1>5, <1>9, Zenon DEF p

\* An element added at the front.
LEMMA FlattenCons ==
    ASSUME NEW S, NEW q \in Seq(Seq(S)), NEW e \in Seq(S)
    PROVE  FlattenSeq(<<e>> \o q) = e \o FlattenSeq(q)
<1> DEFINE p == <<e>> \o q
<1>1. /\ p \in Seq(Seq(S)) /\ Len(p) = Len(q) + 1 /\ p[1] = e /\ Len(q) \in Nat
      /\ \A i \in 1..Len(q) : p[i + 1] = q[i]
  <2>1. <<e>> \in Seq(Seq(S)) /\ Len(<<e>>) = 1 /\ <<e>>[1] = e /\ Len(q) \in Nat
    BY LenProperties
  <2>2. /\ p \in Seq(Seq(S)) /\ Len(p) = 1 + Len(q)
        /\ \A i \in 1..(1 + Len(q)) : p[i] = IF i <= 1 THEN <<e>>[i] ELSE q[i - 1]
    BY <2>1, ConcatProperties
  <2> HIDE DEF p
  <2>3. p[1] = e
    BY <2>1, <2>2
  <2>4. ASSUME NEW i \in 1..Len(q) PROVE p[i + 1] = q[i]
    <3>1. i + 1 \in 1..(1 + Len(q)) /\ ~(i + 1 <= 1) /\ (i + 1) - 1 = i
      BY <2>1
    <3> QED
      BY <2>2, <3>1
  <2> QED
    BY <2>1, <2>2, <2>3, <2>4
<1> HIDE DEF p
<1>2. PICK f : Sums(f, q, S)
  BY SumsExist
<1>3. PICK g : Sums(g, p, S)
  BY <1>1, SumsExist
<1>4. FlattenSeq(q) = f[Len(q)] /\ FlattenSeq(p) = g[Len(q) + 1]
  BY <1>1, <1>2, <1>3, FlattenSums
<1> DEFINE T == {i \in 0..Len(q) : g[i + 1] = e \o f[i]}
<1>5. 0 \in T
  <2>1. 1 \in 1..Len(p) /\ 1 - 1 = 0 /\ 0 \in 0..Len(q) /\ 0 + 1 = 1
    BY <1>1
  <2>2. g[1] = g[1 - 1] \o p[1]
    BY <1>3, <2>1, Zenon DEF Sums
  <2>3. g[0] = <<>> /\ f[0] = <<>> /\ <<>> \o e = e /\ e \o <<>> = e
    BY <1>2, <1>3, ConcatEmptySeq DEF Sums
  <2>4. g[1] = e \o f[0]
    BY <1>1, <2>1, <2>2, <2>3, Zenon
  <2> QED
    BY <2>1, <2>4
<1>6. ASSUME NEW i \in 0..Len(q), i < Len(q), i \in T PROVE i + 1 \in T
  <2>1. /\ i + 1 \in 1..Len(q) /\ i + 1 \in 0..Len(q) /\ i \in 0..Len(q)
        /\ (i + 1) + 1 \in 1..Len(p) /\ ((i + 1) + 1) - 1 = i + 1 /\ (i + 1) - 1 = i
    <3> HIDE DEF T
    <3> QED
      BY <1>1, <1>6
  <2>2. g[(i + 1) + 1] = g[((i + 1) + 1) - 1] \o p[(i + 1) + 1]
    BY <1>3, <2>1, Zenon DEF Sums
  <2>3. p[(i + 1) + 1] = q[i + 1]
    BY <1>1, <2>1, Zenon
  <2>4. f[i + 1] = f[(i + 1) - 1] \o q[i + 1]
    BY <1>2, <2>1, Zenon DEF Sums
  <2>5. f[i] \in Seq(S) /\ q[i + 1] \in Seq(S)
    BY <1>2, <2>1, ElementOfSeq DEF Sums
  <2>6. (e \o f[i]) \o q[i + 1] = e \o (f[i] \o q[i + 1])
    <3> DEFINE a == f[i]
               b == q[i + 1]
    <3>1. a \in Seq(S) /\ b \in Seq(S)
      BY <2>5
    <3> HIDE DEF a, b
    <3>2. (e \o a) \o b = e \o (a \o b)
      <4>1. Associates(e, a, b)
        BY <3>1, ConcatAssociates
      <4> QED
        BY <4>1, Zenon DEF Associates
    <3> QED
      BY <3>2 DEF a, b
  <2>7. g[i + 1] = e \o f[i]
    BY <1>6
  <2>8. g[(i + 1) + 1] = e \o f[i + 1]
    BY <2>1, <2>2, <2>3, <2>4, <2>6, <2>7, Zenon
  <2> QED
    BY <2>1, <2>8
<1> HIDE DEF T
<1>7. \A i \in 0..Len(q) : i \in T
  BY <1>1, <1>5, <1>6, UpTo
<1>8. g[Len(q) + 1] = e \o f[Len(q)]
  <2>1. Len(q) \in 0..Len(q)
    BY <1>1
  <2> QED
    BY <1>7, <2>1 DEF T
<1> QED
  BY <1>4, <1>8, Zenon DEF p

-----------------------------------------------------------------------------
(* The sequences that the elements of a sequence stand for, one after the    *)
(* other: bytes of messages, messages that are requests, and the like.       *)

FlatMap(f, q) == FlattenSeq([i \in DOMAIN q |-> f[q[i]]])

\* What the elements of M stand for: sequences over S.
Readings(M, S) == [M -> Seq(S)]

\* The map itself.
LEMMA MapProperties ==
    ASSUME NEW M, NEW S, NEW f \in [M -> Seq(S)], NEW q \in Seq(M)
    PROVE  /\ [i \in DOMAIN q |-> f[q[i]]] \in Seq(Seq(S))
           /\ Len([i \in DOMAIN q |-> f[q[i]]]) = Len(q)
           /\ \A i \in 1..Len(q) : [j \in DOMAIN q |-> f[q[j]]][i] = f[q[i]]
<1>1. Len(q) \in Nat /\ DOMAIN q = 1..Len(q) /\ \A i \in 1..Len(q) : q[i] \in M
  BY LenProperties, ElementOfSeq
<1>2. \A i \in 1..Len(q) : f[q[i]] \in Seq(S)
  BY <1>1
<1>3. [i \in DOMAIN q |-> f[q[i]]] \in [1..Len(q) -> Seq(S)]
  BY <1>1, <1>2
<1> QED
  BY <1>1, <1>3

\* Nothing stands for nothing.
LEMMA FlatMapEmpty ==
    ASSUME NEW f
    PROVE  FlatMap(f, <<>>) = <<>>
<1>1. [i \in DOMAIN <<>> |-> f[<<>>[i]]] = <<>>
  OBVIOUS
<1> QED
  BY <1>1 DEF FlatMap, FlattenSeq

\* Its type.
LEMMA FlatMapType ==
    ASSUME NEW M, NEW S, NEW f \in Readings(M, S), NEW q \in Seq(M)
    PROVE  FlatMap(f, q) \in Seq(S)
<1>1. [i \in DOMAIN q |-> f[q[i]]] \in Seq(Seq(S))
  BY MapProperties DEF Readings
<1> QED
  BY <1>1, FlattenType DEF FlatMap

\* One more element at the end.
LEMMA FlatMapAppend ==
    ASSUME NEW M, NEW S, NEW f \in Readings(M, S), NEW q \in Seq(M), NEW e \in M
    PROVE  FlatMap(f, Append(q, e)) = FlatMap(f, q) \o f[e]
<1> DEFINE map == [i \in DOMAIN q |-> f[q[i]]]
           last == [i \in DOMAIN Append(q, e) |-> f[Append(q, e)[i]]]
           x == f[e]
<1>1. map \in Seq(Seq(S)) /\ Len(map) = Len(q) /\ \A i \in 1..Len(q) : map[i] = f[q[i]]
  BY MapProperties, SMTT(40) DEF Readings
<1>2. f[e] \in Seq(S) /\ Len(q) \in Nat
  BY LenProperties DEF Readings
<1>3. last = Append(map, f[e])
  <2>1. /\ Append(q, e) \in Seq(M) /\ Len(Append(q, e)) = Len(q) + 1
        /\ \A i \in 1..Len(q) : Append(q, e)[i] = q[i]
        /\ Append(q, e)[Len(q) + 1] = e
    BY AppendProperties
  <2>2. /\ last \in Seq(Seq(S)) /\ Len(last) = Len(q) + 1
        /\ \A i \in 1..(Len(q) + 1) : last[i] = f[Append(q, e)[i]]
    BY <2>1, MapProperties DEF Readings
  <2>3. /\ Append(map, f[e]) \in Seq(Seq(S)) /\ Len(Append(map, f[e])) = Len(q) + 1
        /\ \A i \in 1..Len(q) : Append(map, f[e])[i] = map[i]
        /\ Append(map, f[e])[Len(q) + 1] = f[e]
    BY <1>1, <1>2, AppendProperties
  <2> HIDE DEF last, map
  <2>4. ASSUME NEW i \in 1..(Len(q) + 1) PROVE last[i] = Append(map, f[e])[i]
    <3>1. CASE i = Len(q) + 1
      BY <1>2, <2>1, <2>2, <2>3, <3>1
    <3>2. CASE i # Len(q) + 1
      <4>1. i \in 1..Len(q)
        BY <1>2, <3>2
      <4> QED
        BY <1>1, <2>1, <2>2, <2>3, <4>1, ZenonT(60)
    <3> QED
      BY <3>1, <3>2
  <2> QED
    BY <2>2, <2>3, <2>4, SeqEqual
<1>4. FlatMap(f, q) = FlattenSeq(map)
  BY Zenon DEF FlatMap
<1>5. FlatMap(f, Append(q, e)) = FlattenSeq(Append(map, x))
  BY <1>3, Zenon DEF FlatMap
<1>6. x \in Seq(S)
  BY <1>2
<1> HIDE DEF map, last, x
<1>7. FlattenSeq(Append(map, x)) = FlattenSeq(map) \o x
  BY <1>1, <1>6, FlattenAppend
<1> QED
  BY <1>4, <1>5, <1>7, Zenon DEF x

\* One more element at the front.
LEMMA FlatMapCons ==
    ASSUME NEW M, NEW S, NEW f \in Readings(M, S), NEW q \in Seq(M), NEW e \in M
    PROVE  FlatMap(f, <<e>> \o q) = f[e] \o FlatMap(f, q)
<1> DEFINE map == [i \in DOMAIN q |-> f[q[i]]]
           cons == [i \in DOMAIN (<<e>> \o q) |-> f[(<<e>> \o q)[i]]]
           x == f[e]
<1>1. map \in Seq(Seq(S)) /\ Len(map) = Len(q) /\ \A i \in 1..Len(q) : map[i] = f[q[i]]
  BY MapProperties DEF Readings
<1>2. f[e] \in Seq(S) /\ Len(q) \in Nat
  BY LenProperties DEF Readings
<1>3. cons = <<f[e]>> \o map
  <2>1. <<e>> \in Seq(M) /\ Len(<<e>>) = 1 /\ <<e>>[1] = e
    OBVIOUS
  <2>2. /\ <<e>> \o q \in Seq(M) /\ Len(<<e>> \o q) = Len(q) + 1
        /\ \A i \in 1..(Len(q) + 1) : (<<e>> \o q)[i] = IF i <= 1 THEN <<e>>[i] ELSE q[i - 1]
    BY <1>2, <2>1, ConcatProperties
  <2>3. /\ cons \in Seq(Seq(S)) /\ Len(cons) = Len(q) + 1
        /\ \A i \in 1..(Len(q) + 1) : cons[i] = f[(<<e>> \o q)[i]]
    BY <2>2, MapProperties DEF Readings
  <2>4. <<x>> \in Seq(Seq(S)) /\ Len(<<x>>) = 1 /\ <<x>>[1] = x
    BY <1>2
  <2> HIDE DEF x, cons, map
  <2>5. /\ <<x>> \o map \in Seq(Seq(S)) /\ Len(<<x>> \o map) = Len(q) + 1
        /\ \A i \in 1..(Len(q) + 1) : (<<x>> \o map)[i] = IF i <= 1 THEN <<x>>[i] ELSE map[i - 1]
    BY <1>1, <1>2, <2>4, ConcatProperties
  <2>6. ASSUME NEW i \in 1..(Len(q) + 1) PROVE cons[i] = (<<x>> \o map)[i]
    <3>1. CASE i = 1
      <4>1. cons[i] = f[e]
        BY <2>1, <2>2, <2>3, <3>1
      <4>2. (<<x>> \o map)[i] = x
        BY <2>4, <2>5, <3>1
      <4> QED
        BY <4>1, <4>2, Zenon DEF x
    <3>2. CASE i # 1
      <4>1. i - 1 \in 1..Len(q) /\ ~(i <= 1)
        BY <1>2, <3>2
      <4>2. cons[i] = f[q[i - 1]]
        BY <2>2, <2>3, <4>1
      <4>3. (<<x>> \o map)[i] = map[i - 1]
        BY <2>5, <4>1
      <4> QED
        BY <1>1, <4>1, <4>2, <4>3
    <3> QED
      BY <3>1, <3>2
  <2>7. cons = <<x>> \o map
    BY <2>3, <2>5, <2>6, SeqEqual
  <2> QED
    BY <2>7, Zenon DEF x
<1>4. FlatMap(f, q) = FlattenSeq(map)
  BY Zenon DEF FlatMap
<1>5. FlatMap(f, <<e>> \o q) = FlattenSeq(<<x>> \o map)
  BY <1>3, Zenon DEF FlatMap
<1>6. x \in Seq(S)
  BY <1>2
<1> HIDE DEF map, cons, x
<1>7. FlattenSeq(<<x>> \o map) = x \o FlattenSeq(map)
  BY <1>1, <1>6, FlattenCons
<1> QED
  BY <1>4, <1>5, <1>7, Zenon DEF x

-----------------------------------------------------------------------------
(* Sequences. *)

LEMMA SeqMonotone ==
    ASSUME NEW S, NEW U, S \subseteq U, NEW s \in Seq(S)
    PROVE  s \in Seq(U)
<1>1. Len(s) \in Nat /\ s \in [1..Len(s) -> S]
  BY LenProperties, ElementOfSeq
<1>2. s \in [1..Len(s) -> U]
  BY <1>1
<1> QED
  BY <1>1, <1>2

\* A set that holds the empty sequence, and every sequence without its first
\* element of which it holds the rest, holds all.
LEMMA FrontInduction ==
    ASSUME NEW S, NEW T, <<>> \in T,
           \A s \in Seq(S), e \in S : s \in T => <<e>> \o s \in T
    PROVE  \A s \in Seq(S) : s \in T
<1> SUFFICES ASSUME NEW s \in Seq(S) PROVE s \in T
  OBVIOUS
<1> DEFINE Ok == {n \in 0..Len(s) : \A r \in Seq(S) : Len(r) = n => r \in T}
<1>1. Len(s) \in Nat
  BY LenProperties
<1>2. 0 \in Ok
  <2>1. \A r \in Seq(S) : Len(r) = 0 => r = <<>>
    BY EmptySeq
  <2> QED
    BY <1>1, <2>1
<1>3. ASSUME NEW n \in 0..Len(s), n < Len(s), n \in Ok PROVE n + 1 \in Ok
  <2>1. ASSUME NEW r \in Seq(S), Len(r) = n + 1 PROVE r \in T
    <3>1. r # <<>>
      BY <2>1
    <3>2. Head(r) \in S /\ Tail(r) \in Seq(S) /\ Len(Tail(r)) = n
      BY <2>1, <3>1, HeadTailProperties
    <3>3. r = <<Head(r)>> \o Tail(r)
      BY <3>1
    <3>4. Tail(r) \in T
      BY <1>3, <3>2
    <3> QED
      BY <3>2, <3>3, <3>4
  <2> QED
    BY <1>1, <1>3, <2>1
<1> HIDE DEF Ok
<1>4. \A n \in 0..Len(s) : n \in Ok
  BY <1>1, <1>2, <1>3, UpTo
<1>5. Len(s) \in Ok
  BY <1>1, <1>4
<1> QED
  BY <1>5 DEF Ok
\* One sequence of sequences after the other.
LEMMA FlattenConcat ==
    ASSUME NEW S, NEW p \in Seq(Seq(S)), NEW q \in Seq(Seq(S))
    PROVE  FlattenSeq(p \o q) = FlattenSeq(p) \o FlattenSeq(q)
<1> DEFINE F(s) == FlattenSeq(s)
           T == {s \in Seq(Seq(S)) : F(s \o q) = F(s) \o F(q)}
<1>1. \A s \in Seq(Seq(S)) : F(s) \in Seq(S)
  BY FlattenType
<1>2. \A s \in Seq(Seq(S)), e \in Seq(S) : F(<<e>> \o s) = e \o F(s)
  BY FlattenCons
<1>3. F(<<>>) = <<>>
  BY DEF FlattenSeq
<1> HIDE DEF F
<1>4. <<>> \in T
  <2>1. <<>> \o q = q /\ <<>> \o F(q) = F(q) /\ <<>> \in Seq(Seq(S))
    BY <1>1, ConcatEmptySeq
  <2> QED
    BY <1>3, <2>1
<1>5. ASSUME NEW s \in Seq(Seq(S)), NEW e \in Seq(S), s \in T PROVE <<e>> \o s \in T
  <2>1. <<e>> \in Seq(Seq(S)) /\ <<e>> \o s \in Seq(Seq(S)) /\ s \o q \in Seq(Seq(S))
    BY ConcatProperties
  <2>2. (<<e>> \o s) \o q = <<e>> \o (s \o q)
    <3>1. Associates(<<e>>, s, q)
      BY <2>1, ConcatAssociates
    <3> QED
      BY <3>1, Zenon DEF Associates
  <2>3. F((<<e>> \o s) \o q) = e \o F(s \o q)
    BY <1>2, <2>1, <2>2
  <2>4. F(s \o q) = F(s) \o F(q)
    BY <1>5
  <2>5. e \o (F(s) \o F(q)) = (e \o F(s)) \o F(q)
    <3> DEFINE a == F(s)
               c == F(q)
    <3>1. a \in Seq(S) /\ c \in Seq(S)
      BY <1>1
    <3> HIDE DEF a, c, T
    <3>2. (e \o a) \o c = e \o (a \o c)
      <4>1. Associates(e, a, c)
        BY <3>1, ConcatAssociates
      <4> QED
        BY <4>1, Zenon DEF Associates
    <3> QED
      BY <3>2 DEF a, c
  <2>6. F(<<e>> \o s) = e \o F(s)
    BY <1>2
  <2> QED
    BY <2>1, <2>3, <2>4, <2>5, <2>6
<1> HIDE DEF T
<1>6. p \in T
  BY <1>4, <1>5, FrontInduction
<1> QED
  BY <1>6 DEF T, F

\* Nothing comes of empty sequences.
LEMMA FlattenEmpties ==
    ASSUME NEW S, NEW q \in Seq(Seq(S)), \A i \in 1..Len(q) : q[i] = <<>>
    PROVE  FlattenSeq(q) = <<>>
<1>1. PICK f : Sums(f, q, S)
  BY SumsExist
<1>2. FlattenSeq(q) = f[Len(q)] /\ Len(q) \in Nat
  BY <1>1, FlattenSums, LenProperties
<1>3. f[0] = <<>> /\ \A i \in 1..Len(q) : f[i] = f[i - 1] \o q[i]
  BY <1>1 DEF Sums
<1> DEFINE n == Len(q)
           T == {i \in 0..n : f[i] = <<>>}
<1>4. 0 \in T
  BY <1>2, <1>3
<1>5. ASSUME NEW i \in 0..n, i < n, i \in T PROVE i + 1 \in T
  <2>1. i + 1 \in 1..n /\ (i + 1) - 1 = i /\ i + 1 \in 0..n
    BY <1>2, <1>5
  <2>2. f[i + 1] = f[i] \o q[i + 1] /\ f[i] = <<>> /\ q[i + 1] = <<>>
    BY <1>3, <1>5, <2>1
  <2>3. f[i + 1] = <<>>
    BY <2>2
  <2> QED
    BY <2>1, <2>3
<1> HIDE DEF T
<1>6. n \in T
  <2>1. \A i \in 0..n : i \in T
    BY <1>2, <1>4, <1>5, UpTo
  <2> QED
    BY <1>2, <2>1
<1> QED
  BY <1>2, <1>6 DEF T

\* The same of what the elements stand for.
LEMMA FlatMapConcat ==
    ASSUME NEW M, NEW S, NEW f \in Readings(M, S), NEW p \in Seq(M), NEW q \in Seq(M)
    PROVE  FlatMap(f, p \o q) = FlatMap(f, p) \o FlatMap(f, q)
<1> DEFINE F(s) == FlatMap(f, s)
           T == {s \in Seq(M) : F(s \o q) = F(s) \o F(q)}
<1>1. \A s \in Seq(M) : F(s) \in Seq(S)
  BY FlatMapType
<1>2. \A s \in Seq(M), e \in M : F(<<e>> \o s) = f[e] \o F(s)
  BY FlatMapCons, ZenonT(60)
<1>3. F(<<>>) = <<>>
  BY FlatMapEmpty
<1> HIDE DEF F
<1>4. <<>> \in T
  <2>1. <<>> \o q = q /\ <<>> \o F(q) = F(q) /\ <<>> \in Seq(M)
    BY <1>1, ConcatEmptySeq
  <2> QED
    BY <1>3, <2>1
<1>5. ASSUME NEW s \in Seq(M), NEW e \in M, s \in T PROVE <<e>> \o s \in T
  <2>1. <<e>> \in Seq(M) /\ <<e>> \o s \in Seq(M) /\ s \o q \in Seq(M)
    BY ConcatProperties
  <2>2. (<<e>> \o s) \o q = <<e>> \o (s \o q)
    <3>1. Associates(<<e>>, s, q)
      BY <2>1, ConcatAssociates
    <3> QED
      BY <3>1, Zenon DEF Associates
  <2>3. F((<<e>> \o s) \o q) = f[e] \o F(s \o q)
    BY <1>2, <2>1, <2>2
  <2>4. F(s \o q) = F(s) \o F(q)
    BY <1>5
  <2>5. f[e] \o (F(s) \o F(q)) = (f[e] \o F(s)) \o F(q)
    <3> DEFINE a == F(s)
               c == F(q)
               x == f[e]
    <3>1. a \in Seq(S) /\ c \in Seq(S) /\ x \in Seq(S)
      BY <1>1 DEF Readings
    <3> HIDE DEF a, c, x, T
    <3>2. (x \o a) \o c = x \o (a \o c)
      <4>1. Associates(x, a, c)
        BY <3>1, ConcatAssociates
      <4> QED
        BY <4>1, Zenon DEF Associates
    <3> QED
      BY <3>2 DEF a, c, x
  <2>6. F(<<e>> \o s) = f[e] \o F(s)
    BY <1>2
  <2> QED
    BY <2>1, <2>3, <2>4, <2>5, <2>6
<1> HIDE DEF T
<1>6. p \in T
  BY <1>4, <1>5, FrontInduction
<1> QED
  BY <1>6 DEF T, F

-----------------------------------------------------------------------------
(* How often an element occurs in what a sequence of sequences flattens to. *)

Never(s, x) == \A r \in DOMAIN s : s[r] # x

Once(s, x) == \E r \in DOMAIN s : s[r] = x /\ \A p \in DOMAIN s : s[p] = x => p = r

\* The indices of a concatenation.
LEMMA ConcatIndices ==
    ASSUME NEW S, NEW a \in Seq(S), NEW b \in Seq(S)
    PROVE  /\ Len(a) \in Nat /\ Len(b) \in Nat
           /\ DOMAIN a = 1..Len(a) /\ DOMAIN b = 1..Len(b)
           /\ DOMAIN (a \o b) = 1..(Len(a) + Len(b))
           /\ \A i \in 1..Len(a) : (a \o b)[i] = a[i]
           /\ \A i \in 1..Len(b) : (a \o b)[Len(a) + i] = b[i]
<1>1. Len(a) \in Nat /\ Len(b) \in Nat /\ DOMAIN a = 1..Len(a) /\ DOMAIN b = 1..Len(b)
  BY LenProperties
<1> DEFINE c == a \o b
<1>2. /\ c \in Seq(S) /\ Len(c) = Len(a) + Len(b)
      /\ \A i \in 1..(Len(a) + Len(b)) : c[i] = IF i <= Len(a) THEN a[i] ELSE b[i - Len(a)]
  BY ConcatProperties
<1> HIDE DEF c
<1>3. DOMAIN c = 1..(Len(a) + Len(b))
  BY <1>2, LenProperties
<1>4. \A i \in 1..Len(a) : c[i] = a[i]
  BY <1>1, <1>2
<1>5. ASSUME NEW i \in 1..Len(b) PROVE c[Len(a) + i] = b[i]
  <2>1. /\ Len(a) + i \in 1..(Len(a) + Len(b)) /\ ~(Len(a) + i <= Len(a))
        /\ (Len(a) + i) - Len(a) = i
    BY <1>1
  <2> QED
    BY <1>2, <2>1
<1> QED
  BY <1>1, <1>3, <1>4, <1>5 DEF c

LEMMA ConcatNever ==
    ASSUME NEW S, NEW a \in Seq(S), NEW b \in Seq(S), NEW x, Never(a, x), Never(b, x)
    PROVE  Never(a \o b, x)
<1> DEFINE c == a \o b
<1>1. /\ Len(a) \in Nat /\ Len(b) \in Nat
      /\ DOMAIN a = 1..Len(a) /\ DOMAIN b = 1..Len(b) /\ DOMAIN c = 1..(Len(a) + Len(b))
      /\ \A i \in 1..Len(a) : c[i] = a[i]
      /\ \A i \in 1..Len(b) : c[Len(a) + i] = b[i]
  BY ConcatIndices
<1> HIDE DEF c
<1>2. ASSUME NEW r \in DOMAIN c PROVE c[r] # x
  <2>1. CASE r \in 1..Len(a)
    BY <1>1, <2>1 DEF Never
  <2>2. CASE r \notin 1..Len(a)
    <3>1. r - Len(a) \in 1..Len(b) /\ r = Len(a) + (r - Len(a))
      BY <1>1, <2>2
    <3>2. c[r] = b[r - Len(a)]
      BY <1>1, <3>1
    <3> QED
      BY <1>1, <3>1, <3>2 DEF Never
  <2> QED
    BY <2>1, <2>2
<1> QED
  BY <1>2 DEF Never, c

LEMMA ConcatOnce ==
    ASSUME NEW S, NEW a \in Seq(S), NEW b \in Seq(S), NEW x,
           (Once(a, x) /\ Never(b, x)) \/ (Never(a, x) /\ Once(b, x))
    PROVE  Once(a \o b, x)
<1> DEFINE c == a \o b
<1>1. /\ Len(a) \in Nat /\ Len(b) \in Nat
      /\ DOMAIN a = 1..Len(a) /\ DOMAIN b = 1..Len(b) /\ DOMAIN c = 1..(Len(a) + Len(b))
      /\ \A i \in 1..Len(a) : c[i] = a[i]
      /\ \A i \in 1..Len(b) : c[Len(a) + i] = b[i]
  BY ConcatIndices
<1> HIDE DEF c
<1>2. \A p \in DOMAIN c :
         p \in 1..Len(a) \/ (p - Len(a) \in 1..Len(b) /\ c[p] = b[p - Len(a)])
  <2>1. ASSUME NEW p \in DOMAIN c, p \notin 1..Len(a)
        PROVE  p - Len(a) \in 1..Len(b) /\ c[p] = b[p - Len(a)]
    <3>1. p - Len(a) \in 1..Len(b) /\ p = Len(a) + (p - Len(a))
      BY <1>1, <2>1
    <3> QED
      BY <1>1, <3>1
  <2> QED
    BY <2>1
<1>3. CASE Once(a, x) /\ Never(b, x)
  <2>1. PICK r \in DOMAIN a : a[r] = x /\ \A p \in DOMAIN a : a[p] = x => p = r
    BY <1>3 DEF Once
  <2>2. r \in DOMAIN c /\ c[r] = x
    BY <1>1, <2>1
  <2>3. \A p \in DOMAIN c : c[p] = x => p = r
    BY <1>1, <1>2, <1>3, <2>1 DEF Never
  <2> QED
    BY <2>2, <2>3 DEF Once, c
<1>4. CASE Never(a, x) /\ Once(b, x)
  <2>1. PICK r \in DOMAIN b : b[r] = x /\ \A p \in DOMAIN b : b[p] = x => p = r
    BY <1>4 DEF Once
  <2>2. Len(a) + r \in DOMAIN c /\ c[Len(a) + r] = x
    BY <1>1, <2>1
  <2>3. ASSUME NEW p \in DOMAIN c, c[p] = x PROVE p = Len(a) + r
    <3>1. p \notin 1..Len(a)
      BY <1>1, <1>4, <2>3 DEF Never
    <3>2. p - Len(a) \in DOMAIN b /\ b[p - Len(a)] = x
      BY <1>1, <1>2, <2>3, <3>1
    <3>3. p - Len(a) = r
      BY <2>1, <3>2
    <3> QED
      BY <1>1, <3>3
  <2> QED
    BY <2>2, <2>3 DEF Once, c
<1> QED
  BY <1>3, <1>4

\* An element that is in none of the sequences.
LEMMA FlattenNever ==
    ASSUME NEW S, NEW q \in Seq(Seq(S)), NEW x, \A j \in 1..Len(q) : Never(q[j], x)
    PROVE  Never(FlattenSeq(q), x)
<1>1. PICK f : Sums(f, q, S)
  BY SumsExist
<1>2. FlattenSeq(q) = f[Len(q)] /\ Len(q) \in Nat /\ \A i \in 1..Len(q) : q[i] \in Seq(S)
  BY <1>1, FlattenSums, LenProperties, ElementOfSeq
<1> DEFINE T == {i \in 0..Len(q) : Never(f[i], x)}
<1>3. 0 \in T
  <2>1. f[0] = <<>>
    BY <1>1 DEF Sums
  <2>2. Never(<<>>, x)
    BY DEF Never
  <2> QED
    BY <1>2, <2>1, <2>2
<1>4. ASSUME NEW i \in 0..Len(q), i < Len(q), i \in T PROVE i + 1 \in T
  <2>1. i + 1 \in 1..Len(q) /\ i + 1 \in 0..Len(q) /\ (i + 1) - 1 = i
    <3> HIDE DEF T
    <3> QED
      BY <1>2, <1>4
  <2>2. f[i + 1] = f[(i + 1) - 1] \o q[i + 1]
    BY <1>1, <2>1, Zenon DEF Sums
  <2>3. f[i] \in Seq(S) /\ q[i + 1] \in Seq(S) /\ Never(f[i], x) /\ Never(q[i + 1], x)
    BY <1>1, <1>2, <1>4, <2>1 DEF Sums
  <2>4. Never(f[i] \o q[i + 1], x)
    BY <2>3, ConcatNever
  <2>5. Never(f[i + 1], x)
    BY <2>1, <2>2, <2>4, Zenon
  <2> QED
    BY <2>1, <2>5
<1> HIDE DEF T
<1>5. \A i \in 0..Len(q) : i \in T
  BY <1>2, <1>3, <1>4, UpTo
<1>6. Len(q) \in T
  BY <1>2, <1>5
<1> QED
  BY <1>2, <1>6 DEF T

\* An element that is in one of the sequences, and there once.
LEMMA FlattenOnce ==
    ASSUME NEW S, NEW q \in Seq(Seq(S)), NEW x, NEW k \in 1..Len(q), Once(q[k], x),
           \A j \in 1..Len(q) : j # k => Never(q[j], x)
    PROVE  Once(FlattenSeq(q), x)
<1>1. PICK f : Sums(f, q, S)
  BY SumsExist
<1>2. FlattenSeq(q) = f[Len(q)] /\ Len(q) \in Nat /\ \A i \in 1..Len(q) : q[i] \in Seq(S)
  BY <1>1, FlattenSums, LenProperties, ElementOfSeq
<1> DEFINE T == {i \in 0..Len(q) : IF i < k THEN Never(f[i], x) ELSE Once(f[i], x)}
<1>3. 0 \in T
  <2>1. f[0] = <<>>
    BY <1>1 DEF Sums
  <2>2. Never(<<>>, x)
    BY DEF Never
  <2> QED
    BY <1>2, <2>1, <2>2
<1>4. ASSUME NEW i \in 0..Len(q), i < Len(q), i \in T PROVE i + 1 \in T
  <2>1. i + 1 \in 1..Len(q) /\ i + 1 \in 0..Len(q) /\ (i + 1) - 1 = i
    <3> HIDE DEF T
    <3> QED
      BY <1>2, <1>4
  <2>2. f[i + 1] = f[(i + 1) - 1] \o q[i + 1]
    BY <1>1, <2>1, Zenon DEF Sums
  <2>3. f[i] \in Seq(S) /\ q[i + 1] \in Seq(S)
    BY <1>1, <1>2, <1>4, <2>1 DEF Sums
  <2>4. f[i + 1] = f[i] \o q[i + 1]
    BY <2>1, <2>2, Zenon
  <2>5. CASE i + 1 < k
    <3>0. i < k /\ i + 1 # k /\ k \in Nat
      BY <1>2, <2>5
    <3>1. Never(f[i], x) /\ Never(q[i + 1], x)
      BY <1>4, <2>1, <3>0
    <3>2. Never(f[i] \o q[i + 1], x)
      BY <2>3, <3>1, ConcatNever
    <3> QED
      BY <2>1, <2>4, <2>5, <3>2
  <2>6. CASE i + 1 = k
    <3>0. i < k
      BY <1>2, <2>6
    <3>1. Never(f[i], x) /\ Once(q[i + 1], x) /\ ~(i + 1 < k)
      BY <1>4, <2>1, <2>6, <3>0
    <3>2. Once(f[i] \o q[i + 1], x)
      BY <2>3, <3>1, ConcatOnce
    <3> QED
      BY <2>1, <2>4, <3>1, <3>2
  <2>7. CASE i + 1 > k
    <3>0. ~(i < k) /\ i + 1 # k /\ ~(i + 1 < k)
      BY <1>2, <2>7
    <3>1. Once(f[i], x) /\ Never(q[i + 1], x) /\ ~(i + 1 < k)
      BY <1>4, <2>1, <3>0
    <3>2. Once(f[i] \o q[i + 1], x)
      BY <2>3, <3>1, ConcatOnce
    <3> QED
      BY <2>1, <2>4, <3>1, <3>2
  <2> QED
    BY <1>2, <2>1, <2>5, <2>6, <2>7
<1> HIDE DEF T
<1>5. \A i \in 0..Len(q) : i \in T
  BY <1>2, <1>3, <1>4, UpTo
<1>6. Len(q) \in T /\ ~(Len(q) < k)
  BY <1>2, <1>5
<1> QED
  BY <1>2, <1>6 DEF T

\* What a sequence of sequences flattens to is as long as they are.
LEMMA FlattenLengths ==
    ASSUME NEW S, NEW U, NEW q \in Seq(Seq(S)), NEW p \in Seq(Seq(U)), Len(q) = Len(p),
           \A i \in 1..Len(q) : Len(q[i]) = Len(p[i])
    PROVE  Len(FlattenSeq(q)) = Len(FlattenSeq(p))
<1>1. PICK f : Sums(f, q, S)
  BY SumsExist
<1>2. PICK g : Sums(g, p, U)
  BY SumsExist
<1>3. FlattenSeq(q) = f[Len(q)] /\ Len(q) \in Nat /\ \A i \in 1..Len(q) : q[i] \in Seq(S)
  BY <1>1, FlattenSums, LenProperties, ElementOfSeq
<1>4. FlattenSeq(p) = g[Len(q)] /\ \A i \in 1..Len(q) : p[i] \in Seq(U)
  BY <1>2, FlattenSums, LenProperties, ElementOfSeq
<1> DEFINE T == {i \in 0..Len(q) : Len(f[i]) = Len(g[i])}
<1>5. 0 \in T
  BY <1>1, <1>2, <1>3 DEF Sums
<1>6. ASSUME NEW i \in 0..Len(q), i < Len(q), i \in T PROVE i + 1 \in T
  <2>1. i + 1 \in 1..Len(q) /\ i + 1 \in 1..Len(p) /\ i + 1 \in 0..Len(q) /\ (i + 1) - 1 = i
    <3> HIDE DEF T
    <3> QED
      BY <1>3, <1>6
  <2>2. f[i + 1] = f[(i + 1) - 1] \o q[i + 1] /\ g[i + 1] = g[(i + 1) - 1] \o p[i + 1]
    BY <1>1, <1>2, <2>1, Zenon DEF Sums
  <2>3. f[i] \in Seq(S) /\ q[i + 1] \in Seq(S) /\ g[i] \in Seq(U) /\ p[i + 1] \in Seq(U)
    BY <1>1, <1>2, <1>3, <1>4, <1>6, <2>1 DEF Sums
  <2>4. /\ Len(f[i] \o q[i + 1]) = Len(f[i]) + Len(q[i + 1])
        /\ Len(g[i] \o p[i + 1]) = Len(g[i]) + Len(p[i + 1])
    BY <2>3, ConcatProperties
  <2>5. Len(f[i]) = Len(g[i]) /\ Len(q[i + 1]) = Len(p[i + 1])
    BY <1>6, <2>1
  <2>6. Len(f[i + 1]) = Len(g[i + 1])
    BY <2>1, <2>2, <2>4, <2>5, Zenon
  <2> QED
    BY <2>1, <2>6
<1> HIDE DEF T
<1>7. \A i \in 0..Len(q) : i \in T
  BY <1>3, <1>5, <1>6, UpTo
<1>8. Len(q) \in T
  BY <1>3, <1>7
<1> QED
  BY <1>3, <1>4, <1>8 DEF T

=============================================================================
