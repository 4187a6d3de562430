----------------------------- MODULE ParserProofs -----------------------------
(***************************************************************************)
(* Theorems about Parser, for any items, keys and cuts of the stream, and  *)
(* any size of csi_buf and params.                                         *)
(***************************************************************************)
EXTENDS Parser, SequenceLemmas

USE LengthsAssumption

-----------------------------------------------------------------------------
(* Recursion along the numbers up to n: each value from the one before.      *)

Steps(n, T) == [1..n -> [T -> T]]

Runs(n, T, base, next, f) ==
    f \in [0..n -> T] /\ f[0] = base /\ \A i \in 1..n : f[i] = next[i][f[i - 1]]

LEMMA Recursion ==
    ASSUME NEW n \in Nat, NEW T, NEW base \in T, NEW next \in Steps(n, T)
    PROVE  \E f : Runs(n, T, base, next, f)
<1> USE DEF Steps
<1> DEFINE Good(m, f) == f[0] = base /\ \A i \in 1..m : f[i] = next[i][f[i - 1]]
           Q == {m \in 0..n : \E f \in [0..m -> T] : Good(m, f)}
<1>1. 0 \in Q
  <2> DEFINE f == [i \in 0..0 |-> base]
  <2>1. f \in [0..0 -> T] /\ Good(0, f) /\ 0 \in 0..n
    OBVIOUS
  <2> HIDE DEF f
  <2> QED
    BY <2>1
<1>2. ASSUME NEW m \in 0..n, m < n, m \in Q PROVE m + 1 \in Q
  <2>1. PICK f \in [0..m -> T] : Good(m, f)
    BY <1>2
  <2> DEFINE g == [i \in 0..(m + 1) |-> IF i <= m THEN f[i] ELSE next[m + 1][f[m]]]
  <2>2. m + 1 \in 1..n /\ f[m] \in T /\ next[m + 1][f[m]] \in T
    BY <1>2, <2>1
  <2>3. g \in [0..(m + 1) -> T]
    BY <2>1, <2>2
  <2>4. g[0] = base
    BY <2>1
  <2>5. ASSUME NEW i \in 1..(m + 1) PROVE g[i] = next[i][g[i - 1]]
    <3>1. CASE i <= m
      BY <2>1, <3>1
    <3>2. CASE i = m + 1
      BY <2>1, <3>2
    <3> QED
      BY <3>1, <3>2
  <2>6. m + 1 \in 0..n
    BY <2>2
  <2> HIDE DEF g
  <2> QED
    BY <2>3, <2>4, <2>5, <2>6
<1> HIDE DEF Q
<1>3. n \in Q
  <2>1. \A m \in 0..n : m \in Q
    BY <1>1, <1>2, UpTo
  <2> QED
    BY <2>1
<1> QED
  BY <1>3 DEF Q, Runs

\* Two functions that start alike and go on alike are alike.
Alike(n, f, g) == \A i \in 0..n : f[i] = g[i]
GoOnAlike(n, f, g) == \A i \in 1..n : f[i - 1] = g[i - 1] => f[i] = g[i]

LEMMA RecursionUnique ==
    ASSUME NEW m \in Nat, NEW f, NEW g, f[0] = g[0], GoOnAlike(m, f, g)
    PROVE  Alike(m, f, g)
<1> USE DEF GoOnAlike
<1> DEFINE Q == {i \in 0..m : f[i] = g[i]}
<1>1. 0 \in Q
  OBVIOUS
<1>2. \A i \in 0..m : i < m /\ i \in Q => i + 1 \in Q
  <2>1. ASSUME NEW i \in 0..m, i < m, f[i] = g[i] PROVE f[i + 1] = g[i + 1]
    <3>1. i + 1 \in 1..m /\ (i + 1) - 1 = i
      BY <2>1
    <3> QED
      BY <2>1, <3>1
  <2> QED
    BY <2>1
<1> HIDE DEF Q
<1>3. \A i \in 0..m : i \in Q
  BY <1>1, <1>2, UpTo
<1> QED
  BY <1>3 DEF Q, Alike

-----------------------------------------------------------------------------
(* The pen. *)

LEMMA DefaultPenType == DefaultPen \in Pens
BY DEF DefaultPen, Pens

LEMMA SgrOneType ==
    ASSUME NEW p \in Pens, NEW code \in Int
    PROVE  SgrOne(p, code) \in Pens
<1>1. p = [fg |-> p.fg, bg |-> p.bg, bold |-> p.bold, underline |-> p.underline,
           reverse |-> p.reverse]
      /\ p.fg \in 0..15 /\ p.bg \in 0..15
      /\ p.bold \in BOOLEAN /\ p.underline \in BOOLEAN /\ p.reverse \in BOOLEAN
  BY DEF Pens
<1>2. /\ \A v \in BOOLEAN : /\ [p EXCEPT !.bold = v] \in Pens
                            /\ [p EXCEPT !.underline = v] \in Pens
                            /\ [p EXCEPT !.reverse = v] \in Pens
      /\ \A v \in 0..15 : [p EXCEPT !.fg = v] \in Pens /\ [p EXCEPT !.bg = v] \in Pens
  BY <1>1 DEF Pens
<1>3. /\ code \in 30..37 => code - 30 \in 0..15
      /\ code \in 40..47 => code - 40 \in 0..15
      /\ code \in 90..97 => 8 + code - 90 \in 0..15
      /\ code \in 100..107 => 8 + code - 100 \in 0..15
      /\ 7 \in 0..15 /\ 0 \in 0..15
  OBVIOUS
<1> HIDE DEF Pens
<1> QED
  BY <1>2, <1>3, DefaultPenType, ZenonT(60) DEF SgrOne

\* What SgrAll computes, code by code.
SgrRun(p, params, f) ==
    /\ f \in [0..Len(params) -> Pens] /\ f[0] = p
    /\ \A i \in 1..Len(params) : f[i] = SgrOne(f[i - 1], params[i])

LEMMA SgrAllRun ==
    ASSUME NEW p \in Pens, NEW params \in Seq(Int)
    PROVE  \E f : SgrRun(p, params, f) /\ SgrAll(p, params) = f[Len(params)]
<1> DEFINE n == Len(params)
           next == [i \in 1..n |-> [q \in Pens |-> SgrOne(q, params[i])]]
           After(f) == f = [i \in 0..n |-> IF i = 0 THEN p ELSE SgrOne(f[i - 1], params[i])]
<1>1. n \in Nat /\ \A i \in 1..n : params[i] \in Int
  BY LenProperties, ElementOfSeq
<1>2. next \in Steps(n, Pens)
  BY <1>1, SgrOneType DEF Steps
<1>3. \A i \in 1..n : \A q \in Pens : next[i][q] = SgrOne(q, params[i])
  OBVIOUS
<1> HIDE DEF next, n
<1>4. PICK f : Runs(n, Pens, p, next, f)
  BY <1>1, <1>2, Recursion
<1>r. f \in [0..n -> Pens] /\ f[0] = p /\ \A i \in 1..n : f[i] = next[i][f[i - 1]]
  BY <1>4 DEF Runs
<1>5. \A i \in 1..n : f[i] = SgrOne(f[i - 1], params[i])
  <2>1. ASSUME NEW i \in 1..n PROVE f[i - 1] \in Pens
    BY <1>1, <1>r
  <2> QED
    BY <1>3, <1>r, <2>1
<1>6. After(f)
  <2>1. \A i \in 0..n : f[i] = IF i = 0 THEN p ELSE SgrOne(f[i - 1], params[i])
    BY <1>1, <1>r, <1>5
  <2> QED
    BY <1>r, <2>1, Zenon
<1> DEFINE g == CHOOSE g : After(g)
<1>7. After(g)
  BY <1>6
<1>8. SgrAll(p, params) = g[n]
  BY DEF SgrAll, n
<1> HIDE DEF g
<1>9. g[0] = p /\ \A i \in 1..n : g[i] = SgrOne(g[i - 1], params[i])
  BY <1>1, <1>7
<1>10. Alike(n, f, g)
  <2>1. GoOnAlike(n, f, g)
    BY <1>5, <1>9 DEF GoOnAlike
  <2> QED
    BY <1>1, <1>r, <1>9, <2>1, RecursionUnique
<1>11. f[n] = g[n]
  BY <1>1, <1>10 DEF Alike
<1> QED
  BY <1>r, <1>5, <1>8, <1>11 DEF SgrRun, n

LEMMA ApplySgrType ==
    ASSUME pen \in Pens, NEW params \in Seq(Int)
    PROVE  ApplySgr(params) \in Pens
<1>1. SgrAll(pen, params) \in Pens
  <2>1. PICK f : SgrRun(pen, params, f) /\ SgrAll(pen, params) = f[Len(params)]
    BY SgrAllRun
  <2>2. Len(params) \in 0..Len(params)
    BY LenProperties
  <2> QED
    BY <2>1, <2>2 DEF SgrRun
<1> QED
  BY <1>1, DefaultPenType DEF ApplySgr

-----------------------------------------------------------------------------
(* Numbers and their digits. *)

LEMMA DigitFacts ==
    \A n \in 0..9 : Digit[n] \in Digits /\ DigitValue[Digit[n]] = n
<1>1. ASSUME NEW n \in 0..9
      PROVE  /\ Digit[n] \in Digits
             /\ \A k \in 0..9 : Digit[k] = Digit[n] => k = n
  BY DEF Digit, Digits
<1>2. ASSUME NEW n \in 0..9 PROVE DigitValue[Digit[n]] = n
  <2>1. DigitValue[Digit[n]] = CHOOSE k \in 0..9 : Digit[k] = Digit[n]
    BY <1>1, Zenon DEF DigitValue
  <2> DEFINE k == CHOOSE k \in 0..9 : Digit[k] = Digit[n]
  <2>2. k \in 0..9 /\ Digit[k] = Digit[n]
    BY Zenon
  <2> HIDE DEF k
  <2>3. k = n
    BY <1>1, <2>2
  <2> QED
    BY <2>1, <2>3 DEF k
<1> QED
  BY <1>1, <1>2

LEMMA DigitValueType == \A d \in Digits : DigitValue[d] \in 0..9
<1>1. ASSUME NEW d \in Digits PROVE \E n \in 0..9 : Digit[n] = d
  <2>1. /\ Digit[0] = "0" /\ Digit[1] = "1" /\ Digit[2] = "2" /\ Digit[3] = "3" /\ Digit[4] = "4"
        /\ Digit[5] = "5" /\ Digit[6] = "6" /\ Digit[7] = "7" /\ Digit[8] = "8" /\ Digit[9] = "9"
    BY DEF Digit
  <2>2. \A n \in 0..9 : Digit[n] = d => \E k \in 0..9 : Digit[k] = d
    OBVIOUS
  <2> QED
    BY <2>1, <2>2 DEF Digits
<1> QED
  BY <1>1, DigitFacts

LEMMA SmallMod == \A m \in Nat \ {0} : \A a \in Nat : a < m => a % m = a
OBVIOUS

LEMMA WrappedSmall == \A v \in 0..IntMax : Wrapped(v) = v
<1>1. ASSUME NEW v \in 0..IntMax PROVE Wrapped(v) = v
  <2> DEFINE m == 2 * (IntMax + 1)
             a == v + IntMax + 1
  <2>1. m \in Nat \ {0} /\ a \in Nat /\ a < m
    OBVIOUS
  <2>2. Wrapped(v) = (a % m) - (IntMax + 1)
    BY DEF Wrapped
  <2>3. a - (IntMax + 1) = v
    OBVIOUS
  <2> HIDE DEF a, m
  <2>4. a % m = a
    BY <2>1, SmallMod
  <2> QED
    BY <2>2, <2>3, <2>4
<1> QED
  BY <1>1

LEMMA WrappedType == \A v \in Int : Wrapped(v) \in Int
<1>1. ASSUME NEW v \in Int PROVE Wrapped(v) \in Int
  <2> DEFINE m == 2 * (IntMax + 1)
             a == v + IntMax + 1
  <2>1. m \in Nat \ {0} /\ a \in Int
    OBVIOUS
  <2>2. Wrapped(v) = (a % m) - (IntMax + 1)
    BY DEF Wrapped
  <2> HIDE DEF a, m
  <2>3. a % m \in Int
    BY <2>1
  <2> QED
    BY <2>2, <2>3
<1> QED
  BY <1>1

\* What Number computes, digit by digit.
NumberRun(digits, f) ==
    /\ f \in [0..Len(digits) -> Int] /\ f[0] = 0
    /\ \A i \in 1..Len(digits) : f[i] = Wrapped(f[i - 1] * 10 + DigitValue[digits[i]])

LEMMA NumberRuns ==
    ASSUME NEW digits \in Seq(Digits)
    PROVE  \E f : NumberRun(digits, f) /\ Number(digits) = f[Len(digits)]
<1> DEFINE n == Len(digits)
           next == [i \in 1..n |-> [v \in Int |-> Wrapped(v * 10 + DigitValue[digits[i]])]]
           Value(f) == f = [i \in 0..n |-> IF i = 0 THEN 0
                                           ELSE Wrapped(f[i - 1] * 10 + DigitValue[digits[i]])]
<1>1. n \in Nat /\ \A i \in 1..n : DigitValue[digits[i]] \in Int
  <2>1. ASSUME NEW i \in 1..n PROVE digits[i] \in Digits
    BY ElementOfSeq
  <2> QED
    BY <2>1, LenProperties, DigitValueType
<1>2. next \in Steps(n, Int)
  <2>1. ASSUME NEW i \in 1..n, NEW v \in Int PROVE Wrapped(v * 10 + DigitValue[digits[i]]) \in Int
    <3>1. v * 10 + DigitValue[digits[i]] \in Int
      BY <1>1
    <3> QED
      BY <3>1, WrappedType
  <2> QED
    BY <2>1 DEF Steps
<1>3. \A i \in 1..n : \A v \in Int : next[i][v] = Wrapped(v * 10 + DigitValue[digits[i]])
  OBVIOUS
<1> HIDE DEF next, n
<1>4. PICK f : Runs(n, Int, 0, next, f)
  <2>1. 0 \in Int
    OBVIOUS
  <2> QED
    BY <1>1, <1>2, <2>1, Recursion, Zenon
<1>5. f \in [0..n -> Int] /\ f[0] = 0 /\ \A i \in 1..n : f[i] = next[i][f[i - 1]]
  BY <1>4 DEF Runs
<1>6. \A i \in 1..n : f[i] = Wrapped(f[i - 1] * 10 + DigitValue[digits[i]])
  <2>1. ASSUME NEW i \in 1..n PROVE f[i - 1] \in Int
    BY <1>1, <1>5
  <2> QED
    BY <1>3, <1>5, <2>1
<1>7. Value(f)
  <2>1. \A i \in 0..n : f[i] = IF i = 0 THEN 0
                               ELSE Wrapped(f[i - 1] * 10 + DigitValue[digits[i]])
    BY <1>1, <1>5, <1>6
  <2> QED
    BY <1>5, <2>1, Zenon
<1> DEFINE g == CHOOSE g : Value(g)
<1>8. Value(g)
  BY <1>7
<1>9. Number(digits) = g[n]
  BY DEF Number, n
<1> HIDE DEF g
<1>10. g[0] = 0 /\ \A i \in 1..n : g[i] = Wrapped(g[i - 1] * 10 + DigitValue[digits[i]])
  BY <1>1, <1>8
<1>11. Alike(n, f, g)
  <2>1. GoOnAlike(n, f, g)
    BY <1>6, <1>10 DEF GoOnAlike
  <2> QED
    BY <1>1, <1>5, <1>10, <2>1, RecursionUnique
<1>12. f[n] = g[n]
  BY <1>1, <1>11 DEF Alike
<1> QED
  BY <1>5, <1>6, <1>9, <1>12 DEF NumberRun, n

LEMMA NumberType == \A digits \in Seq(Digits) : Number(digits) \in Int
<1>1. ASSUME NEW digits \in Seq(Digits) PROVE Number(digits) \in Int
  <2>1. PICK f : NumberRun(digits, f) /\ Number(digits) = f[Len(digits)]
    BY NumberRuns
  <2>2. Len(digits) \in 0..Len(digits)
    BY LenProperties
  <2> QED
    BY <2>1, <2>2 DEF NumberRun
<1> QED
  BY <1>1

LEMMA NumberEmpty == Number(<<>>) = 0
<1>1. <<>> \in Seq(Digits)
  OBVIOUS
<1>2. PICK f : NumberRun(<<>>, f) /\ Number(<<>>) = f[Len(<<>>)]
  BY <1>1, NumberRuns
<1> QED
  BY <1>2 DEF NumberRun

LEMMA NumberAppend ==
    ASSUME NEW digits \in Seq(Digits), NEW d \in Digits
    PROVE  Number(Append(digits, d)) = Wrapped(Number(digits) * 10 + DigitValue[d])
<1> DEFINE n == Len(digits)
           all == Append(digits, d)
<1>1. /\ all \in Seq(Digits) /\ Len(all) = n + 1 /\ all[n + 1] = d /\ n \in Nat
      /\ \A i \in 1..n : all[i] = digits[i]
  BY AppendProperties, LenProperties
<1> HIDE DEF all
<1>2. PICK f : NumberRun(digits, f) /\ Number(digits) = f[n]
  BY NumberRuns
<1>3. PICK g : NumberRun(all, g) /\ Number(all) = g[n + 1]
  BY <1>1, NumberRuns
<1> HIDE DEF n
<1>4. f[0] = 0 /\ \A i \in 1..n : f[i] = Wrapped(f[i - 1] * 10 + DigitValue[digits[i]])
  BY <1>2 DEF NumberRun, n
<1>5. g[0] = 0 /\ \A i \in 1..(n + 1) : g[i] = Wrapped(g[i - 1] * 10 + DigitValue[all[i]])
  BY <1>1, <1>3 DEF NumberRun
<1>6. Alike(n, f, g)
  <2>1. ASSUME NEW i \in 1..n, f[i - 1] = g[i - 1] PROVE f[i] = g[i]
    <3>1. i \in 1..(n + 1) /\ all[i] = digits[i]
      BY <1>1
    <3> QED
      BY <1>4, <1>5, <2>1, <3>1
  <2>2. GoOnAlike(n, f, g)
    BY <2>1 DEF GoOnAlike
  <2> QED
    BY <1>1, <1>4, <1>5, <2>2, RecursionUnique
<1>7. f[n] = g[n]
  BY <1>1, <1>6 DEF Alike
<1>8. n + 1 \in 1..(n + 1) /\ (n + 1) - 1 = n
  BY <1>1
<1>9. g[n + 1] = Wrapped(g[n] * 10 + DigitValue[d])
  BY <1>1, <1>5, <1>8
<1> QED
  BY <1>2, <1>3, <1>7, <1>9 DEF all

\* What Decimal computes, number by number.
DecimalOf(g, i) == IF i < 10 THEN <<Digit[i]>> ELSE Append(g[i \div 10], Digit[i % 10])

DecimalTo(n, g) == g \in [0..n -> Seq(Digits)] /\ \A i \in 0..n : g[i] = DecimalOf(g, i)

LEMMA Tenth ==
    \A i \in Nat : i >= 10 => /\ i \div 10 \in Nat /\ i \div 10 < i /\ i % 10 \in 0..9
                              /\ ((i \div 10) * 10) + (i % 10) = i /\ i \div 10 >= 1
OBVIOUS

LEMMA DecimalOfType ==
    ASSUME NEW i \in Nat, NEW g, i >= 10 => g[i \div 10] \in Seq(Digits)
    PROVE  DecimalOf(g, i) \in Seq(Digits)
<1>1. CASE i < 10
  <2>1. Digit[i] \in Digits
    BY <1>1, DigitFacts
  <2> QED
    BY <1>1, <2>1 DEF DecimalOf
<1>2. CASE ~(i < 10)
  <2>1. Digit[i % 10] \in Digits
    BY <1>2, Tenth, DigitFacts
  <2> QED
    BY <1>2, <2>1, AppendProperties DEF DecimalOf
<1> QED
  BY <1>1, <1>2

LEMMA DecimalExists ==
    ASSUME NEW n \in Nat
    PROVE  \E g : DecimalTo(n, g)
<1> DEFINE Q == {m \in 0..n : \E g : DecimalTo(m, g)}
<1>1. 0 \in Q
  <2> DEFINE g == [i \in 0..0 |-> <<Digit[0]>>]
  <2>1. Digit[0] \in Digits
    BY DigitFacts
  <2>2. DecimalTo(0, g)
    BY <2>1 DEF DecimalTo, DecimalOf
  <2> QED
    BY <2>2
<1>2. ASSUME NEW m \in 0..n, m < n, m \in Q PROVE m + 1 \in Q
  <2>1. PICK g : DecimalTo(m, g)
    BY <1>2
  <2> DEFINE h == [i \in 0..(m + 1) |-> IF i <= m THEN g[i] ELSE DecimalOf(g, m + 1)]
  <2>2. DecimalOf(g, m + 1) \in Seq(Digits)
    <3>1. m + 1 >= 10 => (m + 1) \div 10 \in 0..m
      BY Tenth
    <3>2. m + 1 >= 10 => g[(m + 1) \div 10] \in Seq(Digits)
      BY <2>1, <3>1 DEF DecimalTo
    <3> QED
      BY <3>2, DecimalOfType
  <2>3. h \in [0..(m + 1) -> Seq(Digits)]
    BY <2>1, <2>2 DEF DecimalTo
  <2>4. ASSUME NEW i \in 0..(m + 1) PROVE h[i] = DecimalOf(h, i)
    <3>1. h[i] = DecimalOf(g, i)
      <4>1. CASE i <= m
        BY <2>1, <4>1 DEF DecimalTo
      <4>2. CASE i = m + 1
        BY <4>2
      <4> QED
        BY <4>1, <4>2
    <3>2. i >= 10 => h[i \div 10] = g[i \div 10]
      <4>1. i >= 10 => i \div 10 \in 0..(m + 1) /\ i \div 10 <= m
        BY Tenth
      <4> QED
        BY <4>1
    <3> HIDE DEF h
    <3> QED
      BY <3>1, <3>2 DEF DecimalOf
  <2> HIDE DEF h
  <2>5. DecimalTo(m + 1, h)
    BY <2>3, <2>4 DEF DecimalTo
  <2> QED
    BY <1>2, <2>5
<1>3. n \in Q
  <2> HIDE DEF Q
  <2>1. \A m \in 0..n : m \in Q
    BY <1>1, <1>2, UpTo
  <2> QED
    BY <2>1
<1> QED
  BY <1>3

LEMMA DecimalUnique ==
    ASSUME NEW n \in Nat, NEW m \in Nat, n <= m, NEW g, NEW h, DecimalTo(n, g), DecimalTo(m, h)
    PROVE  g[n] = h[n]
<1> DEFINE Bad == {i \in 0..n : g[i] # h[i]}
<1>1. SUFFICES ASSUME Bad # {} PROVE FALSE
  OBVIOUS
<1>2. Bad \in SUBSET Nat
  OBVIOUS
<1>3. PICK i \in Bad : \A j \in Bad : i <= j
  <2> HIDE DEF Bad
  <2> QED
    BY <1>1, <1>2, FirstExists
<1>4. i \in 0..n /\ g[i] # h[i] /\ i \in 0..m
  OBVIOUS
<1>5. g[i] = DecimalOf(g, i) /\ h[i] = DecimalOf(h, i)
  BY <1>4 DEF DecimalTo
<1>6. CASE i < 10
  BY <1>4, <1>5, <1>6 DEF DecimalOf
<1>7. CASE i >= 10
  <2>1. i \div 10 \in 0..n /\ ~(i <= i \div 10)
    BY <1>4, <1>7, Tenth
  <2>2. g[i \div 10] = h[i \div 10]
    BY <1>3, <2>1
  <2> QED
    BY <1>4, <1>5, <1>7, <2>2 DEF DecimalOf
<1> QED
  BY <1>4, <1>6, <1>7

LEMMA DecimalIs ==
    ASSUME NEW n \in Nat
    PROVE  Decimal[n] = DecimalOf(Decimal, n)
<1> DEFINE Rule(f) == f = [i \in Nat |-> IF i < 10 THEN <<Digit[i]>>
                                         ELSE Append(f[i \div 10], Digit[i % 10])]
           part == [i \in Nat |-> CHOOSE g : DecimalTo(i, g)]
           f == [i \in Nat |-> part[i][i]]
<1>1. ASSUME NEW i \in Nat PROVE DecimalTo(i, part[i])
  BY DecimalExists
<1> HIDE DEF part
<1>2. ASSUME NEW i \in Nat
      PROVE  f[i] = IF i < 10 THEN <<Digit[i]>> ELSE Append(f[i \div 10], Digit[i % 10])
  <2>1. f[i] = DecimalOf(part[i], i)
    BY <1>1 DEF DecimalTo
  <2>2. ASSUME i >= 10 PROVE f[i \div 10] = part[i][i \div 10]
    <3>1. i \div 10 \in Nat /\ i \div 10 <= i
      BY <2>2, Tenth
    <3>2. DecimalTo(i \div 10, part[i \div 10]) /\ DecimalTo(i, part[i])
      BY <1>1, <3>1
    <3>3. part[i \div 10][i \div 10] = part[i][i \div 10]
      BY <3>1, <3>2, DecimalUnique
    <3> QED
      BY <3>1, <3>3
  <2> HIDE DEF f
  <2> QED
    BY <2>1, <2>2 DEF DecimalOf
<1>3. Rule(f)
  <2>1. f = [i \in Nat |-> f[i]]
    BY SMTT(40)
  <2> HIDE DEF f
  <2> QED
    BY <1>2, <2>1, Zenon
<1>4. Rule(Decimal)
  <2>1. Decimal = CHOOSE d : Rule(d)
    BY DEF Decimal
  <2> HIDE DEF f
  <2> QED
    BY <1>3, <2>1
<1> QED
  BY <1>4 DEF DecimalOf

\* The digits of a number are read as that number, as long as it fits into an
\* int.
LEMMA DecimalRead ==
    \A n \in Nat : /\ Decimal[n] \in Seq(Digits) /\ Decimal[n] # <<>>
                   /\ n <= IntMax => Number(Decimal[n]) = n
<1> DEFINE Read(n) == /\ Decimal[n] \in Seq(Digits) /\ Decimal[n] # <<>>
                      /\ n <= IntMax => Number(Decimal[n]) = n
           Bad == {n \in Nat : ~Read(n)}
<1>1. SUFFICES ASSUME Bad # {} PROVE FALSE
  OBVIOUS
<1>2. PICK n \in Bad : \A k \in Bad : n <= k
  <2>1. Bad \in SUBSET Nat
    OBVIOUS
  <2> HIDE DEF Bad
  <2> QED
    BY <1>1, <2>1, FirstExists
<1>3. n \in Nat /\ ~Read(n) /\ \A k \in Nat : k < n => Read(k)
  BY <1>2
<1>4. Decimal[n] = DecimalOf(Decimal, n)
  BY <1>3, DecimalIs
<1>5. CASE n < 10
  <2>1. Decimal[n] = <<Digit[n]>> /\ Digit[n] \in Digits /\ DigitValue[Digit[n]] = n
    BY <1>3, <1>4, <1>5, DigitFacts DEF DecimalOf
  <2>2. <<Digit[n]>> = Append(<<>>, Digit[n]) /\ <<>> \in Seq(Digits)
    BY <2>1
  <2>3. Number(Decimal[n]) = Wrapped(Number(<<>>) * 10 + DigitValue[Digit[n]])
    BY <2>1, <2>2, NumberAppend
  <2>4. Number(Decimal[n]) = Wrapped(n)
    BY <1>3, <2>1, <2>3, NumberEmpty
  <2>5. n <= IntMax => Number(Decimal[n]) = n
    BY <1>3, <2>4, WrappedSmall
  <2> QED
    BY <1>3, <2>1, <2>5
<1>6. CASE n >= 10
  <2> DEFINE t == n \div 10
             d == Digit[n % 10]
  <2>1. t \in Nat /\ t < n /\ n % 10 \in 0..9 /\ t * 10 + (n % 10) = n
    BY <1>3, <1>6, Tenth
  <2>2. d \in Digits /\ DigitValue[d] = n % 10
    BY <2>1, DigitFacts
  <2>3. Decimal[n] = Append(Decimal[t], d)
    BY <1>3, <1>4, <1>6 DEF DecimalOf
  <2> HIDE DEF t, d
  <2>4. Read(t)
    BY <1>3, <2>1
  <2>5. Decimal[n] \in Seq(Digits) /\ Decimal[n] # <<>>
    BY <2>2, <2>3, <2>4, AppendProperties
  <2>6. ASSUME n <= IntMax PROVE Number(Decimal[n]) = n
    <3>0. t <= IntMax
      BY <1>3, <2>1, <2>6
    <3>1. Number(Decimal[t]) = t
      BY <2>4, <3>0
    <3>2. Number(Decimal[n]) = Wrapped(t * 10 + (n % 10))
      BY <2>2, <2>3, <2>4, <3>1, NumberAppend
    <3> QED
      BY <1>3, <2>1, <2>6, <3>2, WrappedSmall
  <2> QED
    BY <1>3, <2>5, <2>6
<1> QED
  BY <1>3, <1>5, <1>6

-----------------------------------------------------------------------------
(* Types. *)

\* One byte of a buffer is read as a parameter.
LEMMA ParamType ==
    ASSUME NEW buf \in Seq(ParamBytes), NEW i \in 1..Len(buf)
    PROVE  ParamAt(buf, i) \in Int
<1> DEFINE ends == {j \in i..Len(buf) : buf[j] = "semicolon"}
           end == IF ends = {} THEN Len(buf) + 1 ELSE CHOOSE j \in ends : \A k \in ends : j <= k
<1>1. Len(buf) \in Nat /\ \A j \in 1..Len(buf) : buf[j] \in ParamBytes
  BY LenProperties, ElementOfSeq
<1>2. end \in i..(Len(buf) + 1) /\ \A j \in i..(end - 1) : buf[j] # "semicolon"
  <2>1. CASE ends = {}
    BY <1>1, <2>1
  <2>2. CASE ends # {}
    <3>1. \E j \in ends : \A k \in ends : j <= k
      <4>1. ends \in SUBSET Nat
        BY <1>1
      <4> HIDE DEF ends
      <4> QED
        BY <2>2, <4>1, FirstExists
    <3>2. end \in ends /\ \A k \in ends : end <= k
      <4> HIDE DEF ends
      <4> QED
        BY <2>2, <3>1
    <3> HIDE DEF end
    <3> QED
      BY <1>1, <3>2
  <2> QED
    BY <2>1, <2>2
<1>3. DigitsAt(buf, i) = SubSeq(buf, i, end - 1)
  BY DEF DigitsAt
<1> HIDE DEF end, ends
<1>4. DigitsAt(buf, i) \in Seq(Digits)
  <2>1. \A j \in i..(end - 1) : j \in 1..Len(buf) /\ buf[j] \in Digits
    BY <1>1, <1>2 DEF ParamBytes
  <2>2. i \in Int /\ end - 1 \in Int
    BY <1>1, <1>2
  <2> QED
    BY <1>3, <2>1, <2>2, SubSeqProperties
<1> QED
  BY <1>4, NumberType DEF ParamAt, Missing

\* The parameters of a buffer, before they are cut at MaxParams.
FieldsAt(buf) ==
    [i \in DOMAIN buf |-> IF i > 1 => buf[i - 1] = "semicolon" THEN <<ParamAt(buf, i)>> ELSE <<>>]

LEMMA FieldsType ==
    ASSUME NEW buf \in Seq(ParamBytes)
    PROVE  /\ FieldsAt(buf) \in Seq(Seq(Int)) /\ Len(FieldsAt(buf)) = Len(buf)
           /\ FlattenSeq(FieldsAt(buf)) \in Seq(Int)
<1>1. Len(buf) \in Nat /\ DOMAIN buf = 1..Len(buf)
  BY LenProperties
<1>2. \A i \in 1..Len(buf) : FieldsAt(buf)[i] \in Seq(Int)
  <2>1. ASSUME NEW i \in 1..Len(buf) PROVE <<ParamAt(buf, i)>> \in Seq(Int) /\ <<>> \in Seq(Int)
    BY ParamType
  <2> QED
    BY <1>1, <2>1, Zenon DEF FieldsAt
<1>3. FieldsAt(buf) = [i \in 1..Len(buf) |-> FieldsAt(buf)[i]]
  BY <1>1 DEF FieldsAt
<1>4. FieldsAt(buf) \in Seq(Seq(Int)) /\ Len(FieldsAt(buf)) = Len(buf)
  <2> DEFINE q == FieldsAt(buf)
  <2> HIDE DEF q
  <2>1. q \in [1..Len(buf) -> Seq(Int)]
    BY <1>2, <1>3 DEF q
  <2>2. q \in Seq(Seq(Int)) /\ Len(q) = Len(buf)
    BY <1>1, <2>1
  <2> QED
    BY <2>2 DEF q
<1> QED
  BY <1>4, FlattenType

LEMMA AtMostType ==
    ASSUME NEW S, NEW q \in Seq(S), NEW n \in Nat
    PROVE  /\ AtMost(n, q) \in Seq(S) /\ Len(AtMost(n, q)) <= n /\ Len(AtMost(n, q)) <= Len(q)
           /\ Len(q) <= n => AtMost(n, q) = q
           /\ \A i \in 1..n : i <= Len(q) => i <= Len(AtMost(n, q)) /\ AtMost(n, q)[i] = q[i]
<1> DEFINE m == IF Len(q) < n THEN Len(q) ELSE n
<1>1. Len(q) \in Nat /\ m \in 0..Len(q) /\ m <= n /\ \A i \in 1..Len(q) : q[i] \in S
  BY LenProperties, ElementOfSeq
<1>2. AtMost(n, q) = SubSeq(q, 1, m)
  BY DEF AtMost
<1> HIDE DEF m
<1>3. /\ SubSeq(q, 1, m) \in Seq(S) /\ Len(SubSeq(q, 1, m)) = m
      /\ \A i \in 1..m : SubSeq(q, 1, m)[i] = q[i]
  BY <1>1, SubSeqProperties
<1>4. ASSUME Len(q) <= n PROVE SubSeq(q, 1, m) = q
  <2>1. m = Len(q)
    BY <1>1, <1>4 DEF m
  <2> QED
    BY <1>3, <2>1, SeqEqual
<1> QED
  BY <1>1, <1>2, <1>3, <1>4 DEF m

LEMMA ParseType ==
    ASSUME NEW buf \in Seq(ParamBytes)
    PROVE  ParseParams(buf) \in Seq(Int)
<1>1. ParseParams(buf) = AtMost(MaxParams, FlattenSeq(FieldsAt(buf)))
  BY DEF ParseParams, FieldsAt
<1> QED
  BY <1>1, FieldsType, AtMostType

-----------------------------------------------------------------------------
(* The bytes of an item. *)

LEMMA Alphabet ==
    /\ Digits \subseteq ParamBytes /\ ParamBytes \subseteq Collected /\ Collected \subseteq Chars
    /\ Chars \subseteq Bytes /\ Controls \subseteq Bytes /\ Ignored \subseteq Bytes
    /\ {"[", "]", "7", "8", "c", "A", "O", "~", "space", "?", "semicolon"} \subseteq Chars
    /\ "esc" \in Bytes /\ "esc" \notin Chars /\ "esc" \notin Ignored
BY CharsAssumption, CharsDisjoint DEF ParamBytes, Collected, Bytes, Controls, Ignored

\* What an item is made of, by its kind.
LEMMA MeaningParts ==
    ASSUME NEW item \in Meanings
    PROVE  /\ item.kind \in {"char", "control", "csi", "esc", "quiet", "other"}
           /\ item.kind = "char" => item.char \in Chars
           /\ item.kind = "control" => item.byte \in Controls \ {"esc"}
           /\ item.kind = "csi" => /\ item.private \in BOOLEAN
                                   /\ item.params \in Seq(Nat \cup {Missing})
                                   /\ item.final \in Chars \ Collected
           /\ item.kind = "esc" => item.byte \in {"7", "8", "c"}
           /\ item.kind \in {"quiet", "other"} => item.bytes \in Seq(Bytes)
<1>1. CASE item \in [kind : {"char"}, char : Chars]
  BY <1>1
<1>2. CASE item \in [kind : {"control"}, byte : Controls \ {"esc"}]
  BY <1>2
<1>3. CASE item \in [kind : {"csi"}, private : BOOLEAN, params : Seq(Nat \cup {Missing}),
                     final : Chars \ Collected]
  BY <1>3
<1>4. CASE item \in [kind : {"esc"}, byte : {"7", "8", "c"}]
  BY <1>4
<1>5. CASE item \in [kind : {"quiet", "other"}, bytes : Seq(Bytes)]
  BY <1>5
<1> QED
  BY <1>1, <1>2, <1>3, <1>4, <1>5, Zenon DEF Meanings

\* A parameter, with the semicolon before it.
ParamPart(params, i) ==
    (IF i = 1 THEN <<>> ELSE <<"semicolon">>)
      \o (IF params[i] = Missing THEN <<>> ELSE Decimal[params[i]])

LEMMA EncodedParamsType ==
    ASSUME NEW params \in Seq(Nat \cup {Missing})
    PROVE  /\ EncodedParams(params) \in Seq(ParamBytes)
           /\ [i \in DOMAIN params |-> ParamPart(params, i)] \in Seq(Seq(ParamBytes))
           /\ EncodedParams(params) = FlattenSeq([i \in DOMAIN params |-> ParamPart(params, i)])
<1> DEFINE q == [i \in DOMAIN params |-> ParamPart(params, i)]
<1>1. Len(params) \in Nat /\ DOMAIN params = 1..Len(params)
  BY LenProperties
<1>2. ASSUME NEW i \in 1..Len(params) PROVE ParamPart(params, i) \in Seq(ParamBytes)
  <2>1. params[i] \in Nat \cup {Missing}
    BY ElementOfSeq
  <2>2. params[i] # Missing => Decimal[params[i]] \in Seq(ParamBytes)
    <3>1. params[i] # Missing => Decimal[params[i]] \in Seq(Digits)
      BY <2>1, DecimalRead
    <3> QED
      BY <3>1, Alphabet, SeqMonotone
  <2>3. <<"semicolon">> \in Seq(ParamBytes) /\ <<>> \in Seq(ParamBytes)
    BY DEF ParamBytes
  <2> DEFINE a == IF i = 1 THEN <<>> ELSE <<"semicolon">>
             d == IF params[i] = Missing THEN <<>> ELSE Decimal[params[i]]
  <2>4. a \in Seq(ParamBytes) /\ d \in Seq(ParamBytes)
    BY <2>2, <2>3, Zenon
  <2>5. ParamPart(params, i) = a \o d
    BY DEF ParamPart
  <2> HIDE DEF a, d
  <2> QED
    BY <2>4, <2>5, ConcatProperties
<1>3. q \in Seq(Seq(ParamBytes))
  <2>1. q \in [1..Len(params) -> Seq(ParamBytes)]
    BY <1>1, <1>2
  <2> HIDE DEF q
  <2> QED
    BY <1>1, <2>1
<1>4. EncodedParams(params) = FlattenSeq(q)
  BY DEF EncodedParams, ParamPart
<1> QED
  BY <1>3, <1>4, FlattenType

\* The parts of a control sequence.
LEMMA EncodedCsi ==
    ASSUME NEW item \in Meanings, item.kind = "csi"
    PROVE  LET mark == IF item.private THEN <<"?">> ELSE <<>>
               body == mark \o EncodedParams(item.params)
           IN  /\ body \in Seq(Collected)
               /\ Encoded(item) = <<"esc", "[">> \o (body \o <<item.final>>)
<1> DEFINE mark == IF item.private THEN <<"?">> ELSE <<>>
           params == EncodedParams(item.params)
           body == mark \o params
<1>1. /\ item.private \in BOOLEAN /\ item.params \in Seq(Nat \cup {Missing})
      /\ item.final \in Chars
  BY MeaningParts
<1>2. params \in Seq(Collected)
  BY <1>1, EncodedParamsType, Alphabet, SeqMonotone
<1>3. mark \in Seq(Collected)
  <2>1. <<"?">> \in Seq(Collected) /\ <<>> \in Seq(Collected)
    BY DEF Collected
  <2> QED
    BY <2>1, Zenon
<1>4. Encoded(item) = ((<<"esc", "[">> \o mark) \o params) \o <<item.final>>
  BY DEF Encoded
<1> HIDE DEF mark, params
<1>5. body \in Seq(Collected)
  BY <1>2, <1>3, ConcatProperties
<1>6. <<"esc", "[">> \in Seq(Bytes) /\ mark \in Seq(Bytes) /\ params \in Seq(Bytes)
      /\ <<item.final>> \in Seq(Bytes)
  <2>1. "esc" \in Bytes /\ "[" \in Bytes /\ item.final \in Bytes /\ Collected \subseteq Bytes
    BY <1>1, Alphabet
  <2>2. mark \in Seq(Bytes) /\ params \in Seq(Bytes)
    BY <1>2, <1>3, <2>1, SeqMonotone
  <2> QED
    BY <2>1, <2>2
<1>7. Encoded(item) = <<"esc", "[">> \o (body \o <<item.final>>)
  BY <1>4, <1>6, ConcatAssociative, ConcatProperties
<1> QED
  BY <1>5, <1>7 DEF mark, params

\* The bytes of an item are bytes of the stream.
LEMMA EncodedType ==
    ASSUME NEW item \in Meanings
    PROVE  Encoded(item) \in Seq(Bytes)
<1>1. CASE item.kind = "char"
  <2>1. item.char \in Bytes
    BY <1>1, MeaningParts, Alphabet
  <2> QED
    BY <1>1, <2>1 DEF Encoded
<1>2. CASE item.kind = "control"
  <2>1. item.byte \in Bytes
    BY <1>2, MeaningParts, Alphabet
  <2> QED
    BY <1>2, <2>1 DEF Encoded
<1>3. CASE item.kind = "csi"
  <2> DEFINE body == (IF item.private THEN <<"?">> ELSE <<>>) \o EncodedParams(item.params)
  <2>1. body \in Seq(Collected) /\ Encoded(item) = <<"esc", "[">> \o (body \o <<item.final>>)
    BY <1>3, EncodedCsi
  <2>2. Collected \subseteq Bytes /\ "esc" \in Bytes /\ "[" \in Bytes /\ item.final \in Bytes
    BY <1>3, MeaningParts, Alphabet
  <2> HIDE DEF body
  <2>3. body \in Seq(Bytes)
    BY <2>1, <2>2, SeqMonotone
  <2>4. <<"esc", "[">> \in Seq(Bytes) /\ <<item.final>> \in Seq(Bytes)
    BY <2>2
  <2> QED
    BY <2>1, <2>3, <2>4, ConcatProperties
<1>4. CASE item.kind = "esc"
  <2>1. item.byte \in Bytes /\ "esc" \in Bytes
    BY <1>4, MeaningParts, Alphabet
  <2> QED
    BY <1>4, <2>1 DEF Encoded
<1>5. CASE item.kind \in {"quiet", "other"}
  BY <1>5, MeaningParts DEF Encoded
<1> QED
  BY <1>1, <1>2, <1>3, <1>4, <1>5, MeaningParts

-----------------------------------------------------------------------------
(* Complete runs of bytes. *)

\* What begins with the ESC at place i has its end among the bytes.
Ends(bytes, i) ==
    /\ i < Len(bytes)
    /\ bytes[i + 1] = "[" => \E j \in (i + 2)..Len(bytes) : bytes[j] \notin Collected
    /\ bytes[i + 1] = "]" => \E j \in (i + 2)..Len(bytes) : bytes[j] \in OscEnd
    /\ bytes[i + 1] \in CharsetNames => i + 2 <= Len(bytes)

LEMMA CompleteIs ==
    ASSUME NEW S, NEW bytes \in Seq(S)
    PROVE  Complete(bytes) <=> \A i \in 1..Len(bytes) : bytes[i] = "esc" => Ends(bytes, i)
<1>1. DOMAIN bytes = 1..Len(bytes)
  BY LenProperties
<1> QED
  BY <1>1, Zenon DEF Complete, Ends

\* An end stays one when bytes are added or taken away on either side.
LEMMA EndsShift ==
    ASSUME NEW s, NEW n \in Nat, NEW i \in 1..n, Len(s) = n, Ends(s, i),
           NEW u, NEW m \in Nat, Len(u) = m, NEW d \in Int,
           i + d \in 1..m, n + d <= m, \A j \in i..n : u[j + d] = s[j]
    PROVE  Ends(u, i + d)
<1>1. i < n /\ u[(i + d) + 1] = s[i + 1]
  <2>1. i < n /\ i + 1 \in i..n /\ (i + 1) + d = (i + d) + 1
    BY DEF Ends
  <2> QED
    BY <2>1
<1>2. \A j \in (i + 2)..n : j + d \in ((i + d) + 2)..m /\ u[j + d] = s[j]
  OBVIOUS
<1>3. i + d < m
  BY <1>1
<1>4. s[i + 1] = "[" => \E j \in ((i + d) + 2)..m : u[j] \notin Collected
  <2>1. SUFFICES ASSUME s[i + 1] = "[" PROVE \E j \in ((i + d) + 2)..m : u[j] \notin Collected
    OBVIOUS
  <2>2. PICK j \in (i + 2)..n : s[j] \notin Collected
    BY <2>1 DEF Ends
  <2> QED
    BY <1>2, <2>2
<1>5. s[i + 1] = "]" => \E j \in ((i + d) + 2)..m : u[j] \in OscEnd
  <2>1. SUFFICES ASSUME s[i + 1] = "]" PROVE \E j \in ((i + d) + 2)..m : u[j] \in OscEnd
    OBVIOUS
  <2>2. PICK j \in (i + 2)..n : s[j] \in OscEnd
    BY <2>1 DEF Ends
  <2> QED
    BY <1>2, <2>2
<1>6. s[i + 1] \in CharsetNames => (i + d) + 2 <= m
  BY DEF Ends
<1> QED
  BY <1>1, <1>3, <1>4, <1>5, <1>6 DEF Ends

LEMMA CompleteConcat ==
    ASSUME NEW S, NEW a \in Seq(S), NEW c \in Seq(S), Complete(a), Complete(c)
    PROVE  Complete(a \o c)
<1> DEFINE u == a \o c
           n == Len(a)
           k == Len(c)
<1>1. u \in Seq(S) /\ Len(u) = n + k /\ n \in Nat /\ k \in Nat
  BY ConcatProperties, LenProperties
<1>2. (\A i \in 1..n : u[i] = a[i]) /\ (\A i \in 1..k : u[n + i] = c[i])
  BY ConcatIndices
<1>3. /\ \A i \in 1..n : a[i] = "esc" => Ends(a, i)
      /\ \A i \in 1..k : c[i] = "esc" => Ends(c, i)
  BY CompleteIs
<1> HIDE DEF u
<1>4. ASSUME NEW i \in 1..(n + k), u[i] = "esc" PROVE Ends(u, i)
  <2>1. CASE i <= n
    <3>1. i \in 1..n /\ Ends(a, i)
      BY <1>1, <1>2, <1>3, <1>4, <2>1
    <3>2. /\ i + 0 \in 1..(n + k) /\ n + 0 <= n + k /\ n + k \in Nat /\ 0 \in Int
          /\ \A j \in i..n : u[j + 0] = a[j]
      BY <1>1, <1>2, <3>1
    <3> HIDE DEF n, k
    <3>3. Ends(u, i + 0)
      BY <1>1, <3>1, <3>2, EndsShift DEF n
    <3> QED
      BY <1>1, <3>1, <3>3
  <2>2. CASE i > n
    <3> DEFINE h == i - n
    <3>1. h \in 1..k /\ n + h = i
      BY <1>1, <2>2
    <3> HIDE DEF h
    <3>2. Ends(c, h)
      BY <1>2, <1>3, <1>4, <3>1
    <3>3. /\ h + n \in 1..(n + k) /\ k + n <= n + k /\ n + k \in Nat /\ n \in Int
          /\ \A j \in h..k : u[j + n] = c[j]
      BY <1>1, <1>2, <3>1
    <3> HIDE DEF n, k
    <3>4. Ends(u, h + n)
      BY <1>1, <3>1, <3>2, <3>3, EndsShift DEF k
    <3> QED
      BY <1>1, <3>1, <3>4
  <2> QED
    BY <1>1, <2>1, <2>2
<1>5. Complete(u)
  BY <1>1, <1>4, CompleteIs
<1> QED
  BY <1>5 DEF u

LEMMA CompleteTail ==
    ASSUME NEW S, NEW s \in Seq(S), s # <<>>, Complete(s)
    PROVE  Complete(Tail(s))
<1> DEFINE u == Tail(s)
           n == Len(s)
<1>1. u \in Seq(S) /\ Len(u) = n - 1 /\ n \in Nat \ {0} /\ \A i \in 1..(n - 1) : u[i] = s[i + 1]
  BY HeadTailProperties, EmptySeq
<1>2. \A i \in 1..n : s[i] = "esc" => Ends(s, i)
  BY CompleteIs
<1> HIDE DEF u, n
<1>3. ASSUME NEW i \in 1..(n - 1), u[i] = "esc" PROVE Ends(u, i)
  <2> DEFINE h == i + 1
  <2>1. h \in 1..n /\ h + (-1) = i
    BY <1>1
  <2>2. Ends(s, h)
    BY <1>1, <1>2, <1>3, <2>1
  <2> HIDE DEF h
  <2>3. /\ h + (-1) \in 1..(n - 1) /\ n + (-1) <= n - 1 /\ -1 \in Int /\ n \in Nat /\ n - 1 \in Nat
        /\ \A j \in h..n : u[j + (-1)] = s[j]
    BY <1>1, <2>1
  <2>4. Ends(u, h + (-1))
    BY <1>1, <2>1, <2>2, <2>3, EndsShift DEF n
  <2> QED
    BY <2>1, <2>4
<1>4. Complete(u)
  BY <1>1, <1>3, CompleteIs
<1> QED
  BY <1>4 DEF u

LEMMA CompleteWithoutEsc ==
    ASSUME NEW S, NEW s \in Seq(S), \A i \in 1..Len(s) : s[i] # "esc"
    PROVE  Complete(s)
BY CompleteIs

\* ESC, a byte, and what ends the sequence it introduces.
LEMMA CompleteEsc ==
    ASSUME NEW S, NEW s \in Seq(S), Len(s) >= 2, s[1] = "esc",
           \A i \in 2..Len(s) : s[i] # "esc",
           s[2] = "[" => \E j \in 3..Len(s) : s[j] \notin Collected,
           s[2] = "]" => \E j \in 3..Len(s) : s[j] \in OscEnd,
           s[2] \in CharsetNames => Len(s) >= 3
    PROVE  Complete(s)
<1>1. Len(s) \in Nat
  BY LenProperties
<1>2. Ends(s, 1)
  BY <1>1 DEF Ends
<1>3. \A i \in 1..Len(s) : s[i] = "esc" => i = 1
  BY <1>1
<1> QED
  BY <1>2, <1>3, CompleteIs

\* Whatever an item is, its bytes do not cut a sequence short.
LEMMA EncodedComplete ==
    ASSUME NEW item \in Meanings,
           item.kind = "quiet" => Skipped(item.bytes),
           item.kind = "other" => Complete(item.bytes)
    PROVE  Complete(Encoded(item))
<1> DEFINE e == Encoded(item)
<1>1. CASE item.kind = "char"
  <2>1. item.char \in Bytes /\ item.char # "esc"
    BY <1>1, MeaningParts, Alphabet
  <2>2. <<item.char>> \in Seq(Bytes) /\ \A i \in 1..Len(<<item.char>>) : <<item.char>>[i] # "esc"
    BY <2>1
  <2>3. e = <<item.char>>
    BY <1>1 DEF Encoded
  <2> QED
    BY <2>2, <2>3, CompleteWithoutEsc
<1>2. CASE item.kind = "control"
  <2>1. item.byte \in Bytes /\ item.byte # "esc"
    BY <1>2, MeaningParts, Alphabet
  <2>2. <<item.byte>> \in Seq(Bytes) /\ \A i \in 1..Len(<<item.byte>>) : <<item.byte>>[i] # "esc"
    BY <2>1
  <2>3. e = <<item.byte>>
    BY <1>2 DEF Encoded
  <2> QED
    BY <2>2, <2>3, CompleteWithoutEsc
<1>3. CASE item.kind = "csi"
  <2> DEFINE body == (IF item.private THEN <<"?">> ELSE <<>>) \o EncodedParams(item.params)
             n == Len(body)
             rest == body \o <<item.final>>
  <2>1. body \in Seq(Collected) /\ e = <<"esc", "[">> \o rest
    BY <1>3, EncodedCsi
  <2>2. item.final \in Chars /\ item.final \notin Collected /\ Collected \subseteq Chars
        /\ "esc" \notin Chars /\ "[" \in Bytes /\ "esc" \in Bytes /\ Chars \subseteq Bytes
    BY <1>3, MeaningParts, Alphabet
  <2> HIDE DEF body
  <2>3. /\ body \in Seq(Chars) /\ n \in Nat /\ \A i \in 1..n : body[i] \in Chars
        /\ <<item.final>> \in Seq(Chars)
    BY <2>1, <2>2, SeqMonotone, LenProperties, ElementOfSeq
  <2>4. /\ rest \in Seq(Chars) /\ Len(rest) = n + 1 /\ rest[n + 1] = item.final
        /\ \A i \in 1..(n + 1) : rest[i] \in Chars
    <3>1. rest \in Seq(Chars) /\ Len(rest) = n + 1
      BY <2>3, ConcatProperties
    <3>2. rest[n + 1] = item.final
      BY <2>3, ConcatIndices
    <3> HIDE DEF rest
    <3> QED
      BY <3>1, <3>2, ElementOfSeq
  <2> HIDE DEF rest, n
  <2>5. <<"esc", "[">> \in Seq(Bytes) /\ rest \in Seq(Bytes)
    BY <2>2, <2>4, SeqMonotone
  <2>6. /\ e \in Seq(Bytes) /\ Len(e) = n + 3 /\ e[1] = "esc" /\ e[2] = "["
        /\ \A i \in 1..(n + 1) : e[i + 2] = rest[i]
    <3>1. Len(<<"esc", "[">>) = 2 /\ <<"esc", "[">>[1] = "esc" /\ <<"esc", "[">>[2] = "["
      OBVIOUS
    <3>2. e \in Seq(Bytes) /\ Len(e) = 2 + (n + 1)
      BY <2>1, <2>4, <2>5, <3>1, ConcatProperties
    <3>3. /\ \A i \in 1..2 : e[i] = <<"esc", "[">>[i]
          /\ \A i \in 1..(n + 1) : e[2 + i] = rest[i]
      BY <2>1, <2>4, <2>5, <3>1, ConcatIndices
    <3> HIDE DEF e
    <3>4. e[1] = "esc" /\ e[2] = "["
      BY <3>1, <3>3
    <3> QED
      BY <2>3, <3>2, <3>3, <3>4
  <2> HIDE DEF e
  <2>7. \A i \in 2..Len(e) : e[i] # "esc"
    <3>1. ASSUME NEW i \in 3..(n + 3) PROVE e[i] # "esc"
      <4>1. i - 2 \in 1..(n + 1) /\ (i - 2) + 2 = i
        BY <2>3
      <4>2. e[i] = rest[i - 2]
        BY <2>6, <4>1
      <4> QED
        BY <2>2, <2>4, <4>1, <4>2
    <3> QED
      BY <2>3, <2>6, <3>1
  <2>8. \E j \in 3..Len(e) : e[j] \notin Collected
    <3>1. n + 1 \in 1..(n + 1) /\ n + 3 \in 3..(n + 3) /\ (n + 1) + 2 = n + 3
      BY <2>3
    <3>2. e[n + 3] = item.final
      BY <2>4, <2>6, <3>1
    <3> QED
      BY <2>2, <2>6, <3>1, <3>2
  <2>9. e[2] # "]" /\ e[2] \notin CharsetNames
    BY <2>6 DEF CharsetNames
  <2> QED
    BY <2>3, <2>6, <2>7, <2>8, <2>9, CompleteEsc, SMTT(40) DEF e
<1>4. CASE item.kind = "esc"
  <2>1. item.byte \in {"7", "8", "c"} /\ e = <<"esc", item.byte>> /\ "esc" \in Bytes
        /\ item.byte \in Bytes
    BY <1>4, MeaningParts, Alphabet DEF Encoded
  <2>2. e \in Seq(Bytes) /\ Len(e) = 2 /\ e[1] = "esc" /\ e[2] = item.byte
    BY <2>1
  <2>3. e[2] # "[" /\ e[2] # "]" /\ e[2] \notin CharsetNames /\ e[2] # "esc"
    BY <2>1, <2>2 DEF CharsetNames
  <2> HIDE DEF e
  <2>4. Complete(e)
    BY <2>2, <2>3, CompleteEsc
  <2> QED
    BY <2>4 DEF e
<1>5. CASE item.kind = "other"
  BY <1>5 DEF Encoded
<1>6. CASE item.kind = "quiet"
  <2> DEFINE s == item.bytes
             n == Len(s)
  <2>1. e = s /\ s \in Seq(Bytes) /\ Skipped(s) /\ n \in Nat /\ \A i \in 1..n : s[i] \in Bytes
    BY <1>6, MeaningParts, LenProperties, ElementOfSeq DEF Encoded
  <2> HIDE DEF s
  <2>2. CASE \E c \in Ignored : s = <<c>>
    <3>1. PICK c \in Ignored : s = <<c>>
      BY <2>2
    <3>2. \A i \in 1..Len(s) : s[i] # "esc"
      BY <3>1, Alphabet
    <3> QED
      BY <2>1, <3>2, CompleteWithoutEsc
  <2>3. CASE n = 3 /\ s[1] = "esc" /\ s[2] \in CharsetNames /\ s[3] \in Chars
    <3>1. s[2] # "[" /\ s[2] # "]" /\ s[2] # "esc" /\ s[3] # "esc"
      BY <2>3, Alphabet DEF CharsetNames
    <3>2. \A i \in 2..n : s[i] # "esc"
      BY <2>3, <3>1
    <3>3. Complete(s)
      BY <2>1, <2>3, <3>1, <3>2, CompleteEsc
    <3> QED
      BY <2>1, <3>3
  <2>4. CASE /\ n >= 3 /\ s[1] = "esc" /\ s[2] = "]" /\ Last(s) = "bel"
             /\ \A i \in 3..(n - 1) : s[i] \notin OscEnd
    <3>1. s[n] = "bel"
      BY <2>4 DEF Last
    <3>2. s[2] # "[" /\ s[2] \notin CharsetNames /\ s[2] # "esc"
      BY <2>4 DEF CharsetNames
    <3>3. \A i \in 2..n : s[i] # "esc"
      BY <2>1, <2>4, <3>1, <3>2 DEF OscEnd
    <3>4. \E j \in 3..n : s[j] \in OscEnd
      BY <2>1, <2>4, <3>1 DEF OscEnd
    <3> QED
      BY <2>1, <2>4, <3>2, <3>3, <3>4, CompleteEsc
  <2> QED
    BY <2>1, <2>2, <2>3, <2>4 DEF Skipped
<1> QED
  BY <1>1, <1>2, <1>3, <1>4, <1>5, <1>6, MeaningParts

-----------------------------------------------------------------------------
(* The echo of a key. *)

LEMMA KeyItems ==
    ASSUME NEW key \in EchoKeys
    PROVE  /\ Echoed(key) \in Seq(Meanings)
           /\ \A i \in 1..Len(Echoed(key)) :
                 /\ Echoed(key)[i].kind # "quiet"
                 /\ Echoed(key)[i].kind = "other" => Complete(Echoed(key)[i].bytes)
<1> DEFINE Fine(item) == /\ item \in Meanings /\ item.kind # "quiet"
                         /\ item.kind = "other" => Complete(item.bytes)
<1>1. \A c \in Chars : Fine(Char(c))
  BY DEF Char, Meanings
<1>2. \A c \in Controls \ {"esc"} : Fine(Control(c))
  BY DEF Control, Meanings
<1>3. \A q \in Seq(Nat \cup {Missing}) : \A c \in Chars \ Collected : Fine(Csi(FALSE, q, c))
  BY DEF Csi, Meanings
<1>4. Fine(Other(<<"esc", "O", "A">>))
  <2> DEFINE s == <<"esc", "O", "A">>
  <2>1. "esc" \in Bytes /\ "O" \in Bytes /\ "A" \in Bytes
    BY Alphabet
  <2>2. s \in Seq(Bytes) /\ Len(s) = 3 /\ s[1] = "esc" /\ s[2] = "O" /\ s[3] = "A"
    BY <2>1
  <2>3. "O" \notin CharsetNames
    BY DEF CharsetNames
  <2> HIDE DEF s
  <2>4. Complete(s)
    BY <2>2, <2>3, CompleteEsc
  <2>5. Other(s) \in Meanings /\ Other(s).kind = "other" /\ Other(s).bytes = s
    BY <2>2 DEF Other, Meanings
  <2> QED
    BY <2>4, <2>5 DEF s
<1> DEFINE Good(q) == q \in Seq(Meanings) /\ \A i \in 1..Len(q) : Fine(q[i])
<1>5. \A x : Fine(x) => Good(<<x>>)
  <2>1. ASSUME NEW x, Fine(x) PROVE Good(<<x>>)
    <3>1. x \in Meanings
      BY <2>1
    <3>2. <<x>> \in Seq(Meanings) /\ Len(<<x>>) = 1 /\ <<x>>[1] = x
      BY <3>1
    <3> HIDE DEF Fine
    <3> QED
      BY <2>1, <3>2
  <2> QED
    BY <2>1
<1>6. \A x, y : Fine(x) /\ Fine(y) => Good(<<x, y>>)
  <2>1. ASSUME NEW x, NEW y, Fine(x), Fine(y) PROVE Good(<<x, y>>)
    <3>1. x \in Meanings /\ y \in Meanings
      BY <2>1
    <3>2. <<x, y>> \in Seq(Meanings) /\ Len(<<x, y>>) = 2 /\ <<x, y>>[1] = x /\ <<x, y>>[2] = y
      BY <3>1
    <3> HIDE DEF Fine
    <3> QED
      BY <2>1, <3>2
  <2> QED
    BY <2>1
<1>7. \A x, y, z : Fine(x) /\ Fine(y) /\ Fine(z) => Good(<<x, y, z>>)
  <2>1. ASSUME NEW x, NEW y, NEW z, Fine(x), Fine(y), Fine(z) PROVE Good(<<x, y, z>>)
    <3>1. x \in Meanings /\ y \in Meanings /\ z \in Meanings
      BY <2>1
    <3>2. /\ <<x, y, z>> \in Seq(Meanings) /\ Len(<<x, y, z>>) = 3
          /\ <<x, y, z>>[1] = x /\ <<x, y, z>>[2] = y /\ <<x, y, z>>[3] = z
      BY <3>1
    <3> HIDE DEF Fine
    <3> QED
      BY <2>1, <3>2
  <2> QED
    BY <2>1
<1>8. Good(<<>>)
  OBVIOUS
<1> HIDE DEF Fine
<1>9. /\ "cr" \in Controls \ {"esc"} /\ "lf" \in Controls \ {"esc"} /\ "bs" \in Controls \ {"esc"}
      /\ "space" \in Chars /\ "A" \in Chars \ Collected /\ "~" \in Chars \ Collected
      /\ <<>> \in Seq(Nat \cup {Missing}) /\ <<3>> \in Seq(Nat \cup {Missing})
  <2>1. 3 \in Nat \cup {Missing}
    OBVIOUS
  <2>2. "A" \notin Collected /\ "~" \notin Collected
    BY DEF Collected, ParamBytes, Digits
  <2>3. "A" \in Chars /\ "~" \in Chars /\ "space" \in Chars
    BY CharsAssumption
  <2>4. "cr" \in Controls \ {"esc"} /\ "lf" \in Controls \ {"esc"} /\ "bs" \in Controls \ {"esc"}
    BY DEF Controls
  <2> QED
    BY <2>1, <2>2, <2>3, <2>4
<1> HIDE DEF Good
<1>10. Good(Echoed(key))
  <2>1. CASE key = "enter"
    <3>1. Echoed(key) = <<Control("cr"), Control("lf")>>
      BY <2>1 DEF Echoed
    <3> QED
      BY <1>2, <1>6, <1>9, <3>1, Zenon
  <2>2. CASE key = "backspace"
    <3>1. Echoed(key) = <<Control("bs"), Char("space"), Control("bs")>>
      BY <2>2 DEF Echoed
    <3> QED
      BY <1>1, <1>2, <1>7, <1>9, <3>1, Zenon
  <2>3. CASE key = "esc"
    BY <1>8, <2>3 DEF Echoed
  <2>4. CASE key = "up" /\ appCursorKeys
    <3>1. Echoed(key) = <<Other(<<"esc", "O", "A">>)>>
      BY <2>4 DEF Echoed
    <3> QED
      BY <1>4, <1>5, <3>1, Zenon
  <2>5. CASE key = "up" /\ ~appCursorKeys
    <3>1. Echoed(key) = <<Csi(FALSE, <<>>, "A")>>
      BY <2>5 DEF Echoed
    <3> QED
      BY <1>3, <1>5, <1>9, <3>1, Zenon
  <2>6. CASE key = "del"
    <3>1. Echoed(key) = <<Csi(FALSE, <<3>>, "~")>>
      BY <2>6 DEF Echoed
    <3> QED
      BY <1>3, <1>5, <1>9, <3>1, Zenon
  <2>7. CASE key \notin {"enter", "backspace", "esc", "up", "del"}
    <3>1. Echoed(key) = <<Char(key)>> /\ key \in Chars
      BY <2>7, EchoKeysAssumption DEF Echoed
    <3> QED
      BY <1>1, <1>5, <3>1, Zenon
  <2> QED
    BY <2>1, <2>2, <2>3, <2>4, <2>5, <2>6, <2>7, Zenon
<1> QED
  BY <1>10 DEF Good, Fine

\* Runs of bytes none of which cuts a sequence short, one after the other.
LEMMA FlattenComplete ==
    ASSUME NEW S, NEW q \in Seq(Seq(S)), \A i \in 1..Len(q) : Complete(q[i])
    PROVE  FlattenSeq(q) \in Seq(S) /\ Complete(FlattenSeq(q))
<1>1. PICK f : Sums(f, q, S)
  BY SumsExist
<1>2. FlattenSeq(q) = f[Len(q)] /\ Len(q) \in Nat /\ \A i \in 1..Len(q) : q[i] \in Seq(S)
  BY <1>1, FlattenSums, LenProperties, ElementOfSeq
<1>3. /\ f \in [0..Len(q) -> Seq(S)] /\ f[0] = <<>>
      /\ \A i \in 1..Len(q) : f[i] = f[i - 1] \o q[i]
  BY <1>1 DEF Sums
<1> DEFINE n == Len(q)
           Q == {i \in 0..n : Complete(f[i])}
<1>4. 0 \in Q
  <2>1. Complete(<<>>)
    BY DEF Complete
  <2> QED
    BY <1>2, <1>3, <2>1
<1>5. ASSUME NEW i \in 0..n, i < n, i \in Q PROVE i + 1 \in Q
  <2>1. i + 1 \in 1..n /\ (i + 1) - 1 = i /\ i + 1 \in 0..n
    BY <1>2, <1>5
  <2>2. f[i + 1] = f[i] \o q[i + 1] /\ f[i] \in Seq(S) /\ q[i + 1] \in Seq(S)
    BY <1>2, <1>3, <2>1
  <2>3. Complete(f[i]) /\ Complete(q[i + 1])
    BY <1>5, <2>1
  <2>4. Complete(f[i + 1])
    BY <2>2, <2>3, CompleteConcat
  <2> QED
    BY <2>1, <2>4
<1> HIDE DEF Q
<1>6. n \in Q
  <2>1. \A i \in 0..n : i \in Q
    BY <1>2, <1>4, <1>5, UpTo
  <2> QED
    BY <1>2, <2>1
<1> QED
  BY <1>2, <1>3, <1>6 DEF Q

\* The bytes of the echo.
EchoBytes(key) == FlattenSeq([i \in DOMAIN Echoed(key) |-> Encoded(Echoed(key)[i])])

LEMMA EchoBytesType ==
    ASSUME NEW key \in EchoKeys
    PROVE  EchoBytes(key) \in Seq(Bytes) /\ Complete(EchoBytes(key))
<1> DEFINE items == Echoed(key)
           q == [i \in DOMAIN items |-> Encoded(items[i])]
           n == Len(items)
<1>1. /\ items \in Seq(Meanings)
      /\ \A i \in 1..n : /\ items[i].kind # "quiet"
                         /\ items[i].kind = "other" => Complete(items[i].bytes)
  BY KeyItems
<1>2. n \in Nat /\ DOMAIN items = 1..n /\ \A i \in 1..n : items[i] \in Meanings
  BY <1>1, LenProperties, ElementOfSeq
<1>3. EchoBytes(key) = FlattenSeq(q)
  BY DEF EchoBytes
<1> HIDE DEF items, n
<1>4. \A i \in 1..n : Encoded(items[i]) \in Seq(Bytes) /\ Complete(Encoded(items[i]))
  <2>1. ASSUME NEW i \in 1..n PROVE Encoded(items[i]) \in Seq(Bytes) /\ Complete(Encoded(items[i]))
    BY <1>1, <1>2, EncodedType, EncodedComplete
  <2> QED
    BY <2>1
<1>5. q \in [1..n -> Seq(Bytes)] /\ \A i \in 1..n : Complete(q[i])
  BY <1>2, <1>4
<1> HIDE DEF q
<1>6. q \in Seq(Seq(Bytes)) /\ Len(q) = n
  BY <1>2, <1>5
<1> QED
  BY <1>3, <1>5, <1>6, FlattenComplete

-----------------------------------------------------------------------------
(* The invariant. *)

\* As long as no echo misled the parser, what it is in the middle of has its
\* end on the wire.
Expected ==
    /\ Complete(wire)
    /\ state = "esc" =>
          /\ wire # <<>>
          /\ wire[1] = "[" => \E j \in 2..Len(wire) : wire[j] \notin Collected
          /\ wire[1] = "]" => \E j \in 2..Len(wire) : wire[j] \in OscEnd
          /\ wire[1] \in CharsetNames => 2 <= Len(wire)
    /\ state = "charset" => wire # <<>>
    /\ state = "csi" => \E j \in 1..Len(wire) : wire[j] \notin Collected
    /\ state = "osc" => \E j \in 1..Len(wire) : wire[j] \in OscEnd

IInv == TypeOK /\ (~misled => Expected)

LEMMA InitOK == Init => IInv
<1> SUFFICES ASSUME Init PROVE IInv
  OBVIOUS
<1>1. DefaultPen \in Pens /\ [DefaultPen EXCEPT !.fg = 0] \in Pens
  <2>1. ASSUME NEW p \in Pens PROVE [p EXCEPT !.fg = 0] \in Pens
    <3>1. p = [fg |-> p.fg, bg |-> p.bg, bold |-> p.bold, underline |-> p.underline,
               reverse |-> p.reverse]
          /\ p.fg \in 0..15 /\ p.bg \in 0..15
          /\ p.bold \in BOOLEAN /\ p.underline \in BOOLEAN /\ p.reverse \in BOOLEAN
      BY DEF Pens
    <3> QED
      BY <3>1 DEF Pens
  <2> QED
    BY <2>1, DefaultPenType
<1>2. TypeOK
  <2>1. /\ wire \in Seq(Bytes) /\ echoing \in 0..Len(wire)
        /\ csiBuf \in Seq(ParamBytes) /\ Len(csiBuf) <= CsiBufLen - 1
        /\ sent \in Seq(Meanings)
    BY DEF Init
  <2>2. /\ csiPrivate \in BOOLEAN /\ appCursorKeys \in BOOLEAN /\ cursorVisible \in BOOLEAN
        /\ torn \in BOOLEAN /\ misled \in BOOLEAN
        /\ state \in {"normal", "esc", "charset", "csi", "osc"}
    BY Zenon DEF Init
  <2>3. pen \in Pens /\ savedPen \in Pens
    BY <1>1, Zenon DEF Init
  <2> QED
    BY <2>1, <2>2, <2>3, Zenon DEF TypeOK
<1>3. Complete(<<>>)
  BY DEF Complete
<1>4. Expected
  BY <1>3 DEF Init, Expected
<1> QED
  BY <1>2, <1>4 DEF IInv

\* What is left of the wire after a byte.
LEMMA Fed ==
    ASSUME TypeOK, NEW st, Takes(st)
    PROVE  /\ wire \in Seq(Bytes) /\ wire # <<>> /\ Len(wire) \in Nat \ {0}
           /\ wire' \in Seq(Bytes) /\ Len(wire') = Len(wire) - 1
           /\ \A i \in 1..Len(wire') : wire'[i] = wire[i + 1]
           /\ b = wire[1] /\ b \in Bytes
           /\ echoing' \in 0..Len(wire')
           /\ sent' \in Seq(Meanings) /\ torn' \in BOOLEAN /\ misled' = misled
           /\ state = st
           /\ Complete(wire) => Complete(wire')
<1>1. wire \in Seq(Bytes) /\ wire # <<>> /\ wire' = Tail(wire) /\ echoing \in 0..Len(wire)
      /\ sent \in Seq(Meanings) /\ torn \in BOOLEAN /\ misled' = misled /\ state = st
      /\ sent' = sent /\ torn' = torn
  BY DEF TypeOK, Takes
<1>2. /\ Tail(wire) \in Seq(Bytes) /\ Len(Tail(wire)) = Len(wire) - 1
      /\ \A i \in 1..Len(Tail(wire)) : Tail(wire)[i] = wire[i + 1]
      /\ Head(wire) \in Bytes /\ Len(wire) \in Nat \ {0}
  BY <1>1, HeadTailProperties, EmptySeq
<1>3. Head(wire) = wire[1]
  BY <1>1
<1>4. echoing' \in 0..Len(wire')
  BY <1>1, <1>2 DEF Takes
<1>5. Complete(wire) => Complete(Tail(wire))
  BY <1>1, CompleteTail
<1> QED
  BY <1>1, <1>2, <1>3, <1>4, <1>5 DEF b

\* Of the state, only what TypeOK says of it after an action remains to be shown
\* when a byte was fed.
LEMMA FedType ==
    ASSUME TypeOK, NEW st, Takes(st),
           state' \in {"normal", "esc", "charset", "csi", "osc"},
           csiBuf' \in Seq(ParamBytes), Len(csiBuf') <= CsiBufLen - 1, csiPrivate' \in BOOLEAN,
           pen' \in Pens, savedPen' \in Pens,
           appCursorKeys' \in BOOLEAN, cursorVisible' \in BOOLEAN
    PROVE  TypeOK'
<1>1. misled' \in BOOLEAN
  BY Zenon DEF Takes, TypeOK
<1> QED
  BY <1>1, Fed, Zenon DEF TypeOK

LEMMA NormalStep ==
    ASSUME IInv, NormalByte
    PROVE  IInv'
<1>1. TypeOK /\ Takes("normal") /\ (~misled => Expected)
  BY DEF IInv, NormalByte
<1>2. TypeOK'
  <2>1. state' \in {"normal", "esc", "charset", "csi", "osc"}
    BY DEF NormalByte
  <2> QED
    BY <1>1, <2>1, FedType, Zenon DEF NormalByte, TypeOK, penVars, modeVars
<1>3. ASSUME ~misled' PROVE Expected'
  <2>1. Expected /\ misled' = misled /\ state = "normal"
    BY <1>1, <1>3, Fed
  <2>2. Complete(wire')
    BY <1>1, <2>1, Fed DEF Expected
  <2>3. state' \in {"normal", "esc"} /\ (state' = "esc" => wire[1] = "esc")
    BY <1>1, Fed DEF NormalByte
  <2>4. ASSUME state' = "esc"
        PROVE  /\ wire' # <<>>
               /\ wire'[1] = "[" => \E j \in 2..Len(wire') : wire'[j] \notin Collected
               /\ wire'[1] = "]" => \E j \in 2..Len(wire') : wire'[j] \in OscEnd
               /\ wire'[1] \in CharsetNames => 2 <= Len(wire')
    <3> DEFINE w == wire
               u == wire'
    <3>1. /\ w \in Seq(Bytes) /\ Len(w) \in Nat \ {0} /\ u \in Seq(Bytes) /\ Len(u) = Len(w) - 1
          /\ \A i \in 1..Len(u) : u[i] = w[i + 1]
      BY <1>1, Fed
    <3>2. Ends(w, 1)
      <4>1. \A i \in 1..Len(w) : w[i] = "esc" => Ends(w, i)
        BY <2>1, <3>1, CompleteIs DEF Expected
      <4>2. 1 \in 1..Len(w)
        BY <3>1
      <4> QED
        BY <2>3, <2>4, <4>1, <4>2
    <3> HIDE DEF w, u
    <3>e. /\ 1 < Len(w)
          /\ w[2] = "[" => \E j \in 3..Len(w) : w[j] \notin Collected
          /\ w[2] = "]" => \E j \in 3..Len(w) : w[j] \in OscEnd
          /\ w[2] \in CharsetNames => 3 <= Len(w)
      <4>1. 1 + 1 = 2 /\ 1 + 2 = 3
        OBVIOUS
      <4> QED
        BY <3>2, <4>1, Zenon DEF Ends
    <3>3. Len(u) >= 1 /\ u[1] = w[2]
      BY <3>1, <3>e
    <3>4. \A j \in 3..Len(w) : j - 1 \in 2..Len(u) /\ u[j - 1] = w[j]
      BY <3>1
    <3>5. u[1] = "[" => \E j \in 2..Len(u) : u[j] \notin Collected
      <4>1. SUFFICES ASSUME u[1] = "[" PROVE \E j \in 2..Len(u) : u[j] \notin Collected
        OBVIOUS
      <4>2. PICK j \in 3..Len(w) : w[j] \notin Collected
        BY <3>e, <3>3, <4>1
      <4> QED
        BY <3>4, <4>2
    <3>6. u[1] = "]" => \E j \in 2..Len(u) : u[j] \in OscEnd
      <4>1. SUFFICES ASSUME u[1] = "]" PROVE \E j \in 2..Len(u) : u[j] \in OscEnd
        OBVIOUS
      <4>2. PICK j \in 3..Len(w) : w[j] \in OscEnd
        BY <3>e, <3>3, <4>1
      <4> QED
        BY <3>4, <4>2
    <3>7. u[1] \in CharsetNames => 2 <= Len(u)
      BY <3>1, <3>e, <3>3
    <3>8. u # <<>>
      BY <3>3
    <3> QED
      BY <3>5, <3>6, <3>7, <3>8 DEF u
  <2> QED
    BY <2>2, <2>3, <2>4, Zenon DEF Expected
<1> QED
  BY <1>2, <1>3 DEF IInv

LEMMA EscStep ==
    ASSUME IInv, EscByte
    PROVE  IInv'
<1>1. TypeOK /\ Takes("esc") /\ (~misled => Expected)
  BY DEF IInv, EscByte
<1>2. TypeOK'
  <2>1. state' \in {"normal", "esc", "charset", "csi", "osc"}
    BY DEF EscByte, AfterEsc
  <2>2. csiBuf' \in Seq(ParamBytes) /\ Len(csiBuf') <= CsiBufLen - 1
    <3>1. csiBuf \in Seq(ParamBytes) /\ Len(csiBuf) <= CsiBufLen - 1
      BY <1>1 DEF TypeOK
    <3>2. csiBuf' = <<>> \/ csiBuf' = csiBuf
      BY DEF EscByte
    <3>3. <<>> \in Seq(ParamBytes) /\ Len(<<>>) <= CsiBufLen - 1
      OBVIOUS
    <3> QED
      BY <3>1, <3>2, <3>3, Zenon
  <2>3. csiPrivate' \in BOOLEAN /\ appCursorKeys' \in BOOLEAN /\ cursorVisible' \in BOOLEAN
    BY <1>1, Zenon DEF EscByte, TypeOK, modeVars
  <2>4. pen' \in Pens /\ savedPen' \in Pens
    BY <1>1, DefaultPenType, Zenon DEF EscByte, TypeOK
  <2> QED
    BY <1>1, <2>1, <2>2, <2>3, <2>4, FedType
<1>3. ASSUME ~misled' PROVE Expected'
  <2> DEFINE w == wire
             u == wire'
  <2>1. Expected /\ state = "esc" /\ Complete(u) /\ state' = AfterEsc(w[1])
    <3>1. Expected /\ state = "esc" /\ b = w[1]
      BY <1>1, <1>3, Fed
    <3> QED
      BY <1>1, <3>1, Fed DEF Expected, EscByte
  <2>2. /\ w[1] = "[" => \E j \in 2..Len(w) : w[j] \notin Collected
        /\ w[1] = "]" => \E j \in 2..Len(w) : w[j] \in OscEnd
        /\ w[1] \in CharsetNames => 2 <= Len(w)
    BY <2>1 DEF Expected
  <2>3. /\ Len(w) \in Nat \ {0} /\ Len(u) = Len(w) - 1
        /\ \A i \in 1..Len(u) : u[i] = w[i + 1]
    BY <1>1, Fed
  <2> HIDE DEF w, u
  <2>4. \A j \in 2..Len(w) : j - 1 \in 1..Len(u) /\ u[j - 1] = w[j]
    BY <2>3
  <2>5. /\ state' # "esc"
        /\ state' = "csi" => w[1] = "["
        /\ state' = "osc" => w[1] = "]"
        /\ state' = "charset" => w[1] \in CharsetNames
    BY <2>1 DEF AfterEsc
  <2>6. state' = "csi" => \E j \in 1..Len(u) : u[j] \notin Collected
    BY <2>2, <2>4, <2>5
  <2>7. state' = "osc" => \E j \in 1..Len(u) : u[j] \in OscEnd
    BY <2>2, <2>4, <2>5
  <2>8. state' = "charset" => u # <<>>
    BY <2>2, <2>3, <2>5
  <2> QED
    BY <2>1, <2>5, <2>6, <2>7, <2>8 DEF Expected, u
<1> QED
  BY <1>2, <1>3 DEF IInv

LEMMA CharsetStep ==
    ASSUME IInv, CharsetByte
    PROVE  IInv'
<1>1. TypeOK /\ Takes("charset") /\ (~misled => Expected)
  BY DEF IInv, CharsetByte
<1>2. TypeOK'
  <2>1. state' \in {"normal", "esc", "charset", "csi", "osc"}
    BY DEF CharsetByte
  <2> QED
    BY <1>1, <2>1, FedType, Zenon DEF CharsetByte, TypeOK, penVars, modeVars
<1>3. ASSUME ~misled' PROVE Expected'
  <2>1. Complete(wire') /\ state' = "normal"
    BY <1>1, <1>3, Fed DEF CharsetByte, Expected
  <2> QED
    BY <2>1 DEF Expected
<1> QED
  BY <1>2, <1>3 DEF IInv

\* A byte that does not end ESC [ leaves one that does on the wire.
LEMMA CsiGoesOn ==
    ASSUME TypeOK, ~misled => Expected, Takes("csi"), b \in Collected, state' = state
    PROVE  ~misled' => Expected'
<1>1. SUFFICES ASSUME ~misled' PROVE Expected'
  OBVIOUS
<1> DEFINE w == wire
           u == wire'
<1>2. Expected /\ state = "csi" /\ Complete(u) /\ w[1] \in Collected
  <2>1. Expected
    BY <1>1, Fed
  <2> QED
    BY <2>1, Fed DEF Expected
<1>3. \E j \in 1..Len(w) : w[j] \notin Collected
  BY <1>2 DEF Expected
<1>4. /\ Len(w) \in Nat \ {0} /\ Len(u) = Len(w) - 1 /\ \A i \in 1..Len(u) : u[i] = w[i + 1]
  BY Fed
<1> HIDE DEF w, u
<1>5. \E j \in 1..Len(u) : u[j] \notin Collected
  <2>1. PICK j \in 1..Len(w) : w[j] \notin Collected
    BY <1>3
  <2>2. j # 1
    BY <1>2, <2>1
  <2>3. j - 1 \in 1..Len(u) /\ u[j - 1] = w[j]
    BY <1>4, <2>2
  <2> QED
    BY <2>1, <2>3
<1> QED
  BY <1>2, <1>5 DEF Expected, u

LEMMA CsiPrivateStep ==
    ASSUME IInv, CsiPrivateByte
    PROVE  IInv'
<1>1. TypeOK /\ Takes("csi") /\ (~misled => Expected) /\ b \in Collected /\ state' = state
  BY DEF IInv, CsiPrivateByte, Collected
<1>2. TypeOK'
  <2>1. csiPrivate' \in BOOLEAN
    BY Zenon DEF CsiPrivateByte
  <2> QED
    BY <1>1, <2>1, FedType, Zenon DEF CsiPrivateByte, TypeOK, penVars, modeVars
<1> QED
  BY <1>1, <1>2, CsiGoesOn DEF IInv

LEMMA CsiParamStep ==
    ASSUME IInv, CsiParamByte
    PROVE  IInv'
<1>1. /\ TypeOK /\ Takes("csi") /\ (~misled => Expected) /\ b \in Collected /\ state' = state
      /\ b \in ParamBytes
  BY Alphabet DEF IInv, CsiParamByte
<1>2. TypeOK'
  <2>1. csiBuf' \in Seq(ParamBytes) /\ Len(csiBuf') <= CsiBufLen - 1
    <3>1. csiBuf \in Seq(ParamBytes) /\ Len(csiBuf) <= CsiBufLen - 1
      BY <1>1 DEF TypeOK
    <3>2. /\ Append(csiBuf, b) \in Seq(ParamBytes) /\ Len(Append(csiBuf, b)) = Len(csiBuf) + 1
          /\ Len(csiBuf) \in Nat
      BY <1>1, <3>1, AppendProperties, LenProperties
    <3> QED
      BY <3>1, <3>2 DEF CsiParamByte, Collect
  <2> QED
    BY <1>1, <2>1, FedType, Zenon DEF CsiParamByte, TypeOK, penVars, modeVars
<1> QED
  BY <1>1, <1>2, CsiGoesOn DEF IInv

LEMMA ModeAfterType ==
    ASSUME NEW value \in BOOLEAN, NEW mode, NEW params, NEW final
    PROVE  ModeAfter(mode, value, params, final) \in BOOLEAN
BY Zenon DEF ModeAfter

LEMMA CsiFinalStep ==
    ASSUME IInv, CsiFinalByte
    PROVE  IInv'
<1>1. TypeOK /\ Takes("csi") /\ (~misled => Expected) /\ state' = "normal"
  BY DEF IInv, CsiFinalByte
<1>2. TypeOK'
  <2> DEFINE params == ParseParams(csiBuf)
  <2>1. csiBuf \in Seq(ParamBytes) /\ pen \in Pens /\ appCursorKeys \in BOOLEAN
        /\ cursorVisible \in BOOLEAN
    BY <1>1 DEF TypeOK
  <2>2. params \in Seq(Int)
    BY <2>1, ParseType
  <2>3. /\ pen' = IF ~csiPrivate /\ b = "m" THEN ApplySgr(params) ELSE pen
        /\ IF csiPrivate
           THEN /\ appCursorKeys' = ModeAfter(1, appCursorKeys, params, b)
                /\ cursorVisible' = ModeAfter(25, cursorVisible, params, b)
           ELSE UNCHANGED modeVars
    BY DEF CsiFinalByte
  <2> HIDE DEF params
  <2>4. pen' \in Pens
    <3>1. ApplySgr(params) \in Pens
      BY <2>1, <2>2, ApplySgrType
    <3> QED
      BY <2>1, <2>3, <3>1, Zenon
  <2>5. appCursorKeys' \in BOOLEAN /\ cursorVisible' \in BOOLEAN
    BY <2>1, <2>3, ModeAfterType, Zenon DEF modeVars
  <2>6. state' \in {"normal", "esc", "charset", "csi", "osc"}
    BY <1>1
  <2> QED
    BY <1>1, <2>4, <2>5, <2>6, FedType, Zenon DEF CsiFinalByte, TypeOK
<1>3. ASSUME ~misled' PROVE Expected'
  <2>1. Complete(wire') /\ state' = "normal"
    BY <1>1, <1>3, Fed DEF Expected
  <2> QED
    BY <2>1 DEF Expected
<1> QED
  BY <1>2, <1>3 DEF IInv

LEMMA OscStep ==
    ASSUME IInv, OscByte
    PROVE  IInv'
<1>1. TypeOK /\ Takes("osc") /\ (~misled => Expected)
  BY DEF IInv, OscByte
<1>2. TypeOK'
  <2>1. state' \in {"normal", "esc", "charset", "csi", "osc"}
    BY DEF OscByte
  <2> QED
    BY <1>1, <2>1, FedType, Zenon DEF OscByte, TypeOK, penVars, modeVars
<1>3. ASSUME ~misled' PROVE Expected'
  <2> DEFINE w == wire
             u == wire'
  <2>1. Expected /\ state = "osc" /\ Complete(u)
    <3>1. Expected
      BY <1>1, <1>3, Fed
    <3> QED
      BY <1>1, <3>1, Fed DEF Expected
  <2>2. /\ Len(w) \in Nat \ {0} /\ Len(u) = Len(w) - 1
        /\ \A i \in 1..Len(u) : u[i] = w[i + 1]
    BY <1>1, Fed
  <2>3. \E j \in 1..Len(w) : w[j] \in OscEnd
    BY <2>1 DEF Expected
  <2>4. state' = IF w[1] \in OscEnd THEN "normal" ELSE "osc"
    BY <1>1, Fed DEF OscByte, OscEnds
  <2> HIDE DEF w, u
  <2>5. state' = "osc" => \E j \in 1..Len(u) : u[j] \in OscEnd
    <3>1. SUFFICES ASSUME state' = "osc" PROVE \E j \in 1..Len(u) : u[j] \in OscEnd
      OBVIOUS
    <3>2. PICK j \in 1..Len(w) : w[j] \in OscEnd
      BY <2>3
    <3>3. j # 1
      BY <2>4, <3>1, <3>2
    <3>4. j - 1 \in 1..Len(u) /\ u[j - 1] = w[j]
      BY <2>2, <3>3
    <3> QED
      BY <3>2, <3>4
  <2>6. state' \in {"normal", "osc"}
    BY <2>4
  <2> QED
    BY <2>1, <2>5, <2>6 DEF Expected, u
<1> QED
  BY <1>2, <1>3 DEF IInv

LEMMA RemoteStep ==
    ASSUME IInv, NEW item \in Items, RemoteSends(item)
    PROVE  IInv'
<1>1. TypeOK /\ (~misled => Expected) /\ wire = <<>>
  BY DEF IInv, RemoteSends
<1>2. /\ item \in Meanings
      /\ item.kind = "quiet" => Skipped(item.bytes)
      /\ item.kind = "other" => Complete(item.bytes)
  BY ItemsAssumption
<1>3. Encoded(item) \in Seq(Bytes) /\ Complete(Encoded(item))
  BY <1>2, EncodedType, EncodedComplete
<1>4. TypeOK'
  <2>1. echoing = 0
    BY <1>1 DEF TypeOK
  <2>2. wire' \in Seq(Bytes) /\ echoing' \in 0..Len(wire')
    <3>1. Len(Encoded(item)) \in Nat
      BY <1>3, LenProperties
    <3> QED
      BY <1>3, <2>1, <3>1 DEF RemoteSends
  <2>3. sent' \in Seq(Meanings)
    BY <1>1, <1>2, AppendProperties DEF RemoteSends, TypeOK
  <2> QED
    BY <1>1, <2>2, <2>3, Zenon DEF RemoteSends, TypeOK, parserVars, penVars, modeVars
<1>5. ASSUME ~misled' PROVE Expected'
  <2>1. Expected /\ state' = state /\ wire' = Encoded(item)
    BY <1>1, <1>5 DEF RemoteSends, parserVars
  <2>2. state = "normal"
    <3>1. Len(wire) = 0
      BY <1>1
    <3> QED
      BY <1>1, <2>1, <3>1 DEF Expected, TypeOK
  <2> QED
    BY <1>3, <2>1, <2>2 DEF Expected
<1> QED
  BY <1>4, <1>5 DEF IInv

\* The echo goes in front of what is still expected, and hides none of it.
LEMMA EchoStep ==
    ASSUME IInv, NEW key \in EchoKeys, Echo(key)
    PROVE  IInv'
<1> DEFINE a == EchoBytes(key)
           w == wire
           u == wire'
           n == Len(a)
<1>1. TypeOK /\ (~misled => Expected)
  BY DEF IInv
<1>2. a \in Seq(Bytes) /\ Complete(a) /\ Echoed(key) \in Seq(Meanings)
  BY EchoBytesType, KeyItems
<1>3. /\ sent' = sent \o Echoed(key) /\ u = a \o w /\ echoing' = n
      /\ torn' = (torn \/ (w # <<>> /\ a # <<>>))
      /\ misled' = (misled \/ (state = "esc" /\ a # <<>> /\ Introduces(Head(a))))
      /\ UNCHANGED <<parserVars, penVars, modeVars, ops>>
  BY Zenon DEF Echo, EchoBytes
<1>4. w \in Seq(Bytes) /\ sent \in Seq(Meanings)
  BY <1>1 DEF TypeOK
<1>5. /\ u \in Seq(Bytes) /\ Len(u) = n + Len(w) /\ n \in Nat /\ Len(w) \in Nat
      /\ \A i \in 1..n : u[i] = a[i]
      /\ \A i \in 1..Len(w) : u[n + i] = w[i]
  BY <1>2, <1>3, <1>4, ConcatProperties, ConcatIndices
<1> HIDE DEF a, n, w, u
<1>6. TypeOK'
  <2>1. echoing' \in 0..Len(u)
    BY <1>3, <1>5
  <2>2. sent' \in Seq(Meanings)
    BY <1>2, <1>3, <1>4, ConcatProperties
  <2>3. torn' \in BOOLEAN /\ misled' \in BOOLEAN
    BY <1>3, Zenon
  <2>4. UNCHANGED <<state, csiBuf, csiPrivate, pen, savedPen, appCursorKeys, cursorVisible>>
    BY <1>3 DEF parserVars, penVars, modeVars
  <2> QED
    BY <1>1, <1>5, <2>1, <2>2, <2>3, <2>4, Zenon DEF TypeOK, u
<1>7. ASSUME ~misled' PROVE Expected'
  <2>1. Expected /\ state' = state /\ ~(state = "esc" /\ a # <<>> /\ Introduces(Head(a)))
    BY <1>1, <1>3, <1>7 DEF parserVars
  <2>2. Complete(u)
    <3>1. Complete(w)
      BY <2>1 DEF Expected, w
    <3> QED
      BY <1>2, <1>3, <1>4, <3>1, CompleteConcat
  <2>3. w # <<>> => u # <<>> /\ Len(u) >= 1
    BY <1>4, <1>5, EmptySeq
  <2>4. state = "csi" => \E j \in 1..Len(u) : u[j] \notin Collected
    <3>1. SUFFICES ASSUME state = "csi" PROVE \E j \in 1..Len(u) : u[j] \notin Collected
      OBVIOUS
    <3>2. PICK j \in 1..Len(w) : w[j] \notin Collected
      BY <2>1, <3>1 DEF Expected, w
    <3>3. n + j \in 1..Len(u) /\ u[n + j] = w[j]
      BY <1>5
    <3> QED
      BY <3>2, <3>3
  <2>5. state = "osc" => \E j \in 1..Len(u) : u[j] \in OscEnd
    <3>1. SUFFICES ASSUME state = "osc" PROVE \E j \in 1..Len(u) : u[j] \in OscEnd
      OBVIOUS
    <3>2. PICK j \in 1..Len(w) : w[j] \in OscEnd
      BY <2>1, <3>1 DEF Expected, w
    <3>3. n + j \in 1..Len(u) /\ u[n + j] = w[j]
      BY <1>5
    <3> QED
      BY <3>2, <3>3
  <2>6. state = "charset" => u # <<>>
    BY <2>1, <2>3 DEF Expected, w
  <2>7. ASSUME state = "esc"
        PROVE  /\ u # <<>>
               /\ u[1] = "[" => \E j \in 2..Len(u) : u[j] \notin Collected
               /\ u[1] = "]" => \E j \in 2..Len(u) : u[j] \in OscEnd
               /\ u[1] \in CharsetNames => 2 <= Len(u)
    <3>1. u # <<>>
      BY <2>1, <2>3, <2>7 DEF Expected, w
    <3>2. CASE a = <<>>
      <4>1. u = w
        BY <1>3, <1>4, <3>2, ConcatEmptySeq
      <4> QED
        BY <2>1, <2>7, <4>1 DEF Expected, w
    <3>3. CASE a # <<>>
      <4>1. u[1] = Head(a)
        <5>1. Head(a) = a[1] /\ n \in Nat \ {0}
          BY <1>2, <3>3, EmptySeq DEF n
        <5> QED
          BY <1>5, <5>1
      <4>2. u[1] # "[" /\ u[1] # "]" /\ u[1] \notin CharsetNames
        BY <2>1, <2>7, <3>3, <4>1 DEF Introduces
      <4> QED
        BY <3>1, <4>2
    <3> QED
      BY <3>2, <3>3
  <2> QED
    BY <2>1, <2>2, <2>4, <2>5, <2>6, <2>7, Zenon DEF Expected, u
<1> QED
  BY <1>6, <1>7 DEF IInv

LEMMA Kept == IInv /\ [Next]_vars => IInv'
<1> SUFFICES ASSUME IInv, [Next]_vars PROVE IInv'
  OBVIOUS
<1>1. ASSUME NEW item \in Items, RemoteSends(item) PROVE IInv'
  BY <1>1, RemoteStep
<1>2. ASSUME NEW key \in EchoKeys, Echo(key) PROVE IInv'
  BY <1>2, EchoStep
<1>3. CASE Feed
  BY <1>3, NormalStep, EscStep, CharsetStep, CsiPrivateStep, CsiParamStep, CsiFinalStep, OscStep
     DEF Feed
<1>4. CASE UNCHANGED vars
  BY <1>4 DEF vars, parserVars, penVars, modeVars, IInv, TypeOK, Expected
<1>5. RemoteSilent => UNCHANGED vars
  BY DEF RemoteSilent
<1> QED
  BY <1>1, <1>2, <1>3, <1>4, <1>5 DEF Next

LEMMA AlwaysIInv == Spec => []IInv
BY InitOK, Kept, PTL DEF Spec

-----------------------------------------------------------------------------
(* Types, and the way back to the normal state. *)

\* The bytes that csi_buf collects are digits and semicolons and leave room for
\* the terminator, the parameters are read as numbers whatever was collected,
\* and the pen keeps to the sixteen colours, whatever the remote sends and
\* wherever the stream is cut (terminal.c:304-390, 475-565).
THEOREM ParserTypeCorrect == Spec => []TypeOK
<1>1. IInv => TypeOK
  BY DEF IInv
<1> QED
  BY <1>1, AlwaysIInv, PTL

\* Whatever items are sent, known or not, and wherever echoes cut into them, the
\* parser is back in its normal state when the last byte has been fed, unless
\* an echoed key right after an ESC began a sequence of its own.
THEOREM ParserResyncs == Spec => []Resynced
<1>1. IInv => Resynced
  <2>1. SUFFICES ASSUME IInv, wire = <<>>, ~misled PROVE state = "normal"
    BY DEF Resynced
  <2>2. TypeOK /\ Expected /\ Len(wire) = 0
    BY <2>1 DEF IInv
  <2> QED
    BY <2>1, <2>2 DEF TypeOK, Expected
<1> QED
  BY <1>1, AlwaysIInv, PTL

-----------------------------------------------------------------------------
(* Parameters are read as they were meant. *)

\* How far the digits from i on go.
EndOf(buf, i, e) ==
    /\ e \in i..(Len(buf) + 1)
    /\ \A j \in i..(e - 1) : buf[j] # "semicolon"
    /\ e <= Len(buf) => buf[e] = "semicolon"

LEMMA EndExists ==
    ASSUME NEW buf \in Seq(ParamBytes), NEW i \in 1..Len(buf)
    PROVE  \E e \in Int : EndOf(buf, i, e)
<1> DEFINE ends == {j \in i..Len(buf) : buf[j] = "semicolon"}
<1>1. Len(buf) \in Nat
  BY LenProperties
<1>2. CASE ends = {}
  <2>1. EndOf(buf, i, Len(buf) + 1)
    BY <1>1, <1>2 DEF EndOf
  <2> QED
    BY <1>1, <2>1
<1>3. CASE ends # {}
  <2>1. ends \in SUBSET Nat
    BY <1>1
  <2>2. PICK e \in ends : \A j \in ends : e <= j
    <3> HIDE DEF ends
    <3> QED
      BY <1>3, <2>1, FirstExists
  <2>3. e \in i..Len(buf) /\ buf[e] = "semicolon"
    OBVIOUS
  <2>4. ASSUME NEW j \in i..(e - 1) PROVE buf[j] # "semicolon"
    <3>1. j \in i..Len(buf) /\ ~(e <= j)
      BY <1>1, <2>3
    <3>2. j \notin ends
      BY <2>2, <3>1
    <3> QED
      BY <3>1, <3>2
  <2>5. EndOf(buf, i, e)
    BY <1>1, <2>3, <2>4 DEF EndOf
  <2> QED
    BY <1>1, <2>3, <2>5
<1> QED
  BY <1>2, <1>3

LEMMA DigitsTo ==
    ASSUME NEW buf, Len(buf) \in Nat, NEW i \in 1..Len(buf), NEW e \in Int, EndOf(buf, i, e)
    PROVE  DigitsAt(buf, i) = SubSeq(buf, i, e - 1)
<1> DEFINE ends == {j \in i..Len(buf) : buf[j] = "semicolon"}
           First(c) == c \in ends /\ \A k \in ends : c <= k
           end == IF ends = {} THEN Len(buf) + 1 ELSE CHOOSE j \in ends : \A k \in ends : j <= k
<1>1. DigitsAt(buf, i) = SubSeq(buf, i, end - 1)
  BY DEF DigitsAt
<1>2. \A k \in ends : e <= k /\ e <= Len(buf)
  BY DEF EndOf
<1>3. e <= Len(buf) => e \in ends
  BY DEF EndOf
<1>4. e \in i..(Len(buf) + 1) /\ ends \in SUBSET Nat
  BY DEF EndOf
<1>5. CASE ends = {}
  BY <1>1, <1>3, <1>4, <1>5
<1>6. CASE ends # {}
  <2> HIDE DEF ends
  <2>1. e \in ends
    BY <1>2, <1>3, <1>6
  <2>2. end = CHOOSE j \in ends : \A k \in ends : j <= k
    BY <1>6
  <2>3. \E j \in ends : \A k \in ends : j <= k
    BY <1>2, <2>1
  <2> HIDE DEF end
  <2>4. end \in ends /\ \A k \in ends : end <= k
    BY <2>2, <2>3
  <2>5. end = e
    BY <1>2, <1>4, <2>1, <2>4
  <2> QED
    BY <1>1, <2>5 DEF end
<1> QED
  BY <1>5, <1>6

Fields(buf) == FlattenSeq(FieldsAt(buf))

\* A run of digits after a semicolon, ended by another or by the end of the
\* buffer, is one more parameter.
LEMMA FieldMore ==
    ASSUME NEW B \in Seq(ParamBytes), B # <<>> => B[Len(B)] = "semicolon",
           NEW D \in Seq(Digits), NEW E \in {<<>>, <<"semicolon">>}, D # <<>> \/ E # <<>>
    PROVE  Fields(B \o (D \o E)) = Fields(B) \o <<IF D = <<>> THEN Missing ELSE Number(D)>>
<1> DEFINE u == B \o (D \o E)
           n == Len(B)
           k == Len(D)
           h == Len(E)
           v == IF D = <<>> THEN Missing ELSE Number(D)
           Z == [j \in 1..(k + h - 1) |-> <<>>]
<1>1. /\ n \in Nat /\ k \in Nat /\ h \in 0..1 /\ k + h >= 1
      /\ k = 0 <=> D = <<>>
      /\ n = 0 <=> B = <<>>
      /\ h = 1 => E[1] = "semicolon"
      /\ \A j \in 1..k : D[j] \in Digits
      /\ E \in Seq(ParamBytes) /\ D \in Seq(ParamBytes)
  <2>1. <<"semicolon">> \in Seq(ParamBytes) /\ <<>> \in Seq(ParamBytes)
    BY DEF ParamBytes
  <2>2. E \in Seq(ParamBytes) /\ h \in 0..1 /\ (h = 1 => E[1] = "semicolon") /\ (h = 0 => E = <<>>)
    <3>1. CASE E = <<>>
      BY <2>1, <3>1
    <3>2. CASE E = <<"semicolon">>
      BY <2>1, <3>2
    <3> QED
      BY <3>1, <3>2
  <2>3. D \in Seq(ParamBytes)
    BY Alphabet, SeqMonotone
  <2>4. n \in Nat /\ k \in Nat /\ (k = 0 <=> D = <<>>) /\ (n = 0 <=> B = <<>>)
    BY LenProperties, EmptySeq
  <2> QED
    BY <2>2, <2>3, <2>4, ElementOfSeq
<1>l. n = Len(B) /\ k = Len(D) /\ h = Len(E)
  OBVIOUS
<1> HIDE DEF n, k, h, Z, v
<1>2. /\ u \in Seq(ParamBytes) /\ Len(u) = n + (k + h)
      /\ \A i \in 1..n : u[i] = B[i]
      /\ \A j \in 1..k : u[n + j] = D[j]
      /\ h = 1 => u[n + (k + 1)] = "semicolon"
  <2> DEFINE w == D \o E
  <2>1. /\ w \in Seq(ParamBytes) /\ Len(w) = k + h
        /\ \A j \in 1..k : w[j] = D[j]
        /\ h = 1 => w[k + 1] = "semicolon"
    <3>1. w \in Seq(ParamBytes) /\ Len(w) = k + h
      BY <1>1, <1>l, ConcatProperties
    <3>2. (\A j \in 1..k : w[j] = D[j]) /\ (\A j \in 1..h : w[k + j] = E[j])
      BY <1>1, <1>l, ConcatIndices
    <3> HIDE DEF w
    <3> QED
      BY <1>1, <3>1, <3>2
  <2>2. u = B \o w
    OBVIOUS
  <2> HIDE DEF u, w
  <2>3. u \in Seq(ParamBytes) /\ Len(u) = n + (k + h)
    <3>1. B \o w \in Seq(ParamBytes) /\ Len(B \o w) = Len(B) + Len(w)
      BY <2>1, ConcatProperties
    <3> QED
      BY <1>l, <2>1, <2>2, <3>1
  <2>4. (\A i \in 1..n : u[i] = B[i]) /\ (\A j \in 1..(k + h) : u[n + j] = w[j])
    BY <1>l, <2>1, <2>2, ConcatIndices
  <2>5. \A i \in 1..n : u[i] = B[i]
    BY <2>4
  <2>6. \A j \in 1..k : u[n + j] = D[j]
    <3>1. \A j \in 1..k : j \in 1..(k + h)
      BY <1>1
    <3> QED
      BY <2>1, <2>4, <3>1
  <2>7. h = 1 => u[n + (k + 1)] = "semicolon"
    <3>1. h = 1 => k + 1 \in 1..(k + h)
      BY <1>1
    <3> QED
      BY <2>1, <2>4, <3>1
  <2> QED
    BY <2>3, <2>5, <2>6, <2>7
<1> HIDE DEF u
<1>d. DOMAIN u = 1..(n + (k + h)) /\ DOMAIN B = 1..n /\ n + 1 \in 1..(n + (k + h))
  BY <1>1, <1>2, <1>l, LenProperties
<1>3. ASSUME NEW i \in 1..n PROVE FieldsAt(u)[i] = FieldsAt(B)[i]
  <2>1. i \in 1..Len(u) /\ i \in 1..n /\ u[i] = B[i] /\ (i > 1 => u[i - 1] = B[i - 1])
    <3>1. i > 1 => i - 1 \in 1..n
      BY <1>1
    <3> QED
      BY <1>1, <1>2, <3>1
  <2>2. B[i] # "semicolon" => DigitsAt(u, i) = DigitsAt(B, i)
    <3>1. PICK e \in Int : EndOf(B, i, e)
      BY <1>l, EndExists
    <3>2. e \in i..n /\ B[e] = "semicolon" /\ \A j \in i..(e - 1) : B[j] # "semicolon"
      <4>1. B[n] = "semicolon"
        BY <1>1, <1>l
      <4>2. e # n + 1
        BY <1>1, <1>l, <3>1, <4>1 DEF EndOf
      <4> QED
        BY <1>1, <1>l, <3>1, <4>2 DEF EndOf
    <3>3. EndOf(u, i, e)
      <4>1. \A j \in i..(e - 1) : u[j] = B[j]
        BY <1>1, <1>2, <3>2
      <4>2. u[e] = B[e] /\ e <= Len(u)
        BY <1>1, <1>2, <3>2
      <4> QED
        BY <1>1, <1>2, <3>2, <4>1, <4>2, SMTT(40) DEF EndOf
    <3>4. DigitsAt(B, i) = SubSeq(B, i, e - 1) /\ DigitsAt(u, i) = SubSeq(u, i, e - 1)
      <4>1. Len(u) \in Nat /\ Len(B) \in Nat /\ i \in 1..Len(B)
        BY <1>1, <1>2, <1>l
      <4> QED
        BY <2>1, <3>1, <3>3, <4>1, DigitsTo
    <3>5. SubSeq(u, i, e - 1) = SubSeq(B, i, e - 1)
      <4>1. \A j \in i..(e - 1) : u[j] = B[j] /\ B[j] \in ParamBytes /\ u[j] \in ParamBytes
        <5>1. ASSUME NEW j \in i..(e - 1) PROVE j \in 1..n /\ j \in 1..Len(u)
          BY <1>1, <1>2, <3>2
        <5>2. \A j \in 1..n : B[j] \in ParamBytes
          BY <1>l, ElementOfSeq
        <5> QED
          BY <1>2, <5>1, <5>2
      <4>2. i \in Int /\ e - 1 \in Int
        OBVIOUS
      <4>3. /\ SubSeq(B, i, e - 1) \in Seq(ParamBytes)
            /\ Len(SubSeq(B, i, e - 1)) = IF i <= e - 1 THEN (e - 1) - i + 1 ELSE 0
            /\ \A j \in 1..((e - 1) - i + 1) : SubSeq(B, i, e - 1)[j] = B[i + j - 1]
        BY <4>1, <4>2, SubSeqProperties
      <4>4. /\ SubSeq(u, i, e - 1) \in Seq(ParamBytes)
            /\ Len(SubSeq(u, i, e - 1)) = IF i <= e - 1 THEN (e - 1) - i + 1 ELSE 0
            /\ \A j \in 1..((e - 1) - i + 1) : SubSeq(u, i, e - 1)[j] = u[i + j - 1]
        BY <4>1, <4>2, SubSeqProperties
      <4> DEFINE x == SubSeq(B, i, e - 1)
                 y == SubSeq(u, i, e - 1)
      <4>5. Len(x) = Len(y) /\ \A j \in 1..Len(x) : x[j] = y[j]
        <5>1. \A j \in 1..((e - 1) - i + 1) : u[i + j - 1] = B[i + j - 1]
          BY <4>1
        <5> DEFINE m == IF i <= e - 1 THEN (e - 1) - i + 1 ELSE 0
        <5>2. Len(x) = m /\ Len(y) = m
          BY <4>3, <4>4
        <5>3. \A j \in 1..m : j \in 1..((e - 1) - i + 1)
          BY <3>2
        <5>4. \A j \in 1..m : x[j] = y[j]
          <6>1. ASSUME NEW j \in 1..m PROVE x[j] = y[j]
            <7>1. j \in 1..((e - 1) - i + 1)
              BY <5>3
            <7> HIDE DEF m
            <7> QED
              BY <4>3, <4>4, <5>1, <7>1
          <6> QED
            BY <6>1
        <5> HIDE DEF x, y, m
        <5> QED
          BY <5>2, <5>4
      <4>6. x \in Seq(ParamBytes) /\ y \in Seq(ParamBytes)
        BY <4>3, <4>4
      <4> HIDE DEF x, y
      <4>7. x = y
        BY <4>5, <4>6, SeqEqual
      <4> QED
        BY <4>7 DEF x, y
    <3> QED
      BY <3>4, <3>5
  <2>3. ParamAt(u, i) = ParamAt(B, i)
    BY <2>1, <2>2 DEF ParamAt
  <2>4. /\ FieldsAt(u)[i] = IF i > 1 => u[i - 1] = "semicolon" THEN <<ParamAt(u, i)>> ELSE <<>>
        /\ FieldsAt(B)[i] = IF i > 1 => B[i - 1] = "semicolon" THEN <<ParamAt(B, i)>> ELSE <<>>
    <3>1. i \in DOMAIN u /\ i \in DOMAIN B
      BY <1>1, <1>2, <1>d, <2>1
    <3> QED
      BY <3>1, Zenon DEF FieldsAt
  <2> QED
    BY <2>1, <2>3, <2>4
<1>4. FieldsAt(u)[n + 1] = <<v>>
  <2>1. n + 1 \in DOMAIN u /\ n + 1 \in 1..Len(u)
    BY <1>2, <1>d
  <2>2. n + 1 > 1 => u[(n + 1) - 1] = "semicolon"
    <3>1. n + 1 > 1 => n \in 1..n /\ (n + 1) - 1 = n /\ B[n] = "semicolon"
      BY <1>1, <1>l
    <3> QED
      BY <1>2, <3>1
  <2>3. ParamAt(u, n + 1) = v
    <3>1. CASE D = <<>>
      <4>1. u[n + 1] = "semicolon"
        BY <1>1, <1>2, <3>1
      <4> QED
        BY <3>1, <4>1 DEF ParamAt, v
    <3>2. CASE D # <<>>
      <4>1. u[n + 1] # "semicolon"
        <5>1. u[n + 1] \in Digits
          BY <1>1, <1>2, <3>2, SMTT(40)
        <5> QED
          BY <5>1 DEF Digits
      <4>2. EndOf(u, n + 1, n + k + 1)
        <5>1. \A j \in (n + 1)..(n + k) : u[j] # "semicolon"
          <6>1. ASSUME NEW j \in (n + 1)..(n + k) PROVE u[j] \in Digits
            <7>1. j - n \in 1..k /\ n + (j - n) = j
              BY <1>1
            <7> QED
              BY <1>1, <1>2, <7>1
          <6> QED
            BY <6>1 DEF Digits
        <5>2. n + k + 1 <= Len(u) => u[n + k + 1] = "semicolon"
          BY <1>1, <1>2
        <5> QED
          BY <1>1, <1>2, <5>1, <5>2 DEF EndOf
      <4>3. DigitsAt(u, n + 1) = SubSeq(u, n + 1, n + k)
        <5>1. Len(u) \in Nat /\ n + k + 1 \in Int /\ (n + k + 1) - 1 = n + k
          BY <1>1, <1>2
        <5>2. DigitsAt(u, n + 1) = SubSeq(u, n + 1, (n + k + 1) - 1)
          BY <2>1, <4>2, <5>1, DigitsTo
        <5> QED
          BY <5>1, <5>2
      <4>4. SubSeq(u, n + 1, n + k) = D
        <5>1. \A j \in (n + 1)..(n + k) : u[j] \in ParamBytes
          BY <1>1, <1>2, ElementOfSeq
        <5>2. n + 1 \in Int /\ n + k \in Int
          BY <1>1
        <5> DEFINE x == SubSeq(u, n + 1, n + k)
        <5>3. /\ x \in Seq(ParamBytes)
              /\ Len(x) = IF n + 1 <= n + k THEN (n + k) - (n + 1) + 1 ELSE 0
              /\ \A j \in 1..((n + k) - (n + 1) + 1) : x[j] = u[(n + 1) + j - 1]
          BY <5>1, <5>2, SubSeqProperties
        <5> HIDE DEF x
        <5>4. Len(x) = k /\ \A j \in 1..k : x[j] = D[j]
          <6>1. (n + k) - (n + 1) + 1 = k /\ \A j \in 1..k : (n + 1) + j - 1 = n + j
            BY <1>1
          <6>2. \A j \in 1..k : x[j] = u[n + j]
            BY <5>3, <6>1
          <6>3. Len(x) = k
            BY <1>1, <5>3, <6>1
          <6> QED
            BY <1>2, <6>2, <6>3
        <5>5. x = D
          BY <1>1, <1>l, <5>3, <5>4, SeqEqual
        <5> QED
          BY <5>5 DEF x
      <4> QED
        BY <3>2, <4>1, <4>3, <4>4 DEF ParamAt, v
    <3> QED
      BY <3>1, <3>2
  <2>4. FieldsAt(u)[n + 1] = <<ParamAt(u, n + 1)>>
    BY <2>1, <2>2, Zenon DEF FieldsAt
  <2> QED
    BY <2>3, <2>4
<1>5. ASSUME NEW i \in (n + 2)..(n + (k + h)) PROVE FieldsAt(u)[i] = <<>>
  <2>1. i \in DOMAIN u /\ i > 1
    BY <1>1, <1>d
  <2>2. u[i - 1] \in Digits
    <3>1. (i - 1) - n \in 1..k /\ n + ((i - 1) - n) = i - 1
      BY <1>1
    <3> QED
      BY <1>1, <1>2, <3>1
  <2>3. u[i - 1] # "semicolon"
    BY <2>2 DEF Digits
  <2> QED
    BY <2>1, <2>3, Zenon DEF FieldsAt
<1>6. FieldsAt(u) = FieldsAt(B) \o (<<<<v>>>> \o Z)
  <2> DEFINE q == FieldsAt(u)
             r == FieldsAt(B)
             e == <<<<v>>>>
             z == e \o Z
  <2>1. q \in Seq(Seq(Int)) /\ Len(q) = n + (k + h) /\ r \in Seq(Seq(Int)) /\ Len(r) = n
    BY <1>2, <1>l, FieldsType
  <2>2. v \in Int
    BY NumberType DEF Missing, v
  <2>3. e \in Seq(Seq(Int)) /\ Len(e) = 1 /\ e[1] = <<v>>
    BY <2>2
  <2>4. Z \in Seq(Seq(Int)) /\ Len(Z) = k + h - 1 /\ \A j \in 1..(k + h - 1) : Z[j] = <<>>
    <3> DEFINE m == k + h - 1
    <3>1. m \in Nat /\ <<>> \in Seq(Int)
      BY <1>1
    <3>2. Z = [j \in 1..m |-> <<>>]
      BY DEF Z
    <3> HIDE DEF m
    <3>3. Z \in [1..m -> Seq(Int)] /\ \A j \in 1..m : Z[j] = <<>>
      BY <3>1, <3>2
    <3>4. Z \in Seq(Seq(Int)) /\ Len(Z) = m
      BY <3>1, <3>3
    <3> QED
      BY <3>3, <3>4 DEF m
  <2> HIDE DEF e, q, r
  <2>5. /\ z \in Seq(Seq(Int)) /\ Len(z) = k + h /\ z[1] = <<v>>
        /\ \A j \in 1..(k + h - 1) : z[1 + j] = <<>>
    <3>1. z \in Seq(Seq(Int)) /\ Len(z) = 1 + (k + h - 1)
      <4>1. e \o Z \in Seq(Seq(Int)) /\ Len(e \o Z) = Len(e) + Len(Z)
        BY <2>3, <2>4, ConcatProperties
      <4> QED
        BY <2>3, <2>4, <4>1
    <3>2. (\A j \in 1..1 : z[j] = e[j]) /\ (\A j \in 1..(k + h - 1) : z[1 + j] = Z[j])
      <4>1. /\ \A j \in 1..Len(e) : (e \o Z)[j] = e[j]
            /\ \A j \in 1..Len(Z) : (e \o Z)[Len(e) + j] = Z[j]
        <5> DEFINE U == Seq(Int)
        <5>1. e \in Seq(U) /\ Z \in Seq(U)
          BY <2>3, <2>4
        <5> HIDE DEF U
        <5> QED
          BY <5>1, ConcatIndices
      <4> QED
        BY <2>3, <2>4, <4>1
    <3> HIDE DEF z
    <3>3. z[1] = <<v>>
      BY <2>3, <3>2
    <3>4. \A j \in 1..(k + h - 1) : z[1 + j] = <<>>
      BY <2>4, <3>2
    <3>5. Len(z) = k + h
      BY <1>1, <3>1
    <3> QED
      BY <3>1, <3>3, <3>4, <3>5
  <2> HIDE DEF z
  <2> DEFINE c == r \o z
  <2>6. c \in Seq(Seq(Int)) /\ Len(c) = n + (k + h)
    <3>1. r \o z \in Seq(Seq(Int)) /\ Len(r \o z) = Len(r) + Len(z)
      BY <2>1, <2>5, ConcatProperties
    <3> QED
      BY <2>1, <2>5, <3>1
  <2>7. (\A j \in 1..n : c[j] = r[j]) /\ (\A j \in 1..(k + h) : c[n + j] = z[j])
    <3>1. /\ \A j \in 1..Len(r) : (r \o z)[j] = r[j]
          /\ \A j \in 1..Len(z) : (r \o z)[Len(r) + j] = z[j]
      <4> DEFINE U == Seq(Int)
      <4>1. r \in Seq(U) /\ z \in Seq(U)
        BY <2>1, <2>5
      <4> HIDE DEF U
      <4> QED
        BY <4>1, ConcatIndices
    <3> QED
      BY <2>1, <2>5, <3>1
  <2> HIDE DEF c
  <2>8. ASSUME NEW i \in 1..(n + (k + h)) PROVE q[i] = c[i]
    <3>1. CASE i <= n
      BY <1>1, <1>3, <2>7, <3>1, SMTT(40) DEF q, r
    <3>2. CASE i = n + 1
      <4>1. 1 \in 1..(k + h)
        BY <1>1
      <4> QED
        BY <1>4, <2>5, <2>7, <3>2, <4>1 DEF q
    <3>3. CASE i >= n + 2
      <4>1. /\ i \in (n + 2)..(n + (k + h)) /\ (i - n) - 1 \in 1..(k + h - 1)
            /\ i - n \in 1..(k + h) /\ n + (i - n) = i /\ 1 + ((i - n) - 1) = i - n
        BY <1>1, <3>3
      <4>2. c[i] = z[i - n] /\ z[i - n] = <<>>
        BY <2>5, <2>7, <4>1
      <4>3. q[i] = <<>>
        BY <1>5, <4>1 DEF q
      <4> QED
        BY <4>2, <4>3
    <3> QED
      BY <1>1, <3>1, <3>2, <3>3
  <2>9. q = c
    BY <2>1, <2>6, <2>8, SeqEqual
  <2> QED
    BY <2>9 DEF q, c, r, z, e
<1>7. Fields(u) = Fields(B) \o <<v>>
  <2> DEFINE r == FieldsAt(B)
             e == <<v>>
  <2>1. r \in Seq(Seq(Int)) /\ FlattenSeq(r) \in Seq(Int)
    BY FieldsType
  <2>2. v \in Int
    BY NumberType DEF Missing, v
  <2>3. e \in Seq(Int)
    BY <2>2
  <2>4. Z \in Seq(Seq(Int)) /\ \A j \in 1..Len(Z) : Z[j] = <<>>
    <3> DEFINE m == k + h - 1
    <3>1. m \in Nat /\ <<>> \in Seq(Int)
      BY <1>1
    <3>2. Z = [j \in 1..m |-> <<>>]
      BY DEF Z
    <3> HIDE DEF m
    <3>3. Z \in [1..m -> Seq(Int)] /\ \A j \in 1..m : Z[j] = <<>>
      BY <3>1, <3>2
    <3>4. Z \in Seq(Seq(Int)) /\ Len(Z) = m
      BY <3>1, <3>3
    <3> QED
      BY <3>3, <3>4 DEF m
  <2> HIDE DEF e, r
  <2>5. FlattenSeq(Z) = <<>>
    BY <2>4, FlattenEmpties
  <2>6. FlattenSeq(<<e>> \o Z) = e \o <<>> /\ e \o <<>> = e
    BY <2>3, <2>4, <2>5, FlattenCons, ConcatEmptySeq
  <2>7. <<e>> \o Z \in Seq(Seq(Int))
    <3>1. <<e>> \in Seq(Seq(Int))
      BY <2>3
    <3> QED
      BY <2>4, <3>1, ConcatProperties
  <2>8. FlattenSeq(r \o (<<e>> \o Z)) = FlattenSeq(r) \o e
    BY <2>1, <2>6, <2>7, FlattenConcat
  <2> QED
    BY <1>6, <2>8 DEF Fields, r, e
<1> QED
  BY <1>7 DEF u, v

\* The first k parameters of params are what is read from a buffer.
Reads(buf, params, k) ==
    /\ Fields(buf) \in Seq(Int) /\ Len(Fields(buf)) = k
    /\ \A i \in 1..k : Fields(buf)[i] = params[i]

LEMMA ReadsMore ==
    ASSUME NEW params, NEW k \in Nat \ {0}, NEW B \in Seq(ParamBytes),
           B # <<>> => B[Len(B)] = "semicolon", Reads(B, params, k - 1),
           NEW D \in Seq(Digits), params[k] = IF D = <<>> THEN Missing ELSE Number(D),
           NEW E \in {<<>>, <<"semicolon">>}, D # <<>> \/ E # <<>>
    PROVE  Reads(B \o (D \o E), params, k)
<1> DEFINE v == IF D = <<>> THEN Missing ELSE Number(D)
           r == Fields(B)
           c == r \o <<v>>
<1>1. Fields(B \o (D \o E)) = c
  BY FieldMore
<1>2. v \in Int /\ params[k] = v
  BY NumberType DEF Missing
<1>3. r \in Seq(Int) /\ Len(r) = k - 1 /\ \A i \in 1..(k - 1) : r[i] = params[i]
  BY DEF Reads
<1> HIDE DEF v, r
<1>4. <<v>> \in Seq(Int) /\ Len(<<v>>) = 1 /\ <<v>>[1] = v
  BY <1>2
<1>5. c \in Seq(Int) /\ Len(c) = k
  <2>1. c \in Seq(Int) /\ Len(c) = Len(r) + Len(<<v>>)
    BY <1>3, <1>4, ConcatProperties
  <2> QED
    BY <1>3, <1>4, <2>1
<1>6. (\A i \in 1..(k - 1) : c[i] = r[i]) /\ c[(k - 1) + 1] = v
  <2>1. (\A i \in 1..Len(r) : c[i] = r[i]) /\ (\A i \in 1..1 : c[Len(r) + i] = <<v>>[i])
    BY <1>3, <1>4, ConcatIndices
  <2> QED
    BY <1>3, <1>4, <2>1
<1> HIDE DEF c
<1>7. \A i \in 1..k : c[i] = params[i]
  <2>1. ASSUME NEW i \in 1..k PROVE c[i] = params[i]
    <3>1. CASE i <= k - 1
      BY <1>3, <1>6, <3>1
    <3>2. CASE i = k
      BY <1>2, <1>6, <3>2
    <3> QED
      BY <3>1, <3>2
  <2> QED
    BY <2>1
<1> QED
  BY <1>1, <1>5, <1>7 DEF Reads

\* What is read from the bytes of a list of parameters: the list, without an
\* empty parameter at its end.
LEMMA EncodedRead ==
    ASSUME NEW params \in Seq(Nat \cup {Missing}), \A i \in 1..Len(params) : params[i] <= IntMax
    PROVE  \/ Reads(EncodedParams(params), params, Len(params))
           \/ /\ Len(params) > 0 /\ params[Len(params)] = Missing
              /\ Reads(EncodedParams(params), params, Len(params) - 1)
<1> DEFINE n == Len(params)
           q == [i \in DOMAIN params |-> ParamPart(params, i)]
           D(i) == IF params[i] = Missing THEN <<>> ELSE Decimal[params[i]]
           s == <<"semicolon">>
<1>1. n \in Nat /\ DOMAIN params = 1..n /\ \A i \in 1..n : params[i] \in Nat \cup {Missing}
  BY LenProperties, ElementOfSeq
<1>2. q \in Seq(Seq(ParamBytes)) /\ EncodedParams(params) = FlattenSeq(q) /\ Len(q) = n
      /\ \A i \in 1..n : q[i] = (IF i = 1 THEN <<>> ELSE s) \o D(i)
  <2>1. q \in Seq(Seq(ParamBytes)) /\ EncodedParams(params) = FlattenSeq(q)
    BY EncodedParamsType
  <2>2. \A i \in 1..n : q[i] = (IF i = 1 THEN <<>> ELSE s) \o D(i)
    BY <1>1 DEF ParamPart
  <2>3. Len(q) = n
    BY <1>1
  <2> QED
    BY <2>1, <2>2, <2>3
<1>3. \A i \in 1..n : /\ D(i) \in Seq(Digits) /\ D(i) \in Seq(ParamBytes)
                      /\ params[i] = IF D(i) = <<>> THEN Missing ELSE Number(D(i))
  <2>1. ASSUME NEW i \in 1..n
        PROVE  /\ D(i) \in Seq(Digits) /\ D(i) \in Seq(ParamBytes)
               /\ params[i] = IF D(i) = <<>> THEN Missing ELSE Number(D(i))
    <3>1. CASE params[i] = Missing
      BY <3>1
    <3>2. CASE params[i] # Missing
      <4>1. params[i] \in Nat /\ params[i] <= IntMax
        BY <1>1, <3>2
      <4>2. Decimal[params[i]] \in Seq(Digits) /\ Decimal[params[i]] # <<>>
            /\ Number(Decimal[params[i]]) = params[i]
        BY <4>1, DecimalRead
      <4>3. Decimal[params[i]] \in Seq(ParamBytes)
        BY <4>2, Alphabet, SeqMonotone
      <4> QED
        BY <3>2, <4>2, <4>3
    <3> QED
      BY <3>1, <3>2
  <2> QED
    BY <2>1
<1>4. PICK f : Sums(f, q, ParamBytes)
  BY <1>2, SumsExist
<1>5. /\ EncodedParams(params) = f[n] /\ f[0] = <<>>
      /\ \A i \in 0..n : f[i] \in Seq(ParamBytes)
      /\ \A i \in 1..n : f[i] = f[i - 1] \o ((IF i = 1 THEN <<>> ELSE s) \o D(i))
  <2>1. f \in [0..n -> Seq(ParamBytes)] /\ f[0] = <<>> /\ \A i \in 1..n : f[i] = f[i - 1] \o q[i]
    <3> HIDE DEF q
    <3> QED
      BY <1>2, <1>4 DEF Sums
  <2>2. EncodedParams(params) = f[n]
    <3> HIDE DEF q
    <3> QED
      BY <1>2, <1>4, FlattenSums
  <2> HIDE DEF q, D, s
  <2> QED
    BY <1>2, <2>1, <2>2
<1>6. s \in Seq(ParamBytes) /\ <<>> \in Seq(ParamBytes) /\ Len(s) = 1 /\ s[1] = "semicolon"
  BY DEF ParamBytes
<1> DEFINE B(k) == IF k = 0 THEN <<>> ELSE f[k] \o s
<1> HIDE DEF n, q, D
<1>7. \A k \in 0..n : B(k) \in Seq(ParamBytes) /\ (B(k) # <<>> => B(k)[Len(B(k))] = "semicolon")
  <2>1. ASSUME NEW k \in 0..n, k # 0
        PROVE  B(k) \in Seq(ParamBytes) /\ B(k)[Len(B(k))] = "semicolon"
    <3> DEFINE g == f[k]
    <3>1. g \in Seq(ParamBytes) /\ B(k) = g \o s
      BY <1>5, <2>1
    <3> HIDE DEF g, B, s
    <3>2. g \o s \in Seq(ParamBytes) /\ Len(g \o s) = Len(g) + Len(s)
      BY <1>6, <3>1, ConcatProperties
    <3>3. (g \o s)[Len(g) + 1] = s[1]
      <4>1. 1 \in 1..Len(s)
        BY <1>6
      <4> QED
        BY <1>6, <3>1, <4>1, ConcatIndices, SMTT(40)
    <3> QED
      BY <1>6, <3>1, <3>2, <3>3
  <2> QED
    BY <1>6, <2>1
\* Each parameter follows what ends the one before.
<1>8. ASSUME NEW k \in 1..n PROVE f[k] = B(k - 1) \o D(k)
  <2> DEFINE d == D(k)
  <2>1. d \in Seq(ParamBytes)
    BY <1>3
  <2>2. CASE k = 1
    <3>1. f[1] = <<>> \o (<<>> \o d) /\ B(0) = <<>>
      <4>1. f[k] = f[k - 1] \o ((IF k = 1 THEN <<>> ELSE s) \o d)
        BY <1>5, <1>8
      <4>2. k - 1 = 0 /\ f[0] = <<>>
        BY <1>5, <2>2
      <4> QED
        BY <2>2, <4>1, <4>2
    <3> HIDE DEF d
    <3>2. <<>> \o d = d
      BY <2>1, ConcatEmptySeq
    <3> QED
      BY <2>2, <3>1, <3>2 DEF d
  <2>3. CASE k > 1
    <3> DEFINE g == f[k - 1]
    <3>1. g \in Seq(ParamBytes) /\ f[k] = g \o (s \o d) /\ B(k - 1) = g \o s
      <4>1. k # 1 /\ k - 1 \in 0..n /\ k - 1 # 0
        BY <1>1, <1>8, <2>3 DEF n
      <4>2. f[k] = f[k - 1] \o ((IF k = 1 THEN <<>> ELSE s) \o d)
        BY <1>5, <1>8
      <4> HIDE DEF s
      <4> QED
        BY <1>5, <4>1, <4>2
    <3> HIDE DEF g, d, s, B
    <3>2. (g \o s) \o d = g \o (s \o d)
      <4>1. Associates(g, s, d)
        BY <1>6, <2>1, <3>1, ConcatAssociates
      <4> QED
        BY <4>1, Zenon DEF Associates
    <3> QED
      BY <3>1, <3>2 DEF d
  <2> QED
    BY <2>2, <2>3
<1>9. ASSUME NEW k \in 1..n PROVE B(k) = B(k - 1) \o (D(k) \o s)
  <2> DEFINE d == D(k)
             g == B(k - 1)
  <2>1. d \in Seq(ParamBytes) /\ g \in Seq(ParamBytes)
    <3>1. k - 1 \in 0..n
      BY <1>1 DEF n
    <3> HIDE DEF B
    <3> QED
      BY <1>3, <1>7, <3>1
  <2>2. B(k) = (g \o d) \o s
    <3>1. k # 0
      BY <1>1, <1>9 DEF n
    <3>2. B(k) = f[k] \o s
      BY <3>1
    <3>3. f[k] = g \o d
      BY <1>8, <1>9
    <3> QED
      BY <3>2, <3>3
  <2> HIDE DEF d, g, s, B
  <2>3. (g \o d) \o s = g \o (d \o s)
    <3>1. Associates(g, d, s)
      BY <1>6, <2>1, ConcatAssociates
    <3> QED
      BY <3>1, Zenon DEF Associates
  <2> QED
    BY <2>2, <2>3 DEF d, g
<1>10. \A k \in 0..n : Reads(B(k), params, k)
  <2> DEFINE T == {k \in 0..n : Reads(B(k), params, k)}
  <2>1. 0 \in T
    <3>1. FieldsAt(<<>>) = <<>>
      BY DEF FieldsAt
    <3>2. Fields(<<>>) = <<>>
      BY <3>1 DEF Fields, FlattenSeq
    <3>3. Reads(<<>>, params, 0)
      <4>1. Fields(<<>>) \in Seq(Int) /\ Len(Fields(<<>>)) = 0
        <5>1. <<>> \in Seq(Int) /\ Len(<<>>) = 0
          OBVIOUS
        <5> QED
          BY <3>2, <5>1, Zenon
      <4> QED
        BY <4>1 DEF Reads
    <3> QED
      BY <1>1, <3>3 DEF n
  <2>2. ASSUME NEW k \in 0..n, k < n, k \in T PROVE k + 1 \in T
    <3>1. k + 1 \in 1..n /\ k + 1 \in 0..n /\ (k + 1) - 1 = k /\ k + 1 \in Nat \ {0}
      BY <1>1, <2>2 DEF n
    <3>2. Reads(B(k), params, k) /\ B(k + 1) = B(k) \o (D(k + 1) \o s)
      <4>1. Reads(B(k), params, k)
        BY <2>2
      <4> HIDE DEF B
      <4> QED
        BY <1>9, <3>1, <4>1
    <3> DEFINE d == D(k + 1)
               g == B(k)
    <3>3. d \in Seq(Digits) /\ params[k + 1] = IF d = <<>> THEN Missing ELSE Number(d)
      BY <1>3, <3>1
    <3>4. g \in Seq(ParamBytes) /\ (g # <<>> => g[Len(g)] = "semicolon")
      <4> HIDE DEF B
      <4> QED
        BY <1>7, <2>2
    <3>5. s \in {<<>>, <<"semicolon">>} /\ s # <<>>
      OBVIOUS
    <3>6. Reads(g, params, (k + 1) - 1) /\ B(k + 1) = g \o (d \o s)
      BY <3>1, <3>2
    <3> HIDE DEF B, d, g, s
    <3>7. Reads(g \o (d \o s), params, k + 1)
      BY <3>1, <3>3, <3>4, <3>5, <3>6, ReadsMore
    <3> QED
      BY <3>1, <3>6, <3>7
  <2> HIDE DEF T
  <2>3. \A k \in 0..n : k \in T
    BY <1>1, <2>1, <2>2, UpTo DEF n
  <2> QED
    BY <2>3 DEF T
<1>11. CASE n = 0
  BY <1>5, <1>10, <1>11 DEF n
<1>12. CASE n > 0
  <2>1. n \in 1..n /\ n - 1 \in 0..n /\ n \in Nat \ {0}
    BY <1>1, <1>12 DEF n
  <2> DEFINE d == D(n)
             g == B(n - 1)
             e == <<>>
  <2>2. d \in Seq(Digits) /\ d \in Seq(ParamBytes)
        /\ params[n] = IF d = <<>> THEN Missing ELSE Number(d)
    BY <1>3, <2>1
  <2>3. g \in Seq(ParamBytes) /\ (g # <<>> => g[Len(g)] = "semicolon") /\ Reads(g, params, n - 1)
    <3> HIDE DEF B
    <3> QED
      BY <1>7, <1>10, <2>1
  <2>4. EncodedParams(params) = g \o d
    BY <1>5, <1>8, <2>1
  <2> HIDE DEF B, d, g
  <2>5. CASE d = <<>>
    <3>1. g \o d = g
      BY <2>3, <2>5, ConcatEmptySeq
    <3> QED
      BY <1>12, <2>2, <2>3, <2>4, <2>5, <3>1 DEF n
  <2>6. CASE d # <<>>
    <3>1. d \o e = d
      BY <2>2, ConcatEmptySeq
    <3>2. e \in {<<>>, <<"semicolon">>}
      OBVIOUS
    <3> HIDE DEF e
    <3>3. Reads(g \o (d \o e), params, n)
      BY <2>1, <2>2, <2>3, <2>6, <3>2, ReadsMore
    <3> QED
      BY <2>4, <3>1, <3>3 DEF n
  <2> QED
    BY <2>5, <2>6
<1> QED
  BY <1>1, <1>11, <1>12 DEF n

\* What is read from the bytes of a list of parameters that fits: the list,
\* without an empty parameter at its end.
LEMMA ParseRead ==
    ASSUME NEW params \in Seq(Nat \cup {Missing}), Len(params) <= MaxParams,
           \A i \in 1..Len(params) : params[i] <= IntMax
    PROVE  /\ ParseParams(EncodedParams(params)) \in Seq(Int)
           /\ \E m \in 0..Len(params) :
                 /\ Len(ParseParams(EncodedParams(params))) = m
                 /\ \A i \in 1..m : ParseParams(EncodedParams(params))[i] = params[i]
                 /\ \A i \in (m + 1)..Len(params) : params[i] = Missing
<1> DEFINE buf == EncodedParams(params)
           r == Fields(buf)
           n == Len(params)
<1>1. buf \in Seq(ParamBytes) /\ n \in Nat
  BY EncodedParamsType, LenProperties
<1>2. Reads(buf, params, n) \/ (n > 0 /\ params[n] = Missing /\ Reads(buf, params, n - 1))
  BY EncodedRead
<1>3. PICK m \in 0..n : Reads(buf, params, m) /\ \A i \in (m + 1)..n : params[i] = Missing
  <2>1. CASE Reads(buf, params, n)
    BY <1>1, <2>1
  <2>2. CASE n > 0 /\ params[n] = Missing /\ Reads(buf, params, n - 1)
    <3>1. n - 1 \in 0..n /\ \A i \in ((n - 1) + 1)..n : i = n
      BY <1>1, <2>2
    <3> HIDE DEF buf, n
    <3> QED
      BY <2>2, <3>1
  <2> QED
    BY <1>2, <2>1, <2>2
<1>4. r \in Seq(Int) /\ Len(r) = m /\ \A i \in 1..m : r[i] = params[i]
  BY <1>3 DEF Reads
<1>5. ParseParams(buf) = AtMost(MaxParams, r)
  BY DEF ParseParams, Fields, FieldsAt
<1> HIDE DEF buf, r
<1>6. ParseParams(buf) = r
  BY <1>1, <1>3, <1>4, <1>5, AtMostType
<1> QED
  BY <1>3, <1>4, <1>6 DEF buf

\* A sequence whose parameters fit is read as it was meant: parse_params() finds
\* every parameter that was written, in its place, however the digits, the
\* semicolons and the empty ones are mixed.
THEOREM ParseEncoded ==
    ASSUME NEW params \in Seq(Nat \cup {Missing}), Len(params) <= MaxParams,
           \A i \in 1..Len(params) : params[i] <= IntMax
    PROVE  \A i \in 1..MaxParams : Param(ParseParams(EncodedParams(params)), i) = Param(params, i)
<1> DEFINE r == ParseParams(EncodedParams(params))
           n == Len(params)
<1>1. r \in Seq(Int) /\ n \in Nat /\ DOMAIN params = 1..n
  BY ParseRead, LenProperties
<1>2. PICK m \in 0..n : /\ Len(r) = m /\ \A i \in 1..m : r[i] = params[i]
                        /\ \A i \in (m + 1)..n : params[i] = Missing
  BY ParseRead
<1>3. DOMAIN r = 1..m
  BY <1>1, <1>2, LenProperties
<1> HIDE DEF n, r
<1>4. ASSUME NEW i \in 1..MaxParams PROVE Param(r, i) = Param(params, i)
  BY <1>1, <1>2, <1>3 DEF Param
<1> QED
  BY <1>4 DEF r

\* Without an empty parameter at the end, exactly those are read.
LEMMA ParseExact ==
    ASSUME NEW params \in Seq(Nat \cup {Missing}), Len(params) <= MaxParams,
           \A i \in 1..Len(params) : params[i] <= IntMax,
           params # <<>> => params[Len(params)] # Missing
    PROVE  ParseParams(EncodedParams(params)) = params
<1> DEFINE r == ParseParams(EncodedParams(params))
           n == Len(params)
<1>1. r \in Seq(Int) /\ n \in Nat
  BY ParseRead, LenProperties
<1>2. PICK m \in 0..n : /\ Len(r) = m /\ \A i \in 1..m : r[i] = params[i]
                        /\ \A i \in (m + 1)..n : params[i] = Missing
  BY ParseRead
<1>3. m = n
  <2>1. n = 0 \/ params[n] # Missing
    BY EmptySeq
  <2>2. m < n => n \in (m + 1)..n
    BY <1>1
  <2>3. n = 0 => m = n
    BY <1>1
  <2> HIDE DEF n
  <2>4. m < n \/ m = n
    BY <1>1
  <2> QED
    BY <1>2, <2>1, <2>2, <2>3, <2>4
<1>4. params \in Seq(Int)
  <2>1. Nat \cup {Missing} \subseteq Int
    BY DEF Missing
  <2> QED
    BY <2>1, SeqMonotone
<1>5. Len(r) = Len(params) /\ \A i \in 1..Len(r) : r[i] = params[i]
  BY <1>2, <1>3
<1> HIDE DEF r
<1>6. r = params
  BY <1>1, <1>4, <1>5, SeqEqual
<1> QED
  BY <1>6 DEF r

-----------------------------------------------------------------------------
(* Where the stream is. *)

\* What the remote sends as long as everything sent is recognised.
Known ==
    {item \in Meanings : item.kind # "other" /\ (item.kind = "quiet" => Skipped(item.bytes))}

\* The bytes of items, one after the other.
EncodeMap == [item \in Meanings |-> Encoded(item)]
StreamOf(q) == FlatMap(EncodeMap, q)

\* An item with an effect, or nothing.
EffectMap == [item \in Meanings |-> IF item.kind = "quiet" THEN <<>> ELSE <<item>>]

LEMMA MapTypes ==
    EncodeMap \in Readings(Meanings, Bytes) /\ EffectMap \in Readings(Meanings, Meanings)
<1>1. \A item \in Meanings : Encoded(item) \in Seq(Bytes)
  BY EncodedType
<1>2. ASSUME NEW item \in Meanings
      PROVE  (IF item.kind = "quiet" THEN <<>> ELSE <<item>>) \in Seq(Meanings)
  <2>1. <<>> \in Seq(Meanings) /\ <<item>> \in Seq(Meanings)
    OBVIOUS
  <2> QED
    BY <2>1, Zenon
<1> HIDE DEF Meanings
<1> QED
  BY <1>1, <1>2 DEF EncodeMap, EffectMap, Readings

LEMMA StreamCons ==
    ASSUME NEW x \in Meanings, NEW q \in Seq(Meanings)
    PROVE  StreamOf(<<x>> \o q) = Encoded(x) \o StreamOf(q)
<1>1. EncodeMap[x] = Encoded(x)
  BY DEF EncodeMap
<1>2. EncodeMap \in Readings(Meanings, Bytes)
  BY MapTypes
<1> HIDE DEF Meanings, Bytes
<1>3. FlatMap(EncodeMap, <<x>> \o q) = EncodeMap[x] \o FlatMap(EncodeMap, q)
  BY <1>2, FlatMapCons, ZenonT(60)
<1> QED
  BY <1>1, <1>3 DEF StreamOf

LEMMA StreamType ==
    ASSUME NEW q \in Seq(Meanings)
    PROVE  StreamOf(q) \in Seq(Bytes)
BY MapTypes, FlatMapType DEF StreamOf

LEMMA EffectiveIs ==
    ASSUME NEW q \in Seq(Meanings)
    PROVE  /\ Effective(q) = FlatMap(EffectMap, q)
           /\ Effective(q) \in Seq(Meanings)
<1>1. \A i \in DOMAIN q : EffectMap[q[i]] = IF q[i].kind = "quiet" THEN <<>> ELSE <<q[i]>>
  <2>1. \A i \in DOMAIN q : q[i] \in Meanings
    BY LenProperties, ElementOfSeq
  <2> HIDE DEF Meanings
  <2> QED
    BY <2>1 DEF EffectMap
<1>2. [i \in DOMAIN q |-> IF q[i].kind = "quiet" THEN <<>> ELSE <<q[i]>>]
        = [i \in DOMAIN q |-> EffectMap[q[i]]]
  BY <1>1, Zenon
<1>3. Effective(q) = FlatMap(EffectMap, q)
  BY <1>2, Zenon DEF Effective, FlatMap
<1> QED
  BY <1>3, MapTypes, FlatMapType

LEMMA EffectiveAppend ==
    ASSUME NEW q \in Seq(Meanings), NEW x \in Meanings
    PROVE  Effective(Append(q, x)) = IF x.kind = "quiet" THEN Effective(q)
                                     ELSE Append(Effective(q), x)
<1>1. Append(q, x) \in Seq(Meanings)
  BY AppendProperties
<1> DEFINE e == Effective(q)
<1>2. Effective(Append(q, x)) = e \o EffectMap[x]
  <2>1. Effective(Append(q, x)) = FlatMap(EffectMap, Append(q, x)) /\ e = FlatMap(EffectMap, q)
    BY <1>1, EffectiveIs
  <2>2. EffectMap \in Readings(Meanings, Meanings)
    BY MapTypes
  <2>3. FlatMap(EffectMap, Append(q, x)) = FlatMap(EffectMap, q) \o EffectMap[x]
    BY <2>2, FlatMapAppend
  <2> QED
    BY <2>1, <2>3
<1>3. EffectMap[x] = IF x.kind = "quiet" THEN <<>> ELSE <<x>>
  BY DEF EffectMap
<1>4. e \in Seq(Meanings)
  BY EffectiveIs
<1> HIDE DEF e
<1>5. CASE x.kind = "quiet"
  BY <1>2, <1>3, <1>4, <1>5, ConcatEmptySeq DEF e
<1>6. CASE x.kind # "quiet"
  <2>1. e \o <<x>> = Append(e, x)
    BY <1>4
  <2> QED
    BY <1>2, <1>3, <1>6, <2>1 DEF e
<1> QED
  BY <1>5, <1>6

\* A sequence with a first element.
LEMMA FrontAdded ==
    ASSUME NEW S, NEW x \in S, NEW s \in Seq(S)
    PROVE  /\ <<x>> \o s \in Seq(S) /\ <<x>> \o s # <<>>
           /\ Head(<<x>> \o s) = x /\ Tail(<<x>> \o s) = s /\ (<<x>> \o s)[1] = x
           /\ Len(<<x>> \o s) = 1 + Len(s)
<1> DEFINE c == <<x>> \o s
<1>1. <<x>> \in Seq(S) /\ Len(<<x>>) = 1 /\ <<x>>[1] = x
  OBVIOUS
<1>2. c \in Seq(S) /\ Len(c) = 1 + Len(s) /\ Len(s) \in Nat
  BY <1>1, ConcatProperties, LenProperties
<1>3. c[1] = x /\ \A i \in 1..Len(s) : c[1 + i] = s[i]
  BY <1>1, ConcatIndices
<1> HIDE DEF c
<1>4. c # <<>>
  BY <1>2
<1>5. Head(c) = x
  BY <1>2, <1>3, <1>4
<1>6. Tail(c) = s
  <2>1. Tail(c) \in Seq(S) /\ Len(Tail(c)) = Len(c) - 1
        /\ \A i \in 1..Len(Tail(c)) : Tail(c)[i] = c[i + 1]
    BY <1>2, <1>4, HeadTailProperties
  <2>2. Len(Tail(c)) = Len(s)
    BY <1>2, <2>1
  <2>3. \A i \in 1..Len(s) : Tail(c)[i] = s[i]
    BY <1>2, <1>3, <2>1, <2>2
  <2> QED
    BY <2>1, <2>2, <2>3, SeqEqual
<1> QED
  BY <1>2, <1>3, <1>4, <1>5, <1>6 DEF c

LEMMA FrontTaken ==
    ASSUME NEW S, NEW s \in Seq(S), s # <<>>
    PROVE  s = <<Head(s)>> \o Tail(s) /\ Head(s) \in S /\ Tail(s) \in Seq(S) /\ s[1] = Head(s)
<1>1. Head(s) \in S /\ Tail(s) \in Seq(S)
  BY HeadTailProperties
<1>2. s = <<Head(s)>> \o Tail(s)
  OBVIOUS
<1>3. s[1] = Head(s)
  OBVIOUS
<1> QED
  BY <1>1, <1>2, <1>3

\* The first byte of an item, and whatever stands before more bytes.
LEMMA FrontMoves ==
    ASSUME NEW S, NEW p \in Seq(S), p # <<>>, NEW s \in Seq(S)
    PROVE  /\ p \o s # <<>> /\ Head(p \o s) = Head(p) /\ Tail(p \o s) = Tail(p) \o s
           /\ Head(p) = p[1] /\ Tail(p) \in Seq(S)
<1> DEFINE x == Head(p)
           t == Tail(p)
<1>1. p = <<x>> \o t /\ x \in S /\ t \in Seq(S) /\ p[1] = x
  BY FrontTaken
<1> HIDE DEF x, t
<1>2. p \o s = <<x>> \o (t \o s) /\ t \o s \in Seq(S)
  <2>1. <<x>> \in Seq(S)
    BY <1>1
  <2>2. (<<x>> \o t) \o s = <<x>> \o (t \o s)
    <3>1. Associates(<<x>>, t, s)
      BY <1>1, <2>1, ConcatAssociates
    <3> QED
      BY <3>1, Zenon DEF Associates
  <2>3. t \o s \in Seq(S)
    BY <1>1, ConcatProperties
  <2> QED
    BY <1>1, <2>2, <2>3
<1> DEFINE r == t \o s
<1> HIDE DEF r
<1>3. <<x>> \o r # <<>> /\ Head(<<x>> \o r) = x /\ Tail(<<x>> \o r) = r
  <2>1. x \in S /\ r \in Seq(S)
    BY <1>1, <1>2 DEF r
  <2> QED
    BY <2>1, FrontAdded
<1> QED
  BY <1>1, <1>2, <1>3 DEF x, t, r

\* What an item says of its record, and how its bytes begin.
LEMMA KnownIs ==
    ASSUME NEW x \in Known
    PROVE  /\ x \in Meanings
           /\ x.kind = "char" => x = Char(x.char) /\ x.char \in Chars /\ Encoded(x) = <<x.char>>
           /\ x.kind = "control" => /\ x = Control(x.byte) /\ x.byte \in Controls \ {"esc"}
                                    /\ Encoded(x) = <<x.byte>>
           /\ x.kind = "esc" => /\ x = Esc(x.byte) /\ x.byte \in {"7", "8", "c"}
                                /\ Encoded(x) = <<"esc", x.byte>>
           /\ x.kind = "quiet" => /\ x.bytes \in Seq(Bytes) /\ Skipped(x.bytes)
                                  /\ Encoded(x) = x.bytes
           /\ x.kind \in {"char", "control", "csi", "esc", "quiet"}
<1>1. x \in Meanings /\ x.kind # "other" /\ (x.kind = "quiet" => Skipped(x.bytes))
  BY DEF Known
<1>2. x.kind = "char" => x = Char(x.char) /\ x.char \in Chars
  <2>1. SUFFICES ASSUME x.kind = "char" PROVE x = Char(x.char) /\ x.char \in Chars
    OBVIOUS
  <2>2. x \in [kind : {"char"}, char : Chars]
    BY <1>1, <2>1 DEF Meanings
  <2> QED
    BY <2>2 DEF Char
<1>3. x.kind = "control" => x = Control(x.byte) /\ x.byte \in Controls \ {"esc"}
  <2>1. SUFFICES ASSUME x.kind = "control" PROVE x = Control(x.byte) /\ x.byte \in Controls \ {"esc"}
    OBVIOUS
  <2>2. x \in [kind : {"control"}, byte : Controls \ {"esc"}]
    BY <1>1, <2>1 DEF Meanings
  <2> QED
    BY <2>2 DEF Control
<1>4. x.kind = "esc" => x = Esc(x.byte) /\ x.byte \in {"7", "8", "c"}
  <2>1. SUFFICES ASSUME x.kind = "esc" PROVE x = Esc(x.byte) /\ x.byte \in {"7", "8", "c"}
    OBVIOUS
  <2>2. x \in [kind : {"esc"}, byte : {"7", "8", "c"}]
    BY <1>1, <2>1 DEF Meanings
  <2> QED
    BY <2>2 DEF Esc
<1>5. x.kind = "quiet" => x.bytes \in Seq(Bytes) /\ Encoded(x) = x.bytes
  BY <1>1, MeaningParts DEF Encoded
<1>6. /\ x.kind = "char" => Encoded(x) = <<x.char>>
      /\ x.kind = "control" => Encoded(x) = <<x.byte>>
      /\ x.kind = "esc" => Encoded(x) = <<"esc", x.byte>>
  BY DEF Encoded
<1> QED
  BY <1>1, <1>2, <1>3, <1>4, <1>5, <1>6, MeaningParts

-----------------------------------------------------------------------------
(* One byte of an item: the item goes on, or it ends and is obeyed.          *)

Mark(item) == IF item.private THEN <<"?">> ELSE <<>>

\* The rest of a title.
OscRest(p) == p # <<>> /\ p[Len(p)] = "bel" /\ \A i \in 1..(Len(p) - 1) : p[i] \notin OscEnd

InQuiet(p) ==
    \/ state = "esc" /\ Len(p) = 2 /\ p[1] \in CharsetNames
    \/ state = "charset" /\ Len(p) = 1
    \/ state = "esc" /\ Len(p) >= 2 /\ p[1] = "]" /\ OscRest(Tail(p))
    \/ state = "osc" /\ OscRest(p)

InCsi(item, p) ==
    LET params == EncodedParams(item.params)
    IN  \/ state = "esc" /\ p = <<"[">> \o ((Mark(item) \o params) \o <<item.final>>)
        \/ /\ state = "csi" /\ csiBuf = <<>> /\ csiPrivate = FALSE /\ item.private
           /\ p = <<"?">> \o (params \o <<item.final>>)
        \/ /\ state = "csi" /\ csiPrivate = item.private
           /\ \E rest \in Seq(ParamBytes) :
                 /\ p = rest \o <<item.final>>
                 /\ Len(params) <= CsiBufLen - 1 => csiBuf \o rest = params

\* The parser has read an item up to the bytes p, or not yet begun with it.
Inside(item, p) ==
    \/ state = "normal" /\ p = Encoded(item)
    \/ item.kind = "csi" /\ InCsi(item, p)
    \/ item.kind = "esc" /\ state = "esc" /\ p = <<item.byte>>
    \/ item.kind = "quiet" /\ InQuiet(p)

Still == UNCHANGED <<ops, penVars, modeVars>>

\* What the last byte of an item does. The parameters obeyed are those sent, when
\* they fit.
Acts(item) ==
    \/ item.kind = "quiet" /\ Still
    \/ item.kind \in {"char", "control"} /\ ops' = Append(ops, item) /\ UNCHANGED <<penVars, modeVars>>
    \/ /\ item.kind = "esc" /\ ops' = Append(ops, item)
       /\ savedPen' = IF item.byte = "7" THEN pen ELSE savedPen
       /\ pen' = IF item.byte = "8" THEN savedPen ELSE IF item.byte = "c" THEN DefaultPen ELSE pen
       /\ IF item.byte = "c"
          THEN appCursorKeys' = FALSE /\ cursorVisible' = TRUE
          ELSE UNCHANGED modeVars
    \/ /\ item.kind = "csi" /\ savedPen' = savedPen
       /\ \E params \in Seq(Int) :
             /\ Len(EncodedParams(item.params)) <= CsiBufLen - 1
                   => params = ParseParams(EncodedParams(item.params))
             /\ ops' = Append(ops, Csi(item.private, params, item.final))
             /\ pen' = IF ~item.private /\ item.final = "m" THEN ApplySgr(params) ELSE pen
             /\ IF item.private
                THEN /\ appCursorKeys' = ModeAfter(1, appCursorKeys, params, item.final)
                     /\ cursorVisible' = ModeAfter(25, cursorVisible, params, item.final)
                ELSE UNCHANGED modeVars

Moves(item, p) ==
    \/ Tail(p) # <<>> /\ Still /\ Inside(item, Tail(p))'
    \/ Tail(p) = <<>> /\ state' = "normal" /\ Acts(item)

\* What is left of a run of bytes.
LEMMA TailIs ==
    ASSUME NEW p \in Seq(Bytes), p # <<>>
    PROVE  /\ Len(p) \in Nat \ {0} /\ Tail(p) \in Seq(Bytes) /\ Len(Tail(p)) = Len(p) - 1
           /\ \A i \in 1..Len(Tail(p)) : Tail(p)[i] = p[i + 1]
           /\ Len(p) = 1 => Tail(p) = <<>>
           /\ Len(p) > 1 => Tail(p) # <<>>
<1>1. /\ Len(p) \in Nat \ {0} /\ Tail(p) \in Seq(Bytes) /\ Len(Tail(p)) = Len(p) - 1
      /\ \A i \in 1..Len(Tail(p)) : Tail(p)[i] = p[i + 1]
  BY HeadTailProperties, LenProperties, EmptySeq
<1> DEFINE t == Tail(p)
<1>2. t \in Seq(Bytes) /\ Len(t) = Len(p) - 1 /\ Len(p) \in Nat
  BY <1>1
<1> HIDE DEF t
<1>3. t = <<>> <=> Len(t) = 0
  BY <1>2, EmptySeq
<1> QED
  BY <1>1, <1>2, <1>3 DEF t

\* The rest of a title without its first byte.
LEMMA OscRestTail ==
    ASSUME NEW p \in Seq(Bytes), OscRest(p)
    PROVE  /\ Len(p) = 1 => p[1] = "bel"
           /\ Len(p) > 1 => p[1] \notin OscEnd /\ OscRest(Tail(p))
<1>1. p # <<>> /\ p[Len(p)] = "bel" /\ \A i \in 1..(Len(p) - 1) : p[i] \notin OscEnd
  BY DEF OscRest
<1>2. Len(p) \in Nat \ {0} /\ Len(Tail(p)) = Len(p) - 1
      /\ \A i \in 1..Len(Tail(p)) : Tail(p)[i] = p[i + 1]
  BY <1>1, TailIs
<1>3. ASSUME Len(p) > 1
      PROVE  p[1] \notin OscEnd /\ OscRest(Tail(p))
  <2> DEFINE t == Tail(p)
             n == Len(p)
  <2>1. /\ n \in Nat /\ n > 1 /\ Len(t) = n - 1 /\ p[n] = "bel" /\ t # <<>>
        /\ \A i \in 1..Len(t) : t[i] = p[i + 1]
        /\ \A i \in 1..(n - 1) : p[i] \notin OscEnd
    BY <1>1, <1>2, <1>3, TailIs
  <2> HIDE DEF t, n, OscEnd
  <2>2. t[Len(t)] = p[n]
    BY <2>1
  <2>3. \A i \in 1..(Len(t) - 1) : t[i] \notin OscEnd
    BY <2>1
  <2>4. p[1] \notin OscEnd
    BY <2>1
  <2> QED
    BY <2>1, <2>2, <2>3, <2>4 DEF OscRest, t
<1> QED
  BY <1>1, <1>3

LEMMA ShortRuns ==
    /\ \A c : <<c>>[1] = c /\ Tail(<<c>>) = <<>>
    /\ \A c, d : <<c, d>>[1] = c /\ Tail(<<c, d>>) = <<d>>
<1>1. ASSUME NEW c PROVE <<c>>[1] = c /\ Tail(<<c>>) = <<>>
  OBVIOUS
<1>2. ASSUME NEW c, NEW d PROVE <<c, d>>[1] = c /\ Tail(<<c, d>>) = <<d>>
  OBVIOUS
<1> QED
  BY <1>1, <1>2, Zenon

\* A byte where no item is being read begins one.
LEMMA NormalMoves ==
    ASSUME NEW item \in Known, NEW p \in Seq(Bytes), p # <<>>, Inside(item, p),
           NormalByte, state = "normal", b = p[1]
    PROVE  Moves(item, p)
<1>1. p = Encoded(item)
  BY DEF Inside, InCsi, InQuiet
<1>2. /\ state' = IF p[1] = "esc" THEN "esc" ELSE "normal"
      /\ ops' = IF p[1] \in Chars THEN Append(ops, Char(p[1]))
                ELSE IF p[1] \in Controls \ {"esc"} THEN Append(ops, Control(p[1]))
                ELSE ops
      /\ UNCHANGED <<penVars, modeVars>>
  BY DEF NormalByte
<1>3. /\ item \in Meanings
      /\ item.kind = "char" => item = Char(item.char) /\ item.char \in Chars /\ p = <<item.char>>
      /\ item.kind = "control" => /\ item = Control(item.byte) /\ item.byte \in Controls \ {"esc"}
                                  /\ p = <<item.byte>>
      /\ item.kind = "esc" => /\ item = Esc(item.byte) /\ item.byte \in {"7", "8", "c"}
                              /\ p = <<"esc", item.byte>>
      /\ item.kind = "quiet" => Skipped(item.bytes) /\ p = item.bytes
      /\ item.kind \in {"char", "control", "csi", "esc", "quiet"}
  BY <1>1, KnownIs
<1>4. "esc" \notin Chars /\ "esc" \notin Ignored /\ Chars \cap Controls = {} /\ Ignored \cap Controls = {}
      /\ Chars \cap Ignored = {}
  BY Alphabet, CharsDisjoint DEF Ignored, Controls
<1>5. p[1] = "esc" => state' = "esc" /\ Still
  BY <1>2, <1>4, Zenon DEF Still
<1>6. CASE item.kind = "char"
  <2>1. p[1] = item.char /\ Tail(p) = <<>>
    BY <1>3, <1>6, ShortRuns, Zenon
  <2>2. ops' = Append(ops, item) /\ state' = "normal" /\ UNCHANGED <<penVars, modeVars>>
    BY <1>2, <1>3, <1>4, <1>6, <2>1, Zenon
  <2> QED
    BY <1>6, <2>1, <2>2, Zenon DEF Moves, Acts
<1>7. CASE item.kind = "control"
  <2>1. p[1] = item.byte /\ Tail(p) = <<>>
    BY <1>3, <1>7, ShortRuns, Zenon
  <2>2. ops' = Append(ops, item) /\ state' = "normal" /\ UNCHANGED <<penVars, modeVars>>
    <3>1. item.byte \notin Chars /\ item.byte # "esc" /\ item.byte \in Controls \ {"esc"}
      BY <1>3, <1>4, <1>7, Zenon
    <3> QED
      BY <1>2, <1>3, <1>7, <2>1, <3>1, Zenon
  <2> QED
    BY <1>7, <2>1, <2>2, Zenon DEF Moves, Acts
<1>8. CASE item.kind = "esc"
  <2>1. p[1] = "esc" /\ Tail(p) = <<item.byte>>
    <3> DEFINE e == "esc"
               c == item.byte
    <3>1. p = <<e, c>>
      BY <1>3, <1>8
    <3> HIDE DEF e, c
    <3>2. p[1] = e /\ Tail(p) = <<c>>
      BY <3>1, ShortRuns
    <3> QED
      BY <3>2 DEF e, c
  <2>2. Tail(p) # <<>>
    BY <2>1
  <2>3. Inside(item, Tail(p))'
    BY <1>5, <1>8, <2>1, Zenon DEF Inside
  <2> QED
    BY <1>5, <2>1, <2>2, <2>3, Zenon DEF Moves
<1>9. CASE item.kind = "csi"
  <2> DEFINE body == Mark(item) \o EncodedParams(item.params)
             final == <<item.final>>
  <2>1. body \in Seq(Collected) /\ p = <<"esc", "[">> \o (body \o final)
    BY <1>1, <1>3, <1>9, EncodedCsi DEF Mark
  <2>2. item.final \in Bytes /\ Collected \subseteq Bytes /\ "esc" \in Bytes /\ "[" \in Bytes
    BY <1>3, <1>9, MeaningParts, Alphabet
  <2>3. body \o final \in Seq(Bytes)
    <3>1. body \in Seq(Bytes)
      BY <2>1, <2>2, SeqMonotone
    <3>2. final \in Seq(Bytes)
      BY <2>2
    <3> HIDE DEF body, final
    <3> QED
      BY <3>1, <3>2, ConcatProperties
  <2> DEFINE r == body \o final
             t == <<"[">> \o r
  <2> HIDE DEF r
  <2>4. p = <<"esc">> \o t /\ t \in Seq(Bytes) /\ t # <<>>
    <3>1. <<"esc">> \in Seq(Bytes) /\ <<"[">> \in Seq(Bytes) /\ r \in Seq(Bytes)
      BY <2>2, <2>3 DEF r
    <3>2. <<"esc", "[">> = <<"esc">> \o <<"[">>
      OBVIOUS
    <3> DEFINE x == <<"esc">>
               y == <<"[">>
    <3>3. x \in Seq(Bytes) /\ y \in Seq(Bytes) /\ p = (x \o y) \o r
      BY <2>1, <3>1, <3>2 DEF r
    <3> HIDE DEF x, y
    <3>4. (x \o y) \o r = x \o (y \o r)
      <4>1. x \in Seq(Bytes) /\ y \in Seq(Bytes) /\ r \in Seq(Bytes)
        BY <3>1, <3>3
      <4>2. Associates(x, y, r)
        BY <4>1, ConcatAssociates
      <4> QED
        BY <4>2, Zenon DEF Associates
    <3>5. y \o r \in Seq(Bytes)
      BY <3>1, <3>3, ConcatProperties
    <3>6. <<"[">> \o r # <<>>
      BY <2>2, <3>1, FrontAdded
    <3> QED
      BY <3>3, <3>4, <3>5, <3>6 DEF x, y
  <2> HIDE DEF t
  <2>5. p[1] = "esc" /\ Tail(p) = t
    BY <2>2, <2>4, FrontAdded
  <2>6. InCsi(item, t)'
    BY <1>5, <2>5, Zenon DEF InCsi, t, r
  <2> QED
    BY <1>5, <1>9, <2>4, <2>5, <2>6, Zenon DEF Moves, Inside
<1>10. CASE item.kind = "quiet"
  <2> DEFINE t == Tail(p)
             n == Len(p)
  <2>1. Skipped(p)
    BY <1>3, <1>10
  <2>2. /\ n \in Nat \ {0} /\ t \in Seq(Bytes) /\ Len(t) = n - 1
        /\ \A i \in 1..Len(t) : t[i] = p[i + 1]
        /\ n = 1 => t = <<>>
        /\ n > 1 => t # <<>>
    BY TailIs
  <2>3. CASE \E c \in Ignored : p = <<c>>
    <3>1. PICK c \in Ignored : p = <<c>>
      BY <2>3
    <3>2. p[1] = c /\ t = <<>>
      BY <3>1
    <3>3. c \notin Chars /\ c \notin Controls
      BY <1>4, Zenon
    <3>4. state' = "normal" /\ Still
      <4>1. c # "esc"
        BY <1>4, Zenon
      <4> QED
        BY <1>2, <3>2, <3>3, <4>1, Zenon DEF Still
    <3> QED
      BY <1>10, <3>2, <3>4, Zenon DEF Moves, Acts
  <2>4. CASE n = 3 /\ p[1] = "esc" /\ p[2] \in CharsetNames
    <3> HIDE DEF t
    <3>1. Len(t) = 2 /\ t[1] \in CharsetNames /\ t # <<>>
      <4> HIDE DEF n
      <4> QED
        BY <2>2, <2>4
    <3>2. InQuiet(t)'
      BY <1>5, <2>4, <3>1, Zenon DEF InQuiet
    <3> QED
      BY <1>5, <1>10, <2>4, <3>1, <3>2, Zenon DEF Moves, Inside, t
  <2>5. CASE /\ n >= 3 /\ p[1] = "esc" /\ p[2] = "]" /\ p[n] = "bel"
             /\ \A i \in 3..(n - 1) : p[i] \notin OscEnd
    <3> DEFINE u == Tail(t)
    <3>1. Len(t) >= 2 /\ t[1] = "]" /\ t # <<>>
      <4> HIDE DEF n, t
      <4> QED
        BY <2>2, <2>5
    <3> HIDE DEF n, t
    <3>2. u \in Seq(Bytes) /\ Len(u) = Len(t) - 1 /\ u # <<>>
          /\ \A i \in 1..Len(u) : u[i] = t[i + 1]
      <4>1. t \in Seq(Bytes) /\ t # <<>> /\ Len(t) > 1
        BY <2>2, <3>1
      <4> QED
        BY <4>1, TailIs
    <3> HIDE DEF u
    <3>3. u[Len(u)] = "bel" /\ \A i \in 1..(Len(u) - 1) : u[i] \notin OscEnd
      <4>1. Len(u) = n - 2 /\ \A i \in 1..Len(u) : u[i] = p[i + 2]
        BY <2>2, <2>5, <3>2
      <4>2. n \in Nat /\ n >= 3
        BY <2>2, <2>5
      <4> HIDE DEF OscEnd
      <4>3. u[Len(u)] = "bel"
        BY <2>5, <4>1, <4>2
      <4>4. ASSUME NEW i \in 1..(Len(u) - 1) PROVE u[i] \notin OscEnd
        <5>1. i \in 1..Len(u) /\ i + 2 \in 3..(n - 1)
          BY <4>1, <4>2
        <5> QED
          BY <2>5, <4>1, <5>1
      <4> QED
        BY <4>3, <4>4
    <3>4. OscRest(u)
      BY <3>2, <3>3 DEF OscRest
    <3>5. InQuiet(t)'
      BY <1>5, <2>5, <3>1, <3>4, Zenon DEF InQuiet, OscRest, u
    <3> QED
      BY <1>5, <1>10, <2>5, <3>1, <3>5, Zenon DEF Moves, Inside, t
  <2> QED
    BY <2>1, <2>3, <2>4, <2>5 DEF Skipped, Last
<1> QED
  BY <1>3, <1>6, <1>7, <1>8, <1>9, <1>10

\* The byte after ESC.
LEMMA EscMoves ==
    ASSUME NEW item \in Known, NEW p \in Seq(Bytes), p # <<>>, Inside(item, p),
           EscByte, state = "esc", b = p[1]
    PROVE  Moves(item, p)
<1>1. /\ state' = AfterEsc(p[1])
      /\ IF p[1] \in {"[", "c"}
         THEN csiBuf' = <<>> /\ csiPrivate' = FALSE
         ELSE UNCHANGED <<csiBuf, csiPrivate>>
      /\ ops' = IF p[1] \in {"7", "8", "c"} THEN Append(ops, Esc(p[1])) ELSE ops
      /\ savedPen' = IF p[1] = "7" THEN pen ELSE savedPen
      /\ pen' = IF p[1] = "8" THEN savedPen ELSE IF p[1] = "c" THEN DefaultPen ELSE pen
      /\ IF p[1] = "c"
         THEN appCursorKeys' = FALSE /\ cursorVisible' = TRUE
         ELSE UNCHANGED modeVars
  BY DEF EscByte
<1>2. /\ item \in Meanings
      /\ item.kind = "esc" => item = Esc(item.byte) /\ item.byte \in {"7", "8", "c"}
  BY KnownIs
<1>3. p[1] \notin {"7", "8", "c"} => Still
  <2>1. SUFFICES ASSUME p[1] # "7", p[1] # "8", p[1] # "c" PROVE Still
    OBVIOUS
  <2> QED
    BY <1>1, <2>1, Zenon DEF Still, penVars
<1>4. \/ /\ item.kind = "csi"
         /\ p = <<"[">> \o ((Mark(item) \o EncodedParams(item.params)) \o <<item.final>>)
      \/ item.kind = "esc" /\ p = <<item.byte>>
      \/ item.kind = "quiet" /\ Len(p) = 2 /\ p[1] \in CharsetNames
      \/ item.kind = "quiet" /\ Len(p) >= 2 /\ p[1] = "]" /\ OscRest(Tail(p))
  BY DEF Inside, InCsi, InQuiet
<1>5. CASE /\ item.kind = "csi"
           /\ p = <<"[">> \o ((Mark(item) \o EncodedParams(item.params)) \o <<item.final>>)
  <2> DEFINE params == EncodedParams(item.params)
             final == <<item.final>>
             r == (Mark(item) \o params) \o final
  <2>1. params \in Seq(ParamBytes) /\ params \in Seq(Bytes) /\ final \in Seq(Bytes)
        /\ <<"?">> \in Seq(Bytes) /\ "[" \in Bytes
    <3>1. item.params \in Seq(Nat \cup {Missing}) /\ item.final \in Bytes
      BY <1>2, <1>5, MeaningParts, Alphabet
    <3>2. "?" \in Bytes /\ "[" \in Bytes /\ ParamBytes \subseteq Bytes
      BY Alphabet
    <3>3. params \in Seq(ParamBytes)
      BY <3>1, EncodedParamsType
    <3>4. final \in Seq(Bytes) /\ <<"?">> \in Seq(Bytes)
      BY <3>1, <3>2
    <3> HIDE DEF params
    <3>5. params \in Seq(Bytes)
      BY <3>2, <3>3, SeqMonotone
    <3> QED
      BY <3>2, <3>3, <3>4, <3>5
  <2> HIDE DEF params, final
  <2>2. /\ item.private => r = <<"?">> \o (params \o final)
        /\ ~item.private => r = params \o final
    <3>1. item.private => Mark(item) = <<"?">>
      BY Zenon DEF Mark
    <3>2. ~item.private => Mark(item) = <<>>
      BY Zenon DEF Mark
    <3>3. <<>> \o params = params
      BY <2>1, ConcatEmptySeq
    <3> DEFINE q == <<"?">>
    <3>4. q \in Seq(Bytes) /\ params \in Seq(Bytes) /\ final \in Seq(Bytes)
      BY <2>1
    <3> HIDE DEF q
    <3>5. (q \o params) \o final = q \o (params \o final)
      <4>1. Associates(q, params, final)
        BY <3>4, ConcatAssociates
      <4> QED
        BY <4>1, Zenon DEF Associates
    <3>6. item.private => r = <<"?">> \o (params \o final)
      BY <3>1, <3>5 DEF q
    <3>7. ~item.private => r = params \o final
      BY <3>2, <3>3
    <3> QED
      BY <3>6, <3>7
  <2>3. r \in Seq(Bytes) /\ r # <<>>
    <3>1. params \o final \in Seq(Bytes) /\ params \o final # <<>>
      <4>1. Len(params \o final) = Len(params) + Len(final) /\ params \o final \in Seq(Bytes)
        BY <2>1, ConcatProperties
      <4>2. Len(final) = 1 /\ Len(params) \in Nat
        BY <2>1, LenProperties DEF final
      <4>3. Len(params \o final) # 0
        BY <4>1, <4>2
      <4> QED
        BY <4>1, <4>3, EmptySeq
    <3> DEFINE s == params \o final
    <3> HIDE DEF s
    <3>2. s \in Seq(Bytes) /\ "?" \in Bytes
      BY <3>1, Alphabet DEF s
    <3>3. <<"?">> \o s \in Seq(Bytes) /\ <<"?">> \o s # <<>>
      BY <3>2, FrontAdded
    <3> QED
      BY <2>2, <3>1, <3>3, Zenon DEF s
  <2>4. p = <<"[">> \o r
    BY <1>5 DEF params, final
  <2> HIDE DEF r
  <2>5. p[1] = "[" /\ Tail(p) = r
    BY <2>1, <2>3, <2>4, FrontAdded
  <2>6. state' = "csi" /\ csiBuf' = <<>> /\ csiPrivate' = FALSE /\ Still
    BY <1>1, <1>3, <2>5, Zenon DEF AfterEsc
  <2>7. InCsi(item, r)'
    <3>1. CASE item.private
      BY <2>2, <2>6, <3>1, Zenon DEF InCsi, params, final
    <3>2. CASE ~item.private
      <4>1. item.private = FALSE
        BY <1>2, <1>5, <3>2, MeaningParts, Zenon
      <4>2. <<>> \o params = params
        BY <2>1, ConcatEmptySeq
      <4>3. params \in Seq(ParamBytes) /\ r = params \o final
        BY <2>1, <2>2, <3>2
      <4> QED
        BY <2>6, <4>1, <4>2, <4>3, Zenon DEF InCsi, params, final
    <3> QED
      BY <3>1, <3>2
  <2> QED
    BY <1>5, <2>3, <2>5, <2>6, <2>7, Zenon DEF Moves, Inside
<1>6. CASE item.kind = "esc" /\ p = <<item.byte>>
  <2>1. p[1] = item.byte /\ Tail(p) = <<>>
    BY <1>6, ShortRuns, Zenon
  <2>2. p[1] \in {"7", "8", "c"} /\ item = Esc(p[1])
    BY <1>2, <1>6, <2>1, Zenon
  <2>3. state' = "normal"
    BY <1>1, <2>2 DEF AfterEsc, CharsetNames
  <2>4. ops' = Append(ops, item)
    BY <1>1, <2>2, Zenon
  <2>5. Acts(item)
    BY <1>1, <1>6, <2>1, <2>4, Zenon DEF Acts
  <2> QED
    BY <2>1, <2>3, <2>5, Zenon DEF Moves
<1>7. CASE item.kind = "quiet" /\ Len(p) = 2 /\ p[1] \in CharsetNames
  <2>1. state' = "charset" /\ Still
    <3>1. p[1] \notin {"7", "8", "c", "[", "]"}
      BY <1>7 DEF CharsetNames
    <3> QED
      BY <1>1, <1>3, <1>7, <3>1, Zenon DEF AfterEsc
  <2>2. Len(Tail(p)) = 1 /\ Tail(p) # <<>>
    <3>1. Len(Tail(p)) = Len(p) - 1 /\ (Len(p) > 1 => Tail(p) # <<>>)
      BY TailIs
    <3> QED
      BY <1>7, <3>1
  <2>3. InQuiet(Tail(p))'
    BY <2>1, <2>2, Zenon DEF InQuiet
  <2> QED
    BY <1>7, <2>1, <2>2, <2>3, Zenon DEF Moves, Inside
<1>8. CASE item.kind = "quiet" /\ Len(p) >= 2 /\ p[1] = "]" /\ OscRest(Tail(p))
  <2>1. state' = "osc" /\ Still
    BY <1>1, <1>3, <1>8, Zenon DEF AfterEsc
  <2>2. Tail(p) # <<>>
    BY <1>8 DEF OscRest
  <2>3. InQuiet(Tail(p))'
    BY <1>8, <2>1, Zenon DEF InQuiet, OscRest
  <2> QED
    BY <1>8, <2>1, <2>2, <2>3, Zenon DEF Moves, Inside
<1> QED
  BY <1>4, <1>5, <1>6, <1>7, <1>8

LEMMA CharsetMoves ==
    ASSUME NEW item \in Known, NEW p \in Seq(Bytes), p # <<>>, Inside(item, p),
           CharsetByte, state = "charset"
    PROVE  Moves(item, p)
<1>1. item.kind = "quiet" /\ Len(p) = 1
  BY DEF Inside, InCsi, InQuiet
<1>2. Tail(p) = <<>>
  BY <1>1, TailIs
<1>3. state' = "normal" /\ Still
  BY DEF CharsetByte, Still
<1> QED
  BY <1>1, <1>2, <1>3, Zenon DEF Moves, Acts

LEMMA OscMoves ==
    ASSUME NEW item \in Known, NEW p \in Seq(Bytes), p # <<>>, Inside(item, p),
           OscByte, state = "osc", b = p[1]
    PROVE  Moves(item, p)
<1>1. item.kind = "quiet" /\ OscRest(p)
  BY DEF Inside, InCsi, InQuiet
<1>2. state' = (IF p[1] \in OscEnd THEN "normal" ELSE "osc") /\ Still
  BY DEF OscByte, OscEnds, Still
<1>3. Len(p) \in Nat \ {0}
  BY TailIs
<1>4. CASE Len(p) = 1
  <2>1. p[1] = "bel" /\ Tail(p) = <<>>
    BY <1>1, <1>4, OscRestTail, TailIs
  <2>2. state' = "normal"
    BY <1>2, <2>1 DEF OscEnd
  <2> QED
    BY <1>1, <1>2, <2>1, <2>2, Zenon DEF Moves, Acts
<1>5. CASE Len(p) > 1
  <2>1. p[1] \notin OscEnd /\ OscRest(Tail(p)) /\ Tail(p) # <<>>
    BY <1>1, <1>5, OscRestTail, TailIs
  <2>2. state' = "osc"
    BY <1>2, <2>1, Zenon
  <2>3. InQuiet(Tail(p))'
    BY <2>1, <2>2, Zenon DEF InQuiet, OscRest
  <2> QED
    BY <1>1, <1>2, <2>1, <2>3, Zenon DEF Moves, Inside
<1>6. Len(p) = 1 \/ Len(p) > 1
  <2> DEFINE n == Len(p)
  <2>1. n \in Nat \ {0}
    BY <1>3
  <2> HIDE DEF n
  <2>2. n = 1 \/ n > 1
    BY <2>1
  <2> QED
    BY <2>2 DEF n
<1> QED
  BY <1>4, <1>5, <1>6, Zenon

\* Between ESC [ and the byte that ends it.
LEMMA CsiWhere ==
    ASSUME NEW item \in Known, NEW p \in Seq(Bytes), p # <<>>, Inside(item, p), state = "csi"
    PROVE  /\ item.kind = "csi" /\ item \in Meanings /\ item.private \in BOOLEAN
           /\ item.final \in Bytes /\ item.final \notin Collected
           /\ EncodedParams(item.params) \in Seq(ParamBytes)
           /\ \/ /\ csiBuf = <<>> /\ csiPrivate = FALSE /\ item.private /\ p[1] = "?"
                 /\ Tail(p) = EncodedParams(item.params) \o <<item.final>>
              \/ /\ csiPrivate = item.private
                 /\ \E rest \in Seq(ParamBytes) :
                       /\ p = rest \o <<item.final>>
                       /\ Len(EncodedParams(item.params)) <= CsiBufLen - 1
                             => csiBuf \o rest = EncodedParams(item.params)
<1> DEFINE params == EncodedParams(item.params)
           final == <<item.final>>
<1>1. item.kind = "csi" /\ InCsi(item, p) /\ item \in Meanings
  BY KnownIs DEF Inside, InQuiet
<1>2. item.private \in BOOLEAN /\ item.params \in Seq(Nat \cup {Missing})
      /\ item.final \in Chars \ Collected
  BY <1>1, MeaningParts
<1>3. item.final \in Bytes /\ item.final \notin Collected /\ "?" \in Bytes /\ ParamBytes \subseteq Bytes
  BY <1>2, Alphabet
<1>4. params \in Seq(ParamBytes) /\ final \in Seq(Bytes)
  <2>1. params \in Seq(ParamBytes)
    BY <1>2, EncodedParamsType
  <2>2. final \in Seq(Bytes)
    BY <1>3
  <2> QED
    BY <2>1, <2>2
<1> HIDE DEF params, final
<1>5. params \o final \in Seq(Bytes)
  BY <1>3, <1>4, SeqMonotone, ConcatProperties
<1>6. \/ /\ csiBuf = <<>> /\ csiPrivate = FALSE /\ item.private
         /\ p = <<"?">> \o (params \o final)
      \/ /\ csiPrivate = item.private
         /\ \E rest \in Seq(ParamBytes) :
               p = rest \o final /\ (Len(params) <= CsiBufLen - 1 => csiBuf \o rest = params)
  <2>1. state # "esc"
    OBVIOUS
  <2> QED
    BY <1>1, <2>1, Zenon DEF InCsi, params, final
<1> DEFINE s == params \o final
<1> HIDE DEF s
<1>7. (<<"?">> \o s)[1] = "?" /\ Tail(<<"?">> \o s) = s
  BY <1>3, <1>5, FrontAdded DEF s
<1>8. p = <<"?">> \o s => p[1] = "?" /\ Tail(p) = s
  BY <1>7
<1> QED
  BY <1>1, <1>2, <1>3, <1>4, <1>6, <1>8, Zenon DEF s, params, final

\* What begins a run of parameters with the byte that ends it.
LEMMA RestFront ==
    ASSUME NEW rest \in Seq(ParamBytes), NEW c \in Bytes, c \notin Collected,
           NEW p \in Seq(Bytes), p = rest \o <<c>>
    PROVE  \/ rest = <<>> /\ p[1] = c /\ Tail(p) = <<>>
           \/ /\ p[1] \in ParamBytes /\ Tail(rest) \in Seq(ParamBytes)
              /\ Tail(p) = Tail(rest) \o <<c>> /\ Tail(p) # <<>>
              /\ rest = <<p[1]>> \o Tail(rest) /\ rest # <<>>
<1> DEFINE final == <<c>>
<1>1. final \in Seq(Bytes) /\ final[1] = c /\ Tail(final) = <<>> /\ Len(final) = 1
  OBVIOUS
<1>2. rest \in Seq(Bytes)
  BY Alphabet, SeqMonotone
<1>3. p = rest \o final
  OBVIOUS
<1> HIDE DEF final
<1>4. CASE rest = <<>>
  <2>1. p = final
    BY <1>1, <1>3, <1>4, ConcatEmptySeq, SMTT(40)
  <2> QED
    BY <1>1, <1>4, <2>1
<1>5. CASE rest # <<>>
  <2> DEFINE t == Tail(rest)
             x == Head(rest)
  <2>1. rest = <<x>> \o t /\ x \in ParamBytes /\ t \in Seq(ParamBytes) /\ rest[1] = x
    BY <1>5, FrontTaken
  <2>2. Tail(p) = t \o final /\ Head(p) = x /\ p # <<>>
    BY <1>1, <1>2, <1>3, <1>5, FrontMoves
  <2>3. p[1] = x
    BY <2>2, FrontTaken
  <2>4. Tail(p) # <<>>
    <3>1. t \in Seq(Bytes)
      BY <2>1, Alphabet, SeqMonotone
    <3> HIDE DEF t
    <3>2. t \o final \in Seq(Bytes) /\ Len(t \o final) = Len(t) + Len(final) /\ Len(t) \in Nat
      BY <1>1, <3>1, ConcatProperties, LenProperties, ZenonT(60)
    <3>3. Len(t \o final) # 0
      BY <1>1, <3>2
    <3> QED
      BY <2>2, <3>2, <3>3, EmptySeq
  <2> HIDE DEF x, t
  <2> QED
    BY <1>5, <2>1, <2>2, <2>3, <2>4 DEF t, final
<1> QED
  BY <1>4, <1>5

LEMMA CsiPrivateMoves ==
    ASSUME NEW item \in Known, NEW p \in Seq(Bytes), p # <<>>, Inside(item, p),
           CsiPrivateByte, state = "csi", b = p[1]
    PROVE  Moves(item, p)
<1> DEFINE params == EncodedParams(item.params)
<1>1. p[1] = "?" /\ csiBuf = <<>> /\ csiPrivate' = TRUE /\ state' = "csi" /\ csiBuf' = <<>> /\ Still
  BY DEF CsiPrivateByte, Still
<1>2. /\ item.kind = "csi" /\ item.private \in BOOLEAN
      /\ item.final \in Bytes /\ item.final \notin Collected /\ params \in Seq(ParamBytes)
  BY CsiWhere, Zenon
<1>3. "?" \notin ParamBytes /\ "?" \in Collected
  BY DEF ParamBytes, Digits, Collected
<1> HIDE DEF params
<1>4. item.private /\ Tail(p) = params \o <<item.final>>
  <2>1. SUFFICES ASSUME NEW rest \in Seq(ParamBytes), p = rest \o <<item.final>> PROVE FALSE
    BY CsiWhere, Zenon DEF params
  <2>2. p[1] = item.final \/ p[1] \in ParamBytes
    BY <1>2, <2>1, RestFront
  <2> QED
    BY <1>1, <1>2, <1>3, <2>2, Zenon
<1>5. Tail(p) # <<>>
  <2> DEFINE final == <<item.final>>
  <2>1. final \in Seq(Bytes) /\ Len(final) = 1
    BY <1>2
  <2>2. params \in Seq(Bytes)
    BY <1>2, Alphabet, SeqMonotone
  <2> HIDE DEF final
  <2>3. params \o final \in Seq(Bytes) /\ Len(params \o final) = Len(params) + Len(final)
        /\ Len(params) \in Nat
    BY <2>1, <2>2, ConcatProperties, LenProperties
  <2>4. Len(params \o final) # 0
    BY <2>1, <2>3
  <2> QED
    BY <1>4, <2>3, <2>4, EmptySeq DEF final
<1>6. csiPrivate' = item.private
  BY <1>1, <1>2, <1>4, Zenon
<1>7. csiBuf' \o params = params
  BY <1>1, <1>2, ConcatEmptySeq
<1>8. InCsi(item, Tail(p))'
  BY <1>1, <1>2, <1>4, <1>6, <1>7, Zenon DEF InCsi, params
<1> QED
  BY <1>1, <1>2, <1>5, <1>8, Zenon DEF Moves, Inside

LEMMA CsiParamMoves ==
    ASSUME TypeOK, NEW item \in Known, NEW p \in Seq(Bytes), p # <<>>, Inside(item, p),
           CsiParamByte, state = "csi", b = p[1]
    PROVE  Moves(item, p)
<1> DEFINE params == EncodedParams(item.params)
           final == <<item.final>>
<1>1. /\ p[1] \in ParamBytes /\ csiPrivate' = csiPrivate /\ state' = "csi" /\ Still
      /\ csiBuf' = IF Len(csiBuf) < CsiBufLen - 1 THEN Append(csiBuf, p[1]) ELSE csiBuf
  BY DEF CsiParamByte, Collect, Still
<1>2. /\ item.kind = "csi" /\ item.final \in Bytes /\ item.final \notin Collected
      /\ params \in Seq(ParamBytes)
  BY CsiWhere, Zenon
<1>3. "?" \notin ParamBytes /\ ParamBytes \subseteq Collected
  BY DEF ParamBytes, Digits, Collected
<1> HIDE DEF params
<1>4. PICK rest \in Seq(ParamBytes) :
         p = rest \o final /\ (Len(params) <= CsiBufLen - 1 => csiBuf \o rest = params)
  BY <1>1, <1>3, CsiWhere, Zenon DEF params
<1>5. csiPrivate = item.private
  BY <1>1, <1>3, CsiWhere, Zenon
<1> DEFINE t == Tail(rest)
           x == p[1]
<1>6. /\ x \in ParamBytes /\ t \in Seq(ParamBytes) /\ Tail(p) = t \o final /\ Tail(p) # <<>>
      /\ rest = <<x>> \o t
  <2>1. p[1] # item.final
    BY <1>1, <1>2, <1>3
  <2> QED
    BY <1>1, <1>2, <1>4, <2>1, RestFront, ZenonT(60)
<1> HIDE DEF t, x
<1>7. ASSUME Len(params) <= CsiBufLen - 1
      PROVE  csiBuf' \o t = params
  <2>1. csiBuf \in Seq(ParamBytes) /\ csiBuf \o rest = params
    BY <1>4, <1>7 DEF TypeOK
  <2> DEFINE e == <<x>>
  <2>2. e \in Seq(ParamBytes) /\ Len(e) = 1
    BY <1>6
  <2>3. Append(csiBuf, x) = csiBuf \o e
    BY <1>6, <2>1
  <2> HIDE DEF e
  <2>4. (csiBuf \o e) \o t = csiBuf \o (e \o t)
    <3>1. csiBuf \in Seq(ParamBytes) /\ e \in Seq(ParamBytes) /\ t \in Seq(ParamBytes)
      BY <1>6, <2>1, <2>2
    <3>2. Associates(csiBuf, e, t)
      BY <3>1, ConcatAssociates
    <3> QED
      BY <3>2, Zenon DEF Associates
  <2>5. Len(csiBuf) < CsiBufLen - 1
    <3>1. Len(csiBuf \o rest) = Len(csiBuf) + Len(rest)
      BY <2>1, ConcatProperties
    <3>2. Len(e \o t) = Len(e) + Len(t)
      BY <1>6, <2>2, ConcatProperties
    <3>3. rest = e \o t
      BY <1>6 DEF e
    <3>4. Len(csiBuf) \in Nat /\ Len(t) \in Nat /\ Len(params) \in Nat
      BY <1>2, <1>6, <2>1, LenProperties
    <3> DEFINE l == Len(csiBuf)
               m == Len(t)
               k == Len(params)
    <3>5. k = l + (1 + m) /\ k <= CsiBufLen - 1 /\ l \in Nat /\ m \in Nat
      BY <1>7, <2>1, <2>2, <3>1, <3>2, <3>3, <3>4
    <3> HIDE DEF l, m, k
    <3> QED
      BY <3>5 DEF l
  <2>6. csiBuf' = Append(csiBuf, x)
    BY <1>1, <2>5 DEF x
  <2> QED
    BY <1>6, <2>1, <2>3, <2>4, <2>6 DEF e
<1>8. InCsi(item, Tail(p))'
  BY <1>1, <1>2, <1>5, <1>6, <1>7, Zenon DEF InCsi, params
<1> QED
  BY <1>1, <1>2, <1>6, <1>8, Zenon DEF Moves, Inside

LEMMA CsiFinalMoves ==
    ASSUME TypeOK, NEW item \in Known, NEW p \in Seq(Bytes), p # <<>>, Inside(item, p),
           CsiFinalByte, state = "csi", b = p[1]
    PROVE  Moves(item, p)
<1> DEFINE params == EncodedParams(item.params)
           final == <<item.final>>
<1>1. p[1] \notin ParamBytes /\ ~(p[1] = "?" /\ csiBuf = <<>>) /\ state' = "normal"
  BY DEF CsiFinalByte
<1>2. /\ item.kind = "csi" /\ item.final \in Bytes /\ item.final \notin Collected
      /\ params \in Seq(ParamBytes)
  BY CsiWhere, Zenon
<1> HIDE DEF params
<1>3. PICK rest \in Seq(ParamBytes) :
         p = rest \o final /\ (Len(params) <= CsiBufLen - 1 => csiBuf \o rest = params)
  BY <1>1, CsiWhere, Zenon DEF params
<1>4. csiPrivate = item.private
  BY <1>1, CsiWhere, Zenon
<1>5. rest = <<>> /\ p[1] = item.final /\ Tail(p) = <<>>
  BY <1>1, <1>2, <1>3, RestFront
<1>6. csiBuf \in Seq(ParamBytes) /\ csiBuf \o <<>> = csiBuf
  BY ConcatEmptySeq DEF TypeOK
<1> DEFINE read == ParseParams(csiBuf)
<1>7. read \in Seq(Int)
  BY <1>6, ParseType
<1>8. Len(params) <= CsiBufLen - 1 => read = ParseParams(params)
  BY <1>3, <1>5, <1>6
<1>9. /\ ops' = Append(ops, Csi(csiPrivate, read, b))
      /\ pen' = IF ~csiPrivate /\ b = "m" THEN ApplySgr(read) ELSE pen
      /\ IF csiPrivate
         THEN /\ appCursorKeys' = ModeAfter(1, appCursorKeys, read, b)
              /\ cursorVisible' = ModeAfter(25, cursorVisible, read, b)
         ELSE UNCHANGED modeVars
      /\ savedPen' = savedPen
  BY DEF CsiFinalByte
<1>10. b = item.final
  BY <1>5
<1> HIDE DEF read
<1>11. Acts(item)
  BY <1>2, <1>4, <1>7, <1>8, <1>9, <1>10, Zenon DEF Acts, params
<1> QED
  BY <1>1, <1>5, <1>11, Zenon DEF Moves

\* Each byte of an item takes it on or ends it, in whatever state it is read.
LEMMA FeedMoves ==
    ASSUME TypeOK, Feed, NEW item \in Known, NEW p \in Seq(Bytes), p # <<>>, Inside(item, p),
           b = p[1]
    PROVE  Moves(item, p)
<1>1. CASE NormalByte
  BY <1>1, NormalMoves DEF NormalByte, Takes
<1>2. CASE EscByte
  BY <1>2, EscMoves DEF EscByte, Takes
<1>3. CASE CharsetByte
  BY <1>3, CharsetMoves DEF CharsetByte, Takes
<1>4. CASE CsiPrivateByte
  BY <1>4, CsiPrivateMoves DEF CsiPrivateByte, Takes
<1>5. CASE CsiParamByte
  BY <1>5, CsiParamMoves DEF CsiParamByte, Takes
<1>6. CASE CsiFinalByte
  BY <1>6, CsiFinalMoves DEF CsiFinalByte, Takes
<1>7. CASE OscByte
  BY <1>7, OscMoves DEF OscByte, Takes
<1> QED
  BY <1>1, <1>2, <1>3, <1>4, <1>5, <1>6, <1>7 DEF Feed

-----------------------------------------------------------------------------
(* The items done, the one being read and the ones left.                     *)

\* The items done are followed by those on the wire: the parser is between two,
\* or inside the first of them.
Placed(done) ==
    \/ \E left \in Seq(Known) :
          sent = done \o left /\ state = "normal" /\ wire = StreamOf(left)
    \/ \E item \in Known, p \in Seq(Bytes), left \in Seq(Known) :
          /\ sent = done \o (<<item>> \o left) /\ p # <<>> /\ wire = p \o StreamOf(left)
          /\ Inside(item, p)

\* The operations: the items, and the sequences as read.
Operations ==
    Meanings \cup [kind : {"csi"}, private : BOOLEAN, params : Seq(Int), final : Bytes]

\* There is one operation for each item done that has an effect.
Obeyed(done) ==
    /\ ops \in Seq(Operations)
    /\ Len(ops) = Len(Effective(done))
    /\ \A i \in 1..Len(ops) : Obeys(ops[i], Effective(done)[i])

LEMMA KnownType ==
    /\ Known \subseteq Meanings
    /\ \A q \in Seq(Known) : q \in Seq(Meanings)
<1>1. Known \subseteq Meanings
  BY DEF Known
<1> HIDE DEF Known
<1>2. ASSUME NEW q \in Seq(Known) PROVE q \in Seq(Meanings)
  BY <1>1, SeqMonotone
<1> QED
  BY <1>1, <1>2

LEMMA EncodedSome ==
    ASSUME NEW item \in Known
    PROVE  Encoded(item) \in Seq(Bytes) /\ Encoded(item) # <<>>
<1>1. Encoded(item) \in Seq(Bytes)
  BY KnownType, EncodedType
<1>2. /\ item.kind = "char" => Encoded(item) = <<item.char>>
      /\ item.kind = "control" => Encoded(item) = <<item.byte>>
      /\ item.kind = "esc" => Encoded(item) = <<"esc", item.byte>>
      /\ item.kind = "quiet" => Encoded(item) = item.bytes /\ Skipped(item.bytes)
      /\ item.kind \in {"char", "control", "csi", "esc", "quiet"} /\ item \in Meanings
  BY KnownIs
<1>3. CASE item.kind \in {"char", "control", "esc"}
  <2>1. ASSUME NEW c, NEW d PROVE <<c>> # <<>> /\ <<c, d>> # <<>>
    OBVIOUS
  <2>2. \/ Encoded(item) = <<item.char>>
        \/ Encoded(item) = <<item.byte>>
        \/ Encoded(item) = <<"esc", item.byte>>
    BY <1>2, <1>3, Zenon
  <2> QED
    BY <1>1, <2>1, <2>2, Zenon
<1>4. CASE item.kind = "quiet"
  <2> DEFINE bytes == item.bytes
  <2>1. Encoded(item) = bytes /\ Skipped(bytes)
    BY <1>2, <1>4
  <2> HIDE DEF bytes
  <2>2. bytes # <<>>
    <3>1. (\E c \in Ignored : bytes = <<c>>) => bytes # <<>>
      OBVIOUS
    <3>2. Len(bytes) >= 3 => bytes # <<>>
      OBVIOUS
    <3>3. Len(bytes) = 3 => bytes # <<>>
      OBVIOUS
    <3> QED
      BY <2>1, <3>1, <3>2, <3>3, Zenon DEF Skipped
  <2> QED
    BY <1>1, <2>1, <2>2
<1>5. CASE item.kind = "csi"
  <2> DEFINE mark == IF item.private THEN <<"?">> ELSE <<>>
             body == mark \o EncodedParams(item.params)
             r == body \o <<item.final>>
  <2>1. body \in Seq(Collected) /\ Encoded(item) = <<"esc", "[">> \o r
    BY <1>2, <1>5, EncodedCsi
  <2>2. item.final \in Bytes /\ Collected \subseteq Bytes /\ "esc" \in Bytes /\ "[" \in Bytes
    BY <1>2, <1>5, MeaningParts, Alphabet
  <2> HIDE DEF body
  <2>3. r \in Seq(Bytes)
    <3> DEFINE final == <<item.final>>
    <3>1. body \in Seq(Bytes) /\ final \in Seq(Bytes)
      BY <2>1, <2>2, SeqMonotone
    <3> HIDE DEF final
    <3>2. body \o final \in Seq(Bytes)
      BY <3>1, ConcatProperties
    <3> QED
      BY <3>2 DEF final
  <2> DEFINE f == <<"esc", "[">>
  <2>4. f \in Seq(Bytes) /\ Len(f) = 2
    BY <2>2
  <2> HIDE DEF f, r
  <2>5. Len(f \o r) = Len(f) + Len(r) /\ Len(r) \in Nat /\ f \o r \in Seq(Bytes)
    BY <2>3, <2>4, ConcatProperties, LenProperties
  <2>6. Len(f \o r) # 0
    BY <2>4, <2>5
  <2>7. f \o r # <<>>
    BY <2>5, <2>6, EmptySeq
  <2> QED
    BY <1>1, <2>1, <2>7 DEF f
<1>6. item.kind \in {"char", "control", "esc"} \/ item.kind = "csi" \/ item.kind = "quiet"
  BY <1>2
<1> QED
  BY <1>1, <1>3, <1>4, <1>5, <1>6, Zenon

LEMMA StreamEmpty == StreamOf(<<>>) = <<>>
BY FlatMapEmpty DEF StreamOf

\* The stream of items that are there has a first byte.
LEMMA StreamSome ==
    ASSUME NEW item \in Known, NEW left \in Seq(Known)
    PROVE  /\ StreamOf(<<item>> \o left) = Encoded(item) \o StreamOf(left)
           /\ StreamOf(left) \in Seq(Bytes)
           /\ StreamOf(<<item>> \o left) # <<>>
<1> DEFINE e == Encoded(item)
           s == StreamOf(left)
<1>1. StreamOf(<<item>> \o left) = e \o s /\ s \in Seq(Bytes)
  BY KnownType, StreamCons, StreamType
<1>2. e \in Seq(Bytes) /\ e # <<>>
  BY EncodedSome
<1> HIDE DEF e, s
<1>3. e \o s # <<>>
  BY <1>1, <1>2, FrontMoves
<1> QED
  BY <1>1, <1>3 DEF e, s

\* As long as there are bytes, there is an item they begin in.
LEMMA Opened ==
    ASSUME NEW done, Placed(done), wire # <<>>
    PROVE  \E item \in Known, p \in Seq(Bytes), left \in Seq(Known) :
              /\ sent = done \o (<<item>> \o left) /\ p # <<>> /\ wire = p \o StreamOf(left)
              /\ Inside(item, p)
<1>1. CASE \E left \in Seq(Known) :
              sent = done \o left /\ state = "normal" /\ wire = StreamOf(left)
  <2>1. PICK left \in Seq(Known) : sent = done \o left /\ state = "normal" /\ wire = StreamOf(left)
    BY <1>1
  <2>2. left # <<>>
    BY <2>1, StreamEmpty
  <2> DEFINE item == Head(left)
             rest == Tail(left)
  <2>3. left = <<item>> \o rest /\ item \in Known /\ rest \in Seq(Known)
    BY <2>2, FrontTaken
  <2> HIDE DEF item, rest
  <2>4. wire = Encoded(item) \o StreamOf(rest)
    BY <2>1, <2>3, StreamSome
  <2>5. Encoded(item) \in Seq(Bytes) /\ Encoded(item) # <<>>
    BY <2>3, EncodedSome
  <2>6. Inside(item, Encoded(item))
    BY <2>1 DEF Inside
  <2> QED
    BY <2>1, <2>3, <2>4, <2>5, <2>6, Zenon
<1> QED
  BY <1>1, Zenon DEF Placed

\* Nothing is left when the wire is empty.
LEMMA AllDone ==
    ASSUME NEW done \in Seq(Known), Placed(done), wire = <<>>
    PROVE  sent = done /\ state = "normal"
<1>1. ASSUME NEW item \in Known, NEW p \in Seq(Bytes), NEW left \in Seq(Known), p # <<>>,
             wire = p \o StreamOf(left)
      PROVE  FALSE
  <2> DEFINE s == StreamOf(left)
  <2>1. s \in Seq(Bytes)
    BY <1>1, StreamSome
  <2> HIDE DEF s
  <2>2. p \o s # <<>>
    BY <1>1, <2>1, FrontMoves
  <2> QED
    BY <1>1, <2>2 DEF s
<1>2. PICK left \in Seq(Known) : sent = done \o left /\ state = "normal" /\ wire = StreamOf(left)
  BY <1>1, Zenon DEF Placed
<1>3. left = <<>>
  <2>1. SUFFICES ASSUME left # <<>> PROVE FALSE
    OBVIOUS
  <2> DEFINE item == Head(left)
             rest == Tail(left)
  <2>2. left = <<item>> \o rest /\ item \in Known /\ rest \in Seq(Known)
    BY <2>1, FrontTaken
  <2> HIDE DEF item, rest
  <2>3. wire # <<>>
    BY <1>2, <2>2, StreamSome
  <2> QED
    BY <2>3
<1>4. done \o <<>> = done
  BY ConcatEmptySeq
<1> QED
  BY <1>2, <1>3, <1>4

\* What an item does makes it one of those done.
LEMMA Finished ==
    ASSUME NEW done \in Seq(Known), NEW item \in Known, NEW left \in Seq(Known)
    PROVE  /\ Append(done, item) \in Seq(Known)
           /\ done \o (<<item>> \o left) = Append(done, item) \o left
<1> DEFINE e == <<item>>
<1>1. e \in Seq(Known) /\ Append(done, item) = done \o e /\ Append(done, item) \in Seq(Known)
  BY AppendProperties
<1> HIDE DEF e
<1>2. (done \o e) \o left = done \o (e \o left)
  <2>1. done \in Seq(Known) /\ e \in Seq(Known) /\ left \in Seq(Known)
    BY <1>1
  <2>2. Associates(done, e, left)
    BY <2>1, ConcatAssociates
  <2> QED
    BY <2>2, Zenon DEF Associates
<1> QED
  BY <1>1, <1>2 DEF e

\* The operation that obeys an item.
LEMMA ObeysItem ==
    ASSUME TypeOK, NEW item \in Known, item.kind # "quiet", Acts(item)
    PROVE  \E op \in Operations : ops' = Append(ops, op) /\ Obeys(op, item)
<1>1. CASE item.kind \in {"char", "control", "esc"}
  <2>1. ops' = Append(ops, item)
    BY <1>1 DEF Acts
  <2>2. Obeys(item, item)
    BY <1>1 DEF Obeys
  <2>3. item \in Operations
    BY KnownType DEF Operations
  <2> QED
    BY <2>1, <2>2, <2>3
<1>2. CASE item.kind = "csi"
  <2>1. PICK params \in Seq(Int) :
           /\ Len(EncodedParams(item.params)) <= CsiBufLen - 1
                 => params = ParseParams(EncodedParams(item.params))
           /\ ops' = Append(ops, Csi(item.private, params, item.final))
    BY <1>2 DEF Acts
  <2> DEFINE op == Csi(item.private, params, item.final)
  <2>2. item.params \in Seq(Nat \cup {Missing}) /\ DOMAIN item.params = 1..Len(item.params)
    <3>1. item.params \in Seq(Nat \cup {Missing})
      BY <1>2, KnownIs, MeaningParts
    <3> QED
      BY <3>1, LenProperties
  <2>3. ASSUME Fits(item)
        PROVE  \A i \in 1..MaxParams : Param(params, i) = Param(item.params, i)
    <3>1. /\ Len(EncodedParams(item.params)) <= CsiBufLen - 1
          /\ Len(item.params) <= MaxParams
          /\ \A i \in 1..Len(item.params) : item.params[i] <= IntMax
      BY <1>2, <2>2, <2>3 DEF Fits
    <3>2. params = ParseParams(EncodedParams(item.params))
      BY <2>1, <3>1
    <3> QED
      BY <2>2, <3>1, <3>2, ParseEncoded
  <2>4. op.kind = "csi" /\ op.private = item.private /\ op.final = item.final /\ op.params = params
    BY DEF Csi
  <2>o. op \in Operations
    <3>1. item.private \in BOOLEAN /\ item.final \in Bytes
      BY <1>2, KnownIs, MeaningParts, Alphabet
    <3>2. op \in [kind : {"csi"}, private : BOOLEAN, params : Seq(Int), final : Bytes]
      BY <3>1 DEF Csi
    <3> QED
      BY <3>2, Zenon DEF Operations
  <2> HIDE DEF op
  <2>5. Obeys(op, item)
    BY <1>2, <2>3, <2>4, Zenon DEF Obeys
  <2> QED
    BY <2>1, <2>5, <2>o, Zenon DEF op
<1> QED
  BY <1>1, <1>2, KnownIs

LEMMA ObeyedMoves ==
    ASSUME TypeOK, NEW done \in Seq(Known), NEW item \in Known, Obeyed(done), Acts(item)
    PROVE  Obeyed(Append(done, item))'
<1> DEFINE e == Effective(done)
           f == Effective(Append(done, item))
<1>1. e \in Seq(Meanings) /\ f = (IF item.kind = "quiet" THEN e ELSE Append(e, item))
      /\ item \in Meanings /\ e' = e /\ f' = f
  BY KnownType, EffectiveIs, EffectiveAppend
<1>2. /\ ops \in Seq(Operations) /\ Len(ops) = Len(e)
      /\ \A i \in 1..Len(ops) : Obeys(ops[i], e[i])
  BY DEF Obeyed
<1> HIDE DEF e, f
<1>3. /\ ops' \in Seq(Operations) /\ Len(ops') = Len(f)
      /\ \A i \in 1..Len(ops') : Obeys(ops'[i], f[i])
  <2>1. CASE item.kind = "quiet"
    <3>1. ops' = ops
      BY <2>1, Zenon DEF Acts, Still
    <3>2. f = e
      BY <1>1, <2>1
    <3> QED
      BY <1>2, <3>1, <3>2, Zenon
  <2>2. CASE item.kind # "quiet"
    <3>1. PICK op \in Operations : ops' = Append(ops, op) /\ Obeys(op, item)
      BY <2>2, ObeysItem
    <3> DEFINE n == Len(e)
    <3>2. f = Append(e, item) /\ n \in Nat /\ Len(f) = n + 1
          /\ f[n + 1] = item /\ \A i \in 1..n : f[i] = e[i]
      BY <1>1, <2>2, AppendProperties, LenProperties
    <3>3. /\ Append(ops, op) \in Seq(Operations) /\ Len(Append(ops, op)) = n + 1
          /\ Append(ops, op)[n + 1] = op /\ \A i \in 1..n : Append(ops, op)[i] = ops[i]
      BY <1>2, <3>1, AppendProperties, LenProperties
    <3> HIDE DEF n
    <3>4. ASSUME NEW i \in 1..(n + 1) PROVE Obeys(Append(ops, op)[i], f[i])
      <4>1. CASE i = n + 1
        BY <3>1, <3>2, <3>3, <4>1
      <4>2. CASE i \in 1..n
        <5>1. Obeys(ops[i], e[i])
          BY <1>2, <4>2 DEF n
        <5> QED
          BY <3>2, <3>3, <4>2, <5>1
      <4>3. i = n + 1 \/ i \in 1..n
        BY <3>2
      <4> QED
        BY <4>1, <4>2, <4>3
    <3> QED
      BY <3>1, <3>2, <3>3, <3>4
  <2> QED
    BY <2>1, <2>2
<1> QED
  BY <1>1, <1>3, Zenon DEF Obeyed, e, f

-----------------------------------------------------------------------------
(* The modes. *)

LEMMA LastExists ==
    ASSUME NEW n \in Nat, NEW places \in SUBSET (1..n), places # {}
    PROVE  LastOf(places) \in places /\ \A j \in places : j <= LastOf(places)
<1> DEFINE back == {n - i : i \in places}
<1>1. back \in SUBSET Nat /\ back # {}
  <2>1. PICK i : i \in places
    OBVIOUS
  <2>2. n - i \in back
    BY <2>1
  <2>3. ASSUME NEW j \in places PROVE n - j \in Nat
    OBVIOUS
  <2> QED
    BY <2>2, <2>3
<1>2. PICK k \in back : \A j \in back : k <= j
  <2> HIDE DEF back
  <2> QED
    BY <1>1, FirstExists
<1>3. PICK e \in places : k = n - e
  OBVIOUS
<1>4. ASSUME NEW j \in places PROVE j <= e
  <2>1. n - j \in back
    OBVIOUS
  <2>2. n - e <= n - j
    BY <1>2, <1>3, <2>1
  <2>3. j \in Int /\ e \in Int
    OBVIOUS
  <2> QED
    BY <2>2, <2>3
<1>5. \E i \in places : \A j \in places : j <= i
  BY <1>3, <1>4
<1> QED
  BY <1>5, Zenon DEF LastOf

\* One more place, after the others.
LEMMA LastMore ==
    ASSUME NEW n \in Nat, NEW places \in SUBSET (1..(n + 1)), n + 1 \in places
    PROVE  LastOf(places) = n + 1
<1>1. LastOf(places) \in places /\ \A j \in places : j <= LastOf(places)
  <2> DEFINE m == n + 1
  <2>1. m \in Nat /\ places \in SUBSET (1..m) /\ places # {}
    OBVIOUS
  <2> HIDE DEF m
  <2> QED
    BY <2>1, LastExists
<1>2. LastOf(places) \in 1..(n + 1) /\ n + 1 <= LastOf(places)
  BY <1>1
<1> QED
  BY <1>2

LEMMA MeantModeAppend ==
    ASSUME NEW q \in Seq(Meanings), NEW x \in Meanings, NEW mode, NEW default
    PROVE  MeantMode(Append(q, x), mode, default) =
              IF x = Esc("c") THEN default
              ELSE IF SetsMode(x, mode) THEN x.final = "h"
              ELSE MeantMode(q, mode, default)
<1> DEFINE n == Len(q)
           p == Append(q, x)
           old == {i \in DOMAIN q : SetsMode(q[i], mode)}
           new == {i \in DOMAIN p : SetsMode(p[i], mode)}
<1>1. /\ n \in Nat /\ DOMAIN q = 1..n /\ DOMAIN p = 1..(n + 1) /\ p[n + 1] = x
      /\ \A i \in 1..n : p[i] = q[i]
  <2>1. p \in Seq(Meanings) /\ Len(p) = n + 1 /\ p[n + 1] = x /\ \A i \in 1..n : p[i] = q[i]
    BY AppendProperties
  <2> QED
    BY <2>1, LenProperties
<1>2. /\ MeantMode(q, mode, default) =
            IF old = {} \/ q[LastOf(old)] = Esc("c") THEN default ELSE q[LastOf(old)].final = "h"
      /\ MeantMode(p, mode, default) =
            IF new = {} \/ p[LastOf(new)] = Esc("c") THEN default ELSE p[LastOf(new)].final = "h"
  BY Zenon DEF MeantMode
<1> HIDE DEF n, p
<1>3. CASE SetsMode(x, mode)
  <2>1. n + 1 \in new /\ new \in SUBSET (1..(n + 1))
    BY <1>1, <1>3
  <2> HIDE DEF new
  <2>2. LastOf(new) = n + 1
    BY <1>1, <2>1, LastMore
  <2>3. new # {} /\ p[LastOf(new)] = x
    BY <1>1, <2>1, <2>2
  <2>4. MeantMode(p, mode, default) = IF x = Esc("c") THEN default ELSE x.final = "h"
    BY <1>2, <2>3, Zenon
  <2> QED
    BY <1>3, <2>4, Zenon DEF p
<1>4. CASE ~SetsMode(x, mode)
  <2>1. new = old
    <3>1. ASSUME NEW i \in 1..(n + 1), SetsMode(p[i], mode) PROVE i \in 1..n /\ SetsMode(q[i], mode)
      <4>1. i # n + 1
        BY <1>1, <1>4, <3>1
      <4>2. i \in 1..n
        BY <1>1, <4>1
      <4> QED
        BY <1>1, <3>1, <4>2
    <3>2. ASSUME NEW i \in 1..n, SetsMode(q[i], mode) PROVE i \in 1..(n + 1) /\ SetsMode(p[i], mode)
      BY <1>1, <3>2
    <3> QED
      BY <1>1, <3>1, <3>2
  <2>2. x # Esc("c")
    BY <1>4 DEF SetsMode
  <2>3. old # {} => p[LastOf(old)] = q[LastOf(old)]
    <3>1. old \in SUBSET (1..n)
      BY <1>1
    <3> HIDE DEF old
    <3>2. old # {} => LastOf(old) \in 1..n
      BY <1>1, <3>1, LastExists
    <3> QED
      BY <1>1, <3>2
  <2> HIDE DEF old, new
  <2>4. MeantMode(p, mode, default) = MeantMode(q, mode, default)
    <3>1. CASE old = {}
      <4>1. MeantMode(p, mode, default) = default /\ MeantMode(q, mode, default) = default
        BY <1>2, <2>1, <3>1, Zenon
      <4> QED
        BY <4>1
    <3>2. CASE old # {}
      <4>1. p[LastOf(new)] = q[LastOf(old)] /\ new # {}
        BY <2>1, <2>3, <3>2
      <4> DEFINE v == q[LastOf(old)]
             w == IF v = Esc("c") THEN default ELSE v.final = "h"
      <4>2. MeantMode(q, mode, default) = w
        BY <1>2, <3>2, Zenon
      <4>3. MeantMode(p, mode, default) = w
        BY <1>2, <4>1, Zenon
      <4> HIDE DEF w
      <4> QED
        BY <4>2, <4>3
    <3> QED
      BY <3>1, <3>2
  <2> QED
    BY <1>4, <2>2, <2>4, Zenon DEF p
<1> QED
  BY <1>3, <1>4

\* The modes are as the items done set them.
ModesKept(done) ==
    (\A i \in 1..Len(done) : Fits(done[i])) =>
        /\ appCursorKeys = MeantMode(done, 1, FALSE)
        /\ cursorVisible = MeantMode(done, 25, TRUE)

\* A parameter that is not an empty one is found where it was sent.
LEMMA ContainsRead ==
    ASSUME NEW item \in Known, item.kind = "csi", Fits(item),
           NEW mode \in Nat
    PROVE  Contains(ParseParams(EncodedParams(item.params)), mode) <=> Contains(item.params, mode)
<1> DEFINE params == item.params
           r == ParseParams(EncodedParams(params))
           n == Len(params)
<1>1. params \in Seq(Nat \cup {Missing}) /\ n \in Nat /\ DOMAIN params = 1..n
  <2>1. params \in Seq(Nat \cup {Missing})
    BY KnownIs, MeaningParts
  <2> QED
    BY <2>1, LenProperties
<1>2. n <= MaxParams /\ \A i \in 1..n : params[i] <= IntMax
  BY <1>1 DEF Fits
<1>3. PICK m \in 0..n : /\ Len(r) = m /\ \A i \in 1..m : r[i] = params[i]
                        /\ \A i \in (m + 1)..n : params[i] = Missing
  BY <1>1, <1>2, ParseRead
<1>4. mode # Missing
  BY DEF Missing
<1> HIDE DEF r, n, params
<1>5. Contains(r, mode) => Contains(params, mode)
  <2>1. \A i \in 1..m : i \in 1..n
    BY <1>1
  <2> QED
    BY <1>3, <2>1 DEF Contains, n
<1>6. Contains(params, mode) => Contains(r, mode)
  <2>1. SUFFICES ASSUME NEW i \in 1..n, params[i] = mode PROVE \E j \in 1..Len(r) : r[j] = mode
    BY DEF Contains, n
  <2>2. i \in 1..m
    BY <1>1, <1>3, <1>4, <2>1
  <2> QED
    BY <1>3, <2>1, <2>2
<1> QED
  BY <1>5, <1>6 DEF r, params

\* What a parameter list in the form read makes of a mode.
LEMMA ModeRead ==
    ASSUME NEW item \in Known, item.kind = "csi", item.private = TRUE, Fits(item),
           NEW mode \in Nat, NEW value
    PROVE  ModeAfter(mode, value, ParseParams(EncodedParams(item.params)), item.final)
              = IF SetsMode(item, mode) THEN item.final = "h" ELSE value
<1>1. item # Esc("c")
  BY DEF Esc
<1>2. SetsMode(item, mode) <=> item.final \in {"h", "l"} /\ Contains(item.params, mode)
  BY <1>1, Zenon DEF SetsMode
<1> DEFINE r == ParseParams(EncodedParams(item.params))
<1>3. Contains(r, mode) <=> Contains(item.params, mode)
  BY ContainsRead
<1> HIDE DEF r
<1>4. ModeAfter(mode, value, r, item.final)
         = IF item.final \in {"h", "l"} /\ Contains(r, mode) THEN item.final = "h" ELSE value
  BY Zenon DEF ModeAfter
<1>5. CASE SetsMode(item, mode)
  BY <1>2, <1>3, <1>4, <1>5, Zenon DEF r
<1>6. CASE ~SetsMode(item, mode)
  BY <1>2, <1>3, <1>4, <1>6, Zenon DEF r
<1> QED
  BY <1>5, <1>6

\* What an item makes of a mode.
ModeOf(item, mode, default, old, new) ==
    new = IF item = Esc("c") THEN default ELSE IF SetsMode(item, mode) THEN item.final = "h" ELSE old

LEMMA ModeMoves ==
    ASSUME NEW item \in Known, Fits(item), Acts(item)
    PROVE  /\ ModeOf(item, 1, FALSE, appCursorKeys, appCursorKeys')
           /\ ModeOf(item, 25, TRUE, cursorVisible, cursorVisible')
<1>1. item.kind \in {"char", "control", "csi", "esc", "quiet"}
  BY KnownIs
<1>2. CASE item.kind \in {"char", "control", "quiet"}
  <2>1. item # Esc("c") /\ ~SetsMode(item, 1) /\ ~SetsMode(item, 25)
    BY <1>2 DEF SetsMode, Esc
  <2>2. appCursorKeys' = appCursorKeys /\ cursorVisible' = cursorVisible
    BY <1>2 DEF Acts, Still, modeVars
  <2> QED
    BY <2>1, <2>2, Zenon DEF ModeOf
<1>3. CASE item.kind = "esc"
  <2>1. item = Esc(item.byte) /\ item.byte \in {"7", "8", "c"}
    BY <1>3, KnownIs
  <2>2. /\ item.byte = "c" => appCursorKeys' = FALSE /\ cursorVisible' = TRUE
        /\ item.byte # "c" => appCursorKeys' = appCursorKeys /\ cursorVisible' = cursorVisible
    BY <1>3 DEF Acts, modeVars
  <2>3. item = Esc("c") <=> item.byte = "c"
    BY <2>1 DEF Esc
  <2>4. item # Esc("c") => ~SetsMode(item, 1) /\ ~SetsMode(item, 25)
    BY <1>3 DEF SetsMode
  <2> QED
    BY <2>2, <2>3, <2>4, Zenon DEF ModeOf
<1>4. CASE item.kind = "csi"
  <2>1. item.private \in BOOLEAN /\ item.params \in Seq(Nat \cup {Missing})
    BY <1>4, KnownIs, MeaningParts
  <2>2. Len(EncodedParams(item.params)) <= CsiBufLen - 1
    BY <1>4 DEF Fits
  <2>3. PICK params :
           /\ params = ParseParams(EncodedParams(item.params))
           /\ IF item.private
              THEN /\ appCursorKeys' = ModeAfter(1, appCursorKeys, params, item.final)
                   /\ cursorVisible' = ModeAfter(25, cursorVisible, params, item.final)
              ELSE UNCHANGED modeVars
    BY <1>4, <2>2, Zenon DEF Acts
  <2>4. item # Esc("c")
    BY <1>4 DEF Esc
  <2>5. CASE item.private = TRUE
    <3>1. /\ appCursorKeys' = ModeAfter(1, appCursorKeys, params, item.final)
          /\ cursorVisible' = ModeAfter(25, cursorVisible, params, item.final)
      BY <2>3, <2>5, Zenon
    <3>2. 1 \in Nat /\ 25 \in Nat
      OBVIOUS
    <3>3. /\ appCursorKeys' = IF SetsMode(item, 1) THEN item.final = "h" ELSE appCursorKeys
          /\ cursorVisible' = IF SetsMode(item, 25) THEN item.final = "h" ELSE cursorVisible
      <4>1. ModeAfter(1, appCursorKeys, params, item.final)
               = IF SetsMode(item, 1) THEN item.final = "h" ELSE appCursorKeys
        BY <1>4, <2>3, <2>5, <3>2, ModeRead
      <4>2. ModeAfter(25, cursorVisible, params, item.final)
               = IF SetsMode(item, 25) THEN item.final = "h" ELSE cursorVisible
        BY <1>4, <2>3, <2>5, <3>2, ModeRead, ZenonT(60)
      <4> QED
        BY <3>1, <4>1, <4>2
    <3> QED
      BY <2>4, <3>3, Zenon DEF ModeOf
  <2>6. CASE item.private = FALSE
    <3>1. ~SetsMode(item, 1) /\ ~SetsMode(item, 25)
      BY <2>4, <2>6, Zenon DEF SetsMode
    <3>2. appCursorKeys' = appCursorKeys /\ cursorVisible' = cursorVisible
      BY <2>3, <2>6, Zenon DEF modeVars
    <3> QED
      BY <2>4, <3>1, <3>2, Zenon DEF ModeOf
  <2> QED
    BY <2>1, <2>5, <2>6
<1> QED
  BY <1>1, <1>2, <1>3, <1>4, Zenon

\* The conditions on more items are those on the items before, and on the last.
LEMMA AppendIs ==
    ASSUME NEW done \in Seq(Known), NEW item \in Known
    PROVE  /\ done \in Seq(Meanings) /\ item \in Meanings
           /\ Len(done) \in Nat /\ Len(Append(done, item)) = Len(done) + 1
           /\ \A i \in 1..Len(done) : i \in 1..(Len(done) + 1) /\ Append(done, item)[i] = done[i]
           /\ Len(done) + 1 \in 1..(Len(done) + 1) /\ Append(done, item)[Len(done) + 1] = item
           /\ DOMAIN done = 1..Len(done) /\ DOMAIN Append(done, item) = 1..(Len(done) + 1)
<1>1. done \in Seq(Meanings) /\ item \in Meanings
  BY KnownType
<1> DEFINE p == Append(done, item)
           n == Len(done)
<1>2. p \in Seq(Known) /\ Len(p) = n + 1 /\ p[n + 1] = item /\ \A i \in 1..n : p[i] = done[i]
  BY AppendProperties
<1>3. n \in Nat /\ DOMAIN done = 1..n /\ DOMAIN p = 1..Len(p)
  BY <1>2, LenProperties
<1> HIDE DEF p, n
<1>4. n + 1 \in 1..(n + 1) /\ \A i \in 1..n : i \in 1..(n + 1)
  BY <1>3
<1> QED
  BY <1>1, <1>2, <1>3, <1>4 DEF p, n

LEMMA ModesMove ==
    ASSUME NEW done \in Seq(Known), NEW item \in Known, ModesKept(done), Acts(item)
    PROVE  ModesKept(Append(done, item))'
<1> DEFINE more == Append(done, item)
<1>1. SUFFICES ASSUME \A i \in 1..Len(more) : Fits(more[i])
               PROVE  /\ appCursorKeys' = MeantMode(more, 1, FALSE)
                      /\ cursorVisible' = MeantMode(more, 25, TRUE)
  BY Zenon DEF ModesKept
<1>2. Fits(item) /\ \A i \in 1..Len(done) : Fits(done[i])
  BY <1>1, AppendIs
<1>3. appCursorKeys = MeantMode(done, 1, FALSE) /\ cursorVisible = MeantMode(done, 25, TRUE)
  BY <1>2, Zenon DEF ModesKept
<1>4. /\ ModeOf(item, 1, FALSE, appCursorKeys, appCursorKeys')
      /\ ModeOf(item, 25, TRUE, cursorVisible, cursorVisible')
  BY <1>2, ModeMoves
<1>5. ASSUME NEW mode, NEW default, NEW old, NEW new, old = MeantMode(done, mode, default),
             ModeOf(item, mode, default, old, new)
      PROVE  new = MeantMode(more, mode, default)
  <2> DEFINE v == IF item = Esc("c") THEN default
                  ELSE IF SetsMode(item, mode) THEN item.final = "h"
                  ELSE MeantMode(done, mode, default)
  <2>1. MeantMode(more, mode, default) = v
    BY AppendIs, MeantModeAppend
  <2>2. new = v
    BY <1>5 DEF ModeOf
  <2> HIDE DEF v, more
  <2> QED
    BY <2>1, <2>2
<1> QED
  BY <1>3, <1>4, <1>5

-----------------------------------------------------------------------------
(* The colours and attributes of a list of codes.                            *)

\* The last of the first n codes that is in S.
LastIn(codes, S, n) ==
    LET places == {i \in 1..n : codes[i] \in S}
    IN  IF places = {} THEN Missing ELSE codes[LastOf(places)]

LEMMA LastInNone == \A codes, S : LastIn(codes, S, 0) = Missing
<1>1. ASSUME NEW codes, NEW S PROVE {i \in 1..0 : codes[i] \in S} = {}
  OBVIOUS
<1> QED
  BY <1>1, Zenon DEF LastIn

LEMMA LastInMore ==
    ASSUME NEW codes, NEW S, NEW n \in Nat
    PROVE  LastIn(codes, S, n + 1) = IF codes[n + 1] \in S THEN codes[n + 1] ELSE LastIn(codes, S, n)
<1> DEFINE old == {i \in 1..n : codes[i] \in S}
           new == {i \in 1..(n + 1) : codes[i] \in S}
<1>1. /\ LastIn(codes, S, n) = IF old = {} THEN Missing ELSE codes[LastOf(old)]
      /\ LastIn(codes, S, n + 1) = IF new = {} THEN Missing ELSE codes[LastOf(new)]
  BY Zenon DEF LastIn
<1>2. CASE codes[n + 1] \in S
  <2>1. new \in SUBSET (1..(n + 1)) /\ n + 1 \in new
    BY <1>2
  <2> HIDE DEF new
  <2>2. LastOf(new) = n + 1 /\ new # {}
    BY <2>1, LastMore
  <2>3. LastIn(codes, S, n + 1) = codes[n + 1]
    BY <1>1, <2>2, Zenon
  <2> QED
    BY <1>2, <2>3, Zenon
<1>3. CASE codes[n + 1] \notin S
  <2>1. new = old
    <3>1. ASSUME NEW i \in 1..(n + 1), codes[i] \in S PROVE i \in 1..n
      <4>1. i # n + 1
        BY <1>3, <3>1
      <4> QED
        BY <4>1
    <3> QED
      BY <3>1
  <2> HIDE DEF new, old
  <2>2. LastIn(codes, S, n + 1) = LastIn(codes, S, n)
    BY <1>1, <2>1
  <2> QED
    BY <1>3, <2>2, Zenon
<1> QED
  BY <1>2, <1>3

Codes(params) ==
    IF params = <<>> THEN <<0>>
    ELSE [i \in DOMAIN params |-> IF params[i] = Missing THEN 0 ELSE params[i]]

FgCodes == {0, 39} \cup (30..37) \cup (90..97)
BgCodes == {0, 49} \cup (40..47) \cup (100..107)

Fg(code, old) ==
    IF code = Missing THEN old ELSE IF code \in {0, 39} THEN 7
    ELSE (code % 10) + (IF code > 50 THEN 8 ELSE 0)
Bg(code, old) ==
    IF code = Missing THEN old ELSE IF code \in {0, 49} THEN 0
    ELSE (code % 10) + (IF code > 50 THEN 8 ELSE 0)
Flag(code, on, old) == IF code = Missing THEN old ELSE code = on

\* What the first n codes mean.
PenOf(old, codes, n) ==
    [fg |-> Fg(LastIn(codes, FgCodes, n), old.fg),
     bg |-> Bg(LastIn(codes, BgCodes, n), old.bg),
     bold |-> Flag(LastIn(codes, {0, 1, 22}, n), 1, old.bold),
     underline |-> Flag(LastIn(codes, {0, 4, 24}, n), 4, old.underline),
     reverse |-> Flag(LastIn(codes, {0, 7, 27}, n), 7, old.reverse)]

LEMMA CodesType ==
    ASSUME NEW params \in Seq(Nat \cup {Missing})
    PROVE  /\ Len(Codes(params)) \in Nat \ {0} /\ DOMAIN Codes(params) = 1..Len(Codes(params))
           /\ \A i \in 1..Len(Codes(params)) : Codes(params)[i] \in Nat
           /\ params = <<>> => Len(Codes(params)) = 1 /\ Codes(params)[1] = 0
           /\ params # <<>> => /\ Len(Codes(params)) = Len(params)
                               /\ \A i \in 1..Len(params) :
                                     Codes(params)[i] = IF params[i] = Missing THEN 0 ELSE params[i]
<1>1. CASE params = <<>>
  <2>1. Codes(params) = <<0>>
    BY <1>1 DEF Codes
  <2> QED
    BY <1>1, <2>1
<1>2. CASE params # <<>>
  <2> DEFINE n == Len(params)
             c == [i \in DOMAIN params |-> IF params[i] = Missing THEN 0 ELSE params[i]]
  <2>1. n \in Nat \ {0} /\ DOMAIN params = 1..n /\ \A i \in 1..n : params[i] \in Nat \cup {Missing}
    BY <1>2, LenProperties, ElementOfSeq, EmptySeq
  <2>2. Codes(params) = c
    BY <1>2, Zenon DEF Codes
  <2> HIDE DEF n
  <2>3. \A i \in 1..n : c[i] = (IF params[i] = Missing THEN 0 ELSE params[i]) /\ c[i] \in Nat
    BY <2>1
  <2>4. DOMAIN c = 1..n
    BY <2>1
  <2>5. c \in [1..n -> Nat]
    BY <2>1, <2>3
  <2> HIDE DEF c
  <2>6. Len(c) = n
    BY <2>1, <2>5
  <2> QED
    BY <1>2, <2>1, <2>2, <2>3, <2>4, <2>6 DEF n
<1> QED
  BY <1>1, <1>2

LEMMA MeantPenIs ==
    ASSUME NEW old, NEW params \in Seq(Nat \cup {Missing})
    PROVE  MeantPen(old, params) = PenOf(old, Codes(params), Len(Codes(params)))
<1> DEFINE c == Codes(params)
<1>1. ASSUME NEW S PROVE LastCode(params, S) = LastIn(c, S, Len(c))
  <2>1. {i \in DOMAIN c : c[i] \in S} = {i \in 1..Len(c) : c[i] \in S}
    BY CodesType
  <2>2. LastCode(params, S) = LET places == {i \in DOMAIN c : c[i] \in S}
                              IN  IF places = {} THEN Missing ELSE c[LastOf(places)]
    BY Zenon DEF LastCode, Codes
  <2> QED
    BY <2>1, <2>2, Zenon DEF LastIn
<1>2. MeantPen(old, params) =
         [fg |-> Fg(LastCode(params, FgCodes), old.fg),
          bg |-> Bg(LastCode(params, BgCodes), old.bg),
          bold |-> Flag(LastCode(params, {0, 1, 22}), 1, old.bold),
          underline |-> Flag(LastCode(params, {0, 4, 24}), 4, old.underline),
          reverse |-> Flag(LastCode(params, {0, 7, 27}), 7, old.reverse)]
  BY DEF MeantPen, Fg, Bg, Flag, FgCodes, BgCodes
<1> HIDE DEF c
<1>3. /\ LastCode(params, FgCodes) = LastIn(c, FgCodes, Len(c))
      /\ LastCode(params, BgCodes) = LastIn(c, BgCodes, Len(c))
      /\ LastCode(params, {0, 1, 22}) = LastIn(c, {0, 1, 22}, Len(c))
      /\ LastCode(params, {0, 4, 24}) = LastIn(c, {0, 4, 24}, Len(c))
      /\ LastCode(params, {0, 7, 27}) = LastIn(c, {0, 7, 27}, Len(c))
  BY <1>1
<1>4. MeantPen(old, params) = PenOf(old, c, Len(c))
  BY <1>2, <1>3 DEF PenOf
<1> QED
  BY <1>4 DEF c

\* What one more code makes of each attribute.
LEMMA SgrFields ==
    ASSUME NEW q \in Pens, NEW c \in Nat
    PROVE  /\ SgrOne(q, c).fg = IF c \in FgCodes THEN Fg(c, q.fg) ELSE q.fg
           /\ SgrOne(q, c).bg = IF c \in BgCodes THEN Bg(c, q.bg) ELSE q.bg
           /\ SgrOne(q, c).bold = IF c \in {0, 1, 22} THEN c = 1 ELSE q.bold
           /\ SgrOne(q, c).underline = IF c \in {0, 4, 24} THEN c = 4 ELSE q.underline
           /\ SgrOne(q, c).reverse = IF c \in {0, 7, 27} THEN c = 7 ELSE q.reverse
<1> DEFINE r == SgrOne(q, c)
<1>q. q = [fg |-> q.fg, bg |-> q.bg, bold |-> q.bold, underline |-> q.underline,
           reverse |-> q.reverse]
  BY DEF Pens
<1>m. c # Missing
  BY DEF Missing
<1>0. CASE c = 0
  <2>1. r = DefaultPen
    BY <1>0 DEF SgrOne
  <2>2. c \in FgCodes /\ c \in BgCodes /\ Fg(c, q.fg) = 7 /\ Bg(c, q.bg) = 0
    BY <1>0, <1>m DEF FgCodes, BgCodes, Fg, Bg
  <2>3. r.fg = 7 /\ r.bg = 0 /\ r.bold = FALSE /\ r.underline = FALSE /\ r.reverse = FALSE
    BY <2>1 DEF DefaultPen
  <2>4. (c = 1) = FALSE /\ (c = 4) = FALSE /\ (c = 7) = FALSE
    BY <1>0
  <2>5. c \in {0, 1, 22} /\ c \in {0, 4, 24} /\ c \in {0, 7, 27}
    BY <1>0
  <2> HIDE DEF r
  <2> QED
    BY <2>2, <2>3, <2>4, <2>5, Zenon DEF r
<1>1. CASE c \in {1, 22}
  <2>1. r = [q EXCEPT !.bold = (c = 1)]
    <3>1. CASE c = 1
      <4>1. r = [q EXCEPT !.bold = TRUE] /\ (c = 1) = TRUE
        BY <3>1 DEF SgrOne
      <4> HIDE DEF r
      <4> QED
        BY <4>1, Zenon
    <3>2. CASE c = 22
      <4>1. r = [q EXCEPT !.bold = FALSE] /\ (c = 1) = FALSE
        BY <3>2 DEF SgrOne
      <4> HIDE DEF r
      <4> QED
        BY <4>1, Zenon
    <3> QED
      BY <1>1, <3>1, <3>2
  <2>2. c \notin FgCodes /\ c \notin BgCodes
    BY <1>1 DEF FgCodes, BgCodes
  <2>3. r.fg = q.fg /\ r.bg = q.bg /\ r.underline = q.underline /\ r.reverse = q.reverse
        /\ r.bold = (c = 1)
    BY <1>q, <2>1
  <2> QED
    BY <1>1, <2>2, <2>3
<1>2. CASE c \in {4, 24}
  <2>1. r = [q EXCEPT !.underline = (c = 4)]
    <3>1. CASE c = 4
      <4>1. r = [q EXCEPT !.underline = TRUE] /\ (c = 4) = TRUE
        BY <3>1 DEF SgrOne
      <4> HIDE DEF r
      <4> QED
        BY <4>1, Zenon
    <3>2. CASE c = 24
      <4>1. r = [q EXCEPT !.underline = FALSE] /\ (c = 4) = FALSE
        BY <3>2 DEF SgrOne
      <4> HIDE DEF r
      <4> QED
        BY <4>1, Zenon
    <3> QED
      BY <1>2, <3>1, <3>2
  <2>2. c \notin FgCodes /\ c \notin BgCodes
    BY <1>2 DEF FgCodes, BgCodes
  <2>3. r.fg = q.fg /\ r.bg = q.bg /\ r.bold = q.bold /\ r.reverse = q.reverse
        /\ r.underline = (c = 4)
    BY <1>q, <2>1
  <2> QED
    BY <1>2, <2>2, <2>3
<1>3. CASE c \in {7, 27}
  <2>1. r = [q EXCEPT !.reverse = (c = 7)]
    <3>1. CASE c = 7
      <4>1. r = [q EXCEPT !.reverse = TRUE] /\ (c = 7) = TRUE
        BY <3>1 DEF SgrOne
      <4> HIDE DEF r
      <4> QED
        BY <4>1, Zenon
    <3>2. CASE c = 27
      <4>1. r = [q EXCEPT !.reverse = FALSE] /\ (c = 7) = FALSE
        BY <3>2 DEF SgrOne
      <4> HIDE DEF r
      <4> QED
        BY <4>1, Zenon
    <3> QED
      BY <1>3, <3>1, <3>2
  <2>2. c \notin FgCodes /\ c \notin BgCodes
    BY <1>3 DEF FgCodes, BgCodes
  <2>3. r.fg = q.fg /\ r.bg = q.bg /\ r.bold = q.bold /\ r.underline = q.underline
        /\ r.reverse = (c = 7)
    BY <1>q, <2>1
  <2> QED
    BY <1>3, <2>2, <2>3
<1>4. CASE c \in FgCodes \ {0}
  <2>1. r = [q EXCEPT !.fg = Fg(c, q.fg)]
    <3>1. CASE c = 39
      BY <1>m, <3>1 DEF SgrOne, Fg
    <3>2. CASE c \in 30..37
      <4>1. c % 10 = c - 30
        BY <3>2
      <4> QED
        BY <1>m, <3>2, <4>1 DEF SgrOne, Fg
    <3>3. CASE c \in 90..97
      <4>1. (c % 10) + 8 = 8 + c - 90
        BY <3>3
      <4> QED
        BY <1>m, <3>3, <4>1 DEF SgrOne, Fg
    <3> QED
      BY <1>4, <3>1, <3>2, <3>3 DEF FgCodes
  <2>2. c \notin BgCodes /\ c \notin {0, 1, 22, 4, 24, 7, 27}
    BY <1>4 DEF FgCodes, BgCodes
  <2> DEFINE v == Fg(c, q.fg)
  <2> HIDE DEF v
  <2>3. r.fg = v /\ r.bg = q.bg /\ r.bold = q.bold /\ r.underline = q.underline
        /\ r.reverse = q.reverse
    <3>1. r = [q EXCEPT !.fg = v]
      BY <2>1 DEF v
    <3> QED
      BY <1>q, <3>1
  <2> QED
    BY <1>4, <2>2, <2>3 DEF v
<1>5. CASE c \in BgCodes \ {0}
  <2>1. r = [q EXCEPT !.bg = Bg(c, q.bg)]
    <3>1. CASE c = 49
      BY <1>m, <3>1 DEF SgrOne, Bg
    <3>2. CASE c \in 40..47
      <4>1. c % 10 = c - 40
        BY <3>2
      <4> QED
        BY <1>m, <3>2, <4>1 DEF SgrOne, Bg
    <3>3. CASE c \in 100..107
      <4>1. (c % 10) + 8 = 8 + c - 100
        BY <3>3
      <4> QED
        BY <1>m, <3>3, <4>1 DEF SgrOne, Bg
    <3> QED
      BY <1>5, <3>1, <3>2, <3>3 DEF BgCodes
  <2>2. c \notin FgCodes /\ c \notin {0, 1, 22, 4, 24, 7, 27}
    BY <1>5 DEF FgCodes, BgCodes
  <2> DEFINE v == Bg(c, q.bg)
  <2> HIDE DEF v
  <2>3. r.bg = v /\ r.fg = q.fg /\ r.bold = q.bold /\ r.underline = q.underline
        /\ r.reverse = q.reverse
    <3>1. r = [q EXCEPT !.bg = v]
      BY <2>1 DEF v
    <3> QED
      BY <1>q, <3>1
  <2> QED
    BY <1>5, <2>2, <2>3 DEF v
<1>6. CASE c \notin {0, 1, 22, 4, 24, 7, 27} \cup FgCodes \cup BgCodes
  <2>1. r = q
    BY <1>6 DEF SgrOne, FgCodes, BgCodes
  <2> QED
    BY <1>6, <2>1
<1> HIDE DEF r
<1> QED
  BY <1>0, <1>1, <1>2, <1>3, <1>4, <1>5, <1>6 DEF r

LEMMA PenOfNone ==
    ASSUME NEW p \in Pens, NEW codes
    PROVE  PenOf(p, codes, 0) = p
<1>1. PenOf(p, codes, 0) = [fg |-> p.fg, bg |-> p.bg, bold |-> p.bold, underline |-> p.underline,
                            reverse |-> p.reverse]
  BY LastInNone DEF PenOf, Fg, Bg, Flag
<1>2. p = [fg |-> p.fg, bg |-> p.bg, bold |-> p.bold, underline |-> p.underline,
           reverse |-> p.reverse]
  BY DEF Pens
<1> QED
  BY <1>1, <1>2

LEMMA PenOfMore ==
    ASSUME NEW p \in Pens, NEW codes, NEW n \in Nat, codes[n + 1] \in Nat,
           PenOf(p, codes, n) \in Pens
    PROVE  PenOf(p, codes, n + 1) = SgrOne(PenOf(p, codes, n), codes[n + 1])
<1> DEFINE q == PenOf(p, codes, n)
           m == PenOf(p, codes, n + 1)
           c == codes[n + 1]
           r == SgrOne(q, c)
           L(S) == LastIn(codes, S, n)
           M(S) == LastIn(codes, S, n + 1)
<1>1. \A S : M(S) = IF c \in S THEN c ELSE L(S)
  BY LastInMore
<1>2. c \in Nat /\ c # Missing
  BY DEF Missing
<1>3. /\ q.fg = Fg(L(FgCodes), p.fg) /\ q.bg = Bg(L(BgCodes), p.bg)
      /\ q.bold = Flag(L({0, 1, 22}), 1, p.bold)
      /\ q.underline = Flag(L({0, 4, 24}), 4, p.underline)
      /\ q.reverse = Flag(L({0, 7, 27}), 7, p.reverse)
  BY DEF PenOf
<1>4. m = [fg |-> Fg(M(FgCodes), p.fg), bg |-> Bg(M(BgCodes), p.bg),
           bold |-> Flag(M({0, 1, 22}), 1, p.bold),
           underline |-> Flag(M({0, 4, 24}), 4, p.underline),
           reverse |-> Flag(M({0, 7, 27}), 7, p.reverse)]
  BY DEF PenOf
<1>5. /\ r.fg = IF c \in FgCodes THEN Fg(c, q.fg) ELSE q.fg
      /\ r.bg = IF c \in BgCodes THEN Bg(c, q.bg) ELSE q.bg
      /\ r.bold = IF c \in {0, 1, 22} THEN c = 1 ELSE q.bold
      /\ r.underline = IF c \in {0, 4, 24} THEN c = 4 ELSE q.underline
      /\ r.reverse = IF c \in {0, 7, 27} THEN c = 7 ELSE q.reverse
  <2> HIDE DEF q, c
  <2> QED
    BY <1>2, SgrFields DEF q
<1>6. r \in Pens
  <2>1. c \in Int
    BY <1>2
  <2> HIDE DEF q, c
  <2> QED
    BY <2>1, SgrOneType DEF q
<1> HIDE DEF q, m, c, r, L, M
<1>7. r = [fg |-> r.fg, bg |-> r.bg, bold |-> r.bold, underline |-> r.underline,
           reverse |-> r.reverse]
  BY <1>6 DEF Pens
<1>8. \A a, d : Fg(c, a) = Fg(c, d) /\ Bg(c, a) = Bg(c, d)
  BY <1>2 DEF Fg, Bg
<1>9. r.fg = Fg(M(FgCodes), p.fg)
  BY <1>1, <1>3, <1>5, <1>8
<1>10. r.bg = Bg(M(BgCodes), p.bg)
  BY <1>1, <1>3, <1>5, <1>8
<1>11. r.bold = Flag(M({0, 1, 22}), 1, p.bold)
  BY <1>1, <1>2, <1>3, <1>5 DEF Flag
<1>12. r.underline = Flag(M({0, 4, 24}), 4, p.underline)
  BY <1>1, <1>2, <1>3, <1>5 DEF Flag
<1>13. r.reverse = Flag(M({0, 7, 27}), 7, p.reverse)
  BY <1>1, <1>2, <1>3, <1>5 DEF Flag
<1>14. m = r
  BY <1>4, <1>7, <1>9, <1>10, <1>11, <1>12, <1>13
<1> QED
  BY <1>14 DEF m, r, q, c

\* term_apply_sgr() leaves each attribute as the last code that bears on it says,
\* for any pen and any list of codes.
THEOREM SgrMeant ==
    ASSUME NEW p \in Pens, NEW params \in Seq(Nat \cup {Missing})
    PROVE  (IF params = <<>> THEN DefaultPen ELSE SgrAll(p, params)) = MeantPen(p, params)
<1> DEFINE c == Codes(params)
           n == Len(params)
           P(i) == PenOf(p, c, i)
<1>1. MeantPen(p, params) = P(Len(c)) /\ P(0) = p
  BY MeantPenIs, PenOfNone
<1>2. CASE params = <<>>
  <2>1. Len(c) = 1 /\ c[0 + 1] = 0
    <3>1. c = <<0>>
      BY <1>2 DEF Codes
    <3>2. Len(<<0>>) = 1 /\ <<0>>[1] = 0 /\ 0 + 1 = 1
      OBVIOUS
    <3> HIDE DEF c
    <3> QED
      BY <3>1, <3>2
  <2>2. P(0 + 1) = SgrOne(P(0), c[0 + 1])
    <3> HIDE DEF c
    <3> QED
      BY <1>1, <2>1, PenOfMore
  <2>3. SgrOne(p, 0) = DefaultPen
    BY DEF SgrOne
  <2>4. P(1) = DefaultPen
    <3> HIDE DEF P, c
    <3>1. 0 + 1 = 1
      OBVIOUS
    <3> QED
      BY <1>1, <2>1, <2>2, <2>3, <3>1
  <2> QED
    BY <1>1, <1>2, <2>1, <2>4
<1>3. CASE params # <<>>
  <2>1. /\ n \in Nat /\ Len(c) = n
        /\ \A i \in 1..n : c[i] = (IF params[i] = Missing THEN 0 ELSE params[i]) /\ c[i] \in Nat
        /\ \A i \in 1..n : params[i] \in Nat \cup {Missing}
    BY <1>3, CodesType, LenProperties, ElementOfSeq
  <2>2. params \in Seq(Int)
    <3>1. Nat \cup {Missing} \subseteq Int
      BY DEF Missing
    <3> QED
      BY <3>1, SeqMonotone
  <2>3. PICK f : SgrRun(p, params, f) /\ SgrAll(p, params) = f[n]
    BY <2>2, SgrAllRun
  <2>4. /\ f \in [0..n -> Pens] /\ f[0] = p
        /\ \A i \in 1..n : f[i] = SgrOne(f[i - 1], params[i])
    BY <2>3 DEF SgrRun
  <2>5. \A q : \A i \in 1..n : SgrOne(q, params[i]) = SgrOne(q, c[i])
    <3>1. ASSUME NEW q, NEW i \in 1..n PROVE SgrOne(q, params[i]) = SgrOne(q, c[i])
      <4>1. CASE params[i] = Missing
        <5>1. c[i] = 0
          BY <2>1, <4>1
        <5>2. SgrOne(q, 0) = DefaultPen /\ SgrOne(q, Missing) = DefaultPen
          BY DEF SgrOne, Missing
        <5> QED
          BY <4>1, <5>1, <5>2
      <4>2. CASE params[i] # Missing
        <5>1. c[i] = params[i]
          BY <2>1, <4>2
        <5> QED
          BY <5>1
      <4> QED
        BY <4>1, <4>2
    <3> QED
      BY <3>1
  <2> DEFINE Q == {i \in 0..n : f[i] = P(i)}
  <2> HIDE DEF c, n
  <2>6. 0 \in Q
    <3> HIDE DEF P
    <3> QED
      BY <1>1, <2>1, <2>4
  <2>7. \A i \in 0..n : i < n /\ i \in Q => i + 1 \in Q
    <3>1. SUFFICES ASSUME NEW i \in 0..n, i < n, f[i] = P(i) PROVE f[i + 1] = P(i + 1) /\ i + 1 \in 0..n
      <4> HIDE DEF P
      <4> QED
        OBVIOUS
    <3>2. i + 1 \in 1..n /\ (i + 1) - 1 = i /\ i \in Nat /\ i + 1 \in 0..n
      BY <2>1, <3>1
    <3>3. f[i] \in Pens
      BY <2>4
    <3>4. f[i + 1] = SgrOne(f[i], c[i + 1])
      BY <2>4, <2>5, <3>2
    <3>5. c[i + 1] \in Nat
      BY <2>1, <3>2
    <3>6. P(i + 1) = SgrOne(P(i), c[i + 1])
      BY <3>1, <3>2, <3>3, <3>5, PenOfMore
    <3> HIDE DEF P
    <3> QED
      BY <3>1, <3>2, <3>4, <3>6
  <2> HIDE DEF Q
  <2>8. n \in Q
    <3>1. \A i \in 0..n : i \in Q
      BY <2>1, <2>6, <2>7, UpTo
    <3> QED
      BY <2>1, <3>1
  <2>9. f[n] = P(n)
    <3> HIDE DEF P
    <3> QED
      BY <2>8 DEF Q
  <2> HIDE DEF P
  <2> QED
    BY <1>1, <1>3, <2>1, <2>3, <2>9 DEF c
<1> QED
  BY <1>2, <1>3

-----------------------------------------------------------------------------
(* The pen after some items. *)

Saves(items, n) == {i \in 1..n : items[i] = Esc("7")}

\* The item that ESC 8 after n items goes back to.
Saved(items, n) == IF Saves(items, n) = {} THEN 0 ELSE LastOf(Saves(items, n))

PenNext(items, g, n) ==
    IF IsSgr(items[n]) THEN MeantPen(g[n - 1], items[n].params)
    ELSE IF items[n] = Esc("8") THEN g[Saved(items, n)]
    ELSE IF items[n] = Esc("c") THEN DefaultPen
    ELSE g[n - 1]

PenValue(items, g, n) == IF n = 0 THEN DefaultPen ELSE PenNext(items, g, n)

\* The pens after the first n items.
PenRun(items, n, g) == g = [i \in 0..n |-> PenValue(items, g, i)]

LEMMA SavedBefore ==
    ASSUME NEW items, NEW n \in Nat \ {0}, items[n] = Esc("8")
    PROVE  Saved(items, n) \in 0..(n - 1) /\ Saves(items, n) = Saves(items, n - 1)
<1>1. items[n] # Esc("7")
  BY DEF Esc
<1>2. Saves(items, n) = Saves(items, n - 1)
  <2>1. ASSUME NEW i \in 1..n, items[i] = Esc("7") PROVE i \in 1..(n - 1)
    <3>1. i # n
      BY <1>1, <2>1
    <3> QED
      BY <3>1
  <2>2. \A i \in 1..(n - 1) : i \in 1..n
    OBVIOUS
  <2> HIDE DEF Esc
  <2> QED
    BY <2>1, <2>2 DEF Saves
<1> DEFINE m == n - 1
           S == Saves(items, m)
<1>3. m \in Nat /\ S \in SUBSET (1..m)
  BY DEF Saves
<1> HIDE DEF m, S
<1>4. S # {} => LastOf(S) \in 0..m
  <2>1. S # {} => LastOf(S) \in S
    BY <1>3, LastExists
  <2>2. \A j \in S : j \in 0..m
    BY <1>3
  <2> QED
    BY <2>1, <2>2
<1>5. Saved(items, n) \in 0..m
  <2>1. Saved(items, n) = IF S = {} THEN 0 ELSE LastOf(S)
    BY <1>2 DEF Saved, S, m
  <2>2. 0 \in 0..m
    BY <1>3
  <2> QED
    BY <1>4, <2>1, <2>2
<1> QED
  BY <1>2, <1>5 DEF m

\* The pen after n items depends on those before only.
LEMMA PenNextAlike ==
    ASSUME NEW p, NEW q, NEW n \in Nat \ {0}, NEW g, NEW h,
           \A i \in 1..n : p[i] = q[i], \A i \in 0..(n - 1) : g[i] = h[i]
    PROVE  PenNext(p, g, n) = PenNext(q, h, n)
<1>1. n \in 1..n /\ n - 1 \in 0..(n - 1)
  OBVIOUS
<1>2. p[n] = q[n] /\ g[n - 1] = h[n - 1]
  BY <1>1
<1>3. Saved(p, n) = Saved(q, n)
  <2>1. Saves(p, n) = Saves(q, n)
    BY DEF Saves
  <2> QED
    BY <2>1 DEF Saved
<1>4. p[n] = Esc("8") => g[Saved(p, n)] = h[Saved(q, n)]
  BY <1>3, SavedBefore
<1>5. CASE IsSgr(p[n])
  BY <1>2, <1>5, Zenon DEF PenNext
<1>6. CASE ~IsSgr(p[n]) /\ p[n] = Esc("8")
  BY <1>2, <1>4, <1>6, Zenon DEF PenNext
<1>7. CASE ~IsSgr(p[n]) /\ p[n] # Esc("8")
  BY <1>2, <1>7, Zenon DEF PenNext
<1> QED
  BY <1>5, <1>6, <1>7

LEMMA PenRunAt ==
    ASSUME NEW items, NEW n \in Nat, NEW g, PenRun(items, n, g)
    PROVE  g[0] = DefaultPen /\ \A i \in 1..n : g[i] = PenNext(items, g, i)
<1>1. \A i \in 0..n : g[i] = PenValue(items, g, i)
  BY DEF PenRun
<1>2. 0 \in 0..n /\ \A i \in 1..n : i \in 0..n /\ i # 0
  OBVIOUS
<1> QED
  BY <1>1, <1>2 DEF PenValue

LEMMA PenRunExists ==
    ASSUME NEW items, NEW n \in Nat
    PROVE  \E g : PenRun(items, n, g)
<1> DEFINE Q == {m \in 0..n : \E g : PenRun(items, m, g)}
<1>1. 0 \in Q
  <2> DEFINE g == [i \in 0..0 |-> DefaultPen]
  <2>1. \A i \in 0..0 : PenValue(items, g, i) = DefaultPen
    BY DEF PenValue
  <2>2. g = [i \in 0..0 |-> PenValue(items, g, i)]
    BY <2>1, Zenon
  <2>3. PenRun(items, 0, g)
    BY <2>2, Zenon DEF PenRun
  <2> QED
    BY <2>3
<1>2. ASSUME NEW m \in 0..n, m < n, m \in Q PROVE m + 1 \in Q
  <2>1. PICK g : PenRun(items, m, g)
    BY <1>2
  <2> DEFINE k == m + 1
             h == [i \in 0..k |-> IF i <= m THEN g[i] ELSE PenNext(items, g, k)]
  <2>2. m \in Nat /\ k \in Nat \ {0} /\ k - 1 = m /\ k \in 0..n
    BY <1>2
  <2>3. (\A i \in 0..m : h[i] = g[i]) /\ h[k] = PenNext(items, g, k)
    BY <1>2
  <2>4. DOMAIN h = 0..k /\ h = [i \in 0..k |-> h[i]]
    BY Zenon
  <2> HIDE DEF h
  <2>5. ASSUME NEW i \in 0..k PROVE h[i] = PenValue(items, h, i)
    <3>1. CASE i = 0
      BY <2>1, <2>2, <2>3, <3>1, PenRunAt DEF PenValue
    <3>2. CASE i \in 1..k
      <4>1. i \in Nat \ {0} /\ i # 0 /\ i - 1 \in 0..m /\ \A j \in 0..(i - 1) : j \in 0..m
        BY <2>2, <3>2
      <4>2. h[i] = PenNext(items, g, i)
        <5>1. CASE i = k
          BY <2>3, <5>1
        <5>2. CASE i \in 1..m
          <6>1. i \in 0..m
            BY <5>2
          <6> QED
            BY <2>1, <2>2, <2>3, <5>2, <6>1, PenRunAt
        <5>3. i = k \/ i \in 1..m
          BY <2>2, <3>2
        <5> QED
          BY <5>1, <5>2, <5>3
      <4>3. PenNext(items, g, i) = PenNext(items, h, i)
        <5>1. \A j \in 0..(i - 1) : g[j] = h[j]
          BY <2>3, <4>1
        <5> QED
          BY <4>1, <5>1, PenNextAlike
      <4> QED
        BY <4>1, <4>2, <4>3 DEF PenValue
    <3>3. i = 0 \/ i \in 1..k
      BY <2>2
    <3> QED
      BY <3>1, <3>2, <3>3
  <2>6. PenRun(items, k, h)
    BY <2>4, <2>5, Zenon DEF PenRun
  <2> QED
    BY <2>2, <2>6
<1> HIDE DEF Q
<1>3. n \in Q
  <2>1. \A m \in 0..n : m \in Q
    BY <1>1, <1>2, UpTo
  <2> QED
    BY <2>1
<1> QED
  BY <1>3 DEF Q

SameItems(k, p, q) == \A i \in 1..k : p[i] = q[i]

\* As far as the items are alike, the pens are.
LEMMA PenRunAlike ==
    ASSUME NEW p, NEW q, NEW m \in Nat, NEW n \in Nat, NEW k \in Nat, k <= m, k <= n,
           NEW g, NEW h, PenRun(p, m, g), PenRun(q, n, h), SameItems(k, p, q)
    PROVE  Alike(k, g, h)
<1> USE DEF Alike, SameItems
<1> DEFINE Bad == {i \in 0..k : g[i] # h[i]}
<1>1. SUFFICES ASSUME Bad # {} PROVE FALSE
  OBVIOUS
<1>2. PICK i \in Bad : \A j \in Bad : i <= j
  <2>1. Bad \in SUBSET Nat
    OBVIOUS
  <2> HIDE DEF Bad
  <2> QED
    BY <1>1, <2>1, FirstExists
<1>3. i \in 0..k /\ g[i] # h[i]
  OBVIOUS
<1>4. /\ g[0] = DefaultPen /\ \A j \in 1..m : g[j] = PenNext(p, g, j)
      /\ h[0] = DefaultPen /\ \A j \in 1..n : h[j] = PenNext(q, h, j)
  BY PenRunAt
<1>5. i \in Nat \ {0} /\ i \in 1..m /\ i \in 1..n /\ \A j \in 1..i : j \in 1..k
  BY <1>3, <1>4
<1>6. \A j \in 0..(i - 1) : g[j] = h[j]
  <2>1. ASSUME NEW j \in 0..(i - 1) PROVE g[j] = h[j]
    <3>1. j \in 0..k /\ ~(i <= j)
      BY <1>3, <1>5
    <3>2. j \notin Bad
      <4> HIDE DEF Bad
      <4> QED
        BY <1>2, <3>1
    <3> QED
      BY <3>1, <3>2
  <2> QED
    BY <2>1
<1>7. \A j \in 1..i : p[j] = q[j]
  BY <1>5
<1> HIDE DEF Bad
<1>8. PenNext(p, g, i) = PenNext(q, h, i)
  BY <1>5, <1>6, <1>7, PenNextAlike
<1> QED
  BY <1>3, <1>4, <1>5, <1>8

LEMMA PenAfterIs ==
    ASSUME NEW items, Len(items) \in Nat
    PROVE  \E g : PenRun(items, Len(items), g) /\ PenAfter(items) = g[Len(items)]
<1> DEFINE n == Len(items)
           g == CHOOSE g : PenRun(items, n, g)
<1>1. PenRun(items, n, g)
  BY PenRunExists, Zenon
<1>2. PenAfter(items) = g[n]
  BY DEF PenAfter, PenRun, PenValue, PenNext, Saved, Saves
<1> QED
  BY <1>1, <1>2

\* The pen after one more item.
LEMMA PenAfterMore ==
    ASSUME NEW done \in Seq(Known), NEW item \in Known
    PROVE  LET S == Saves(done, Len(done))
           IN  PenAfter(Append(done, item)) =
                  IF IsSgr(item) THEN MeantPen(PenAfter(done), item.params)
                  ELSE IF item = Esc("8")
                       THEN IF S = {} THEN DefaultPen ELSE PenAfter(SubSeq(done, 1, LastOf(S)))
                  ELSE IF item = Esc("c") THEN DefaultPen
                  ELSE PenAfter(done)
<1> DEFINE more == Append(done, item)
           n == Len(done)
           k == n + 1
           S == Saves(done, n)
<1>1. /\ n \in Nat /\ Len(more) = k /\ more[k] = item /\ k \in Nat \ {0} /\ k - 1 = n
      /\ \A i \in 1..n : more[i] = done[i]
  BY AppendIs
<1>2. PICK g : PenRun(more, k, g) /\ PenAfter(more) = g[k]
  <2> HIDE DEF more, n
  <2> QED
    BY <1>1, PenAfterIs
<1>3. PICK h : PenRun(done, n, h) /\ PenAfter(done) = h[n]
  BY <1>1, PenAfterIs
<1> HIDE DEF more, n, k
<1>4. g[0] = DefaultPen /\ g[k] = PenNext(more, g, k)
  <2>1. k \in Nat /\ k \in 1..k
    BY <1>1
  <2> QED
    BY <1>2, <2>1, PenRunAt
<1>5. g[n] = PenAfter(done)
  <2>1. k \in Nat /\ n <= k /\ n <= n /\ n \in 0..n
    BY <1>1 DEF k
  <2>2. SameItems(n, more, done)
    BY <1>1 DEF SameItems
  <2>3. Alike(n, g, h)
    BY <1>1, <1>2, <1>3, <2>1, <2>2, PenRunAlike
  <2> QED
    BY <1>3, <2>1, <2>3 DEF Alike
<1>6. CASE IsSgr(item)
  <2>1. PenNext(more, g, k) = MeantPen(PenAfter(done), item.params)
    BY <1>1, <1>5, <1>6, Zenon DEF PenNext
  <2> QED
    BY <1>2, <1>4, <1>6, <2>1, Zenon DEF more
<1>7. CASE ~IsSgr(item) /\ item = Esc("8")
  <2>1. PenAfter(more) = g[Saved(more, k)]
    BY <1>1, <1>2, <1>4, <1>7, Zenon DEF PenNext
  <2>2. Saves(more, k) = S
    <3>1. Saves(more, k) = Saves(more, n)
      BY <1>1, <1>7, SavedBefore
    <3>2. Saves(more, n) = Saves(done, n)
      BY <1>1 DEF Saves
    <3> QED
      BY <3>1, <3>2
  <2> HIDE DEF S
  <2>3. CASE S = {}
    <3>1. Saved(more, k) = 0
      BY <2>2, <2>3, Zenon DEF Saved
    <3>2. PenAfter(more) = DefaultPen
      BY <1>4, <2>1, <3>1
    <3> QED
      BY <1>7, <2>3, <3>2, Zenon DEF more, S, n
  <2>4. CASE S # {}
    <3> DEFINE m == LastOf(S)
               q == SubSeq(done, 1, m)
    <3>1. m \in 1..n /\ m \in Nat /\ m <= n /\ m <= k
      <4>1. S \in SUBSET (1..n)
        BY DEF S, Saves
      <4>2. m \in 1..n
        BY <1>1, <2>4, <4>1, LastExists
      <4> HIDE DEF m
      <4> QED
        BY <1>1, <4>2 DEF k
    <3>2. Saved(more, k) = m
      BY <2>2, <2>4, Zenon DEF Saved
    <3> HIDE DEF m
    <3>3. Len(q) = m /\ \A i \in 1..m : q[i] = done[i]
      <4>1. done \in Seq(Known) /\ 1 \in 1..(n + 1) /\ m \in 0..n
        BY <1>1, <3>1
      <4> QED
        BY <3>1, <4>1, SubSeqProperties DEF n
    <3> HIDE DEF q
    <3>4. PICK f : PenRun(q, m, f) /\ PenAfter(q) = f[m]
      BY <3>1, <3>3, PenAfterIs
    <3>5. \A i \in 1..m : q[i] = more[i]
      <4>1. \A i \in 1..m : i \in 1..n
        BY <1>1, <3>1
      <4> QED
        BY <1>1, <3>3, <4>1
    <3>6. f[m] = g[m]
      <4>1. k \in Nat /\ m <= m /\ m \in 0..m
        BY <1>1, <3>1
      <4>2. SameItems(m, q, more)
        BY <3>5 DEF SameItems
      <4>3. Alike(m, f, g)
        BY <1>2, <3>1, <3>4, <4>1, <4>2, PenRunAlike
      <4> QED
        BY <4>1, <4>3 DEF Alike
    <3>7. PenAfter(more) = PenAfter(q)
      BY <2>1, <3>2, <3>4, <3>6
    <3> QED
      BY <1>7, <2>4, <3>7, Zenon DEF more, S, n, q, m
  <2> QED
    BY <2>3, <2>4
<1>8. CASE ~IsSgr(item) /\ item # Esc("8") /\ item = Esc("c")
  <2>1. PenNext(more, g, k) = DefaultPen
    BY <1>1, <1>8, Zenon DEF PenNext
  <2> QED
    BY <1>2, <1>4, <1>8, <2>1, Zenon DEF more
<1>9. CASE ~IsSgr(item) /\ item # Esc("8") /\ item # Esc("c")
  <2>1. PenNext(more, g, k) = PenAfter(done)
    BY <1>1, <1>5, <1>9, Zenon DEF PenNext
  <2> QED
    BY <1>2, <1>4, <1>9, <2>1, Zenon DEF more
<1> QED
  BY <1>6, <1>7, <1>8, <1>9, Zenon

\* The pen is as the items done set it, and so is the one saved.
PenKept(done) ==
    LET S == Saves(done, Len(done))
    IN  (\A i \in 1..Len(done) : PenItem(done, i)) =>
            /\ pen = PenAfter(done)
            /\ S # {} => savedPen = PenAfter(SubSeq(done, 1, LastOf(S)))

LEMMA PenItems ==
    ASSUME NEW done \in Seq(Known), NEW item \in Known,
           \A i \in 1..(Len(done) + 1) : PenItem(Append(done, item), i)
    PROVE  /\ \A i \in 1..Len(done) : PenItem(done, i)
           /\ Fits(item)
           /\ IsSgr(item) /\ item.params # <<>> => Last(item.params) # Missing
           /\ item = Esc("8") => Saves(done, Len(done)) # {}
<1> DEFINE more == Append(done, item)
           n == Len(done)
           k == n + 1
<1>1. /\ n \in Nat /\ k \in 1..k /\ more[k] = item /\ k - 1 = n
      /\ \A i \in 1..n : i \in 1..k /\ more[i] = done[i]
  BY AppendIs
<1>2. \A i \in 1..k : PenItem(more, i)
  OBVIOUS
<1> HIDE DEF more, n, k
<1>3. ASSUME NEW i \in 1..n PROVE PenItem(done, i)
  <2>1. PenItem(more, i) /\ more[i] = done[i]
    BY <1>1, <1>2
  <2>2. \A j \in 1..(i - 1) : more[j] = done[j]
    <3>1. \A j \in 1..(i - 1) : j \in 1..n
      BY <1>1
    <3> QED
      BY <1>1, <3>1
  <2> QED
    BY <2>1, <2>2, Zenon DEF PenItem
<1>4. PenItem(more, k)
  BY <1>1, <1>2
<1>5. item = Esc("8") => Saves(done, n) # {}
  <2>1. item = Esc("8") => \E j \in 1..n : more[j] = Esc("7")
    BY <1>1, <1>4, Zenon DEF PenItem
  <2> QED
    BY <1>1, <2>1 DEF Saves
<1>6. Fits(item) /\ (IsSgr(item) /\ item.params # <<>> => Last(item.params) # Missing)
  BY <1>1, <1>4, Zenon DEF PenItem
<1> QED
  BY <1>3, <1>5, <1>6 DEF n

\* What an item makes of the pen and of the one saved.
LEMMA PenMoves ==
    ASSUME TypeOK, NEW item \in Known, Fits(item), Acts(item),
           IsSgr(item) /\ item.params # <<>> => Last(item.params) # Missing
    PROVE  /\ pen' = IF IsSgr(item) THEN MeantPen(pen, item.params)
                     ELSE IF item = Esc("8") THEN savedPen
                     ELSE IF item = Esc("c") THEN DefaultPen
                     ELSE pen
           /\ savedPen' = IF item = Esc("7") THEN pen ELSE savedPen
<1>1. item.kind \in {"char", "control", "csi", "esc", "quiet"} /\ pen \in Pens
  BY KnownIs DEF TypeOK
<1>2. CASE item.kind \in {"char", "control", "quiet"}
  <2>1. ~IsSgr(item) /\ item # Esc("7") /\ item # Esc("8") /\ item # Esc("c")
    BY <1>2 DEF IsSgr, Esc
  <2>2. pen' = pen /\ savedPen' = savedPen
    BY <1>2 DEF Acts, Still, penVars
  <2> QED
    BY <2>1, <2>2, Zenon
<1>3. CASE item.kind = "esc"
  <2>1. item = Esc(item.byte) /\ item.byte \in {"7", "8", "c"}
    BY <1>3, KnownIs
  <2>2. /\ item = Esc("7") <=> item.byte = "7"
        /\ item = Esc("8") <=> item.byte = "8"
        /\ item = Esc("c") <=> item.byte = "c"
    BY <2>1 DEF Esc
  <2>3. ~IsSgr(item)
    BY <1>3 DEF IsSgr
  <2>4. /\ savedPen' = IF item.byte = "7" THEN pen ELSE savedPen
        /\ pen' = IF item.byte = "8" THEN savedPen ELSE IF item.byte = "c" THEN DefaultPen ELSE pen
    BY <1>3 DEF Acts
  <2> QED
    BY <2>2, <2>3, <2>4, Zenon
<1>4. CASE item.kind = "csi"
  <2>1. item.private \in BOOLEAN /\ item.params \in Seq(Nat \cup {Missing})
    BY <1>4, KnownIs, MeaningParts
  <2>2. DOMAIN item.params = 1..Len(item.params)
    BY <2>1, LenProperties
  <2>3. /\ Len(EncodedParams(item.params)) <= CsiBufLen - 1
        /\ Len(item.params) <= MaxParams
        /\ \A i \in 1..Len(item.params) : item.params[i] <= IntMax
    BY <1>4, <2>2 DEF Fits
  <2>4. PICK params :
           /\ params = ParseParams(EncodedParams(item.params))
           /\ pen' = IF ~item.private /\ item.final = "m" THEN ApplySgr(params) ELSE pen
    BY <1>4, <2>3, Zenon DEF Acts
  <2>5. item # Esc("7") /\ item # Esc("8") /\ item # Esc("c") /\ savedPen' = savedPen
    BY <1>4 DEF Esc, Acts
  <2>6. IsSgr(item) <=> ~item.private /\ item.final = "m"
    BY <1>4, Zenon DEF IsSgr
  <2>7. CASE IsSgr(item)
    <3>1. item.params # <<>> => item.params[Len(item.params)] # Missing
      BY <2>7 DEF Last
    <3>2. params = item.params
      BY <2>1, <2>3, <2>4, <3>1, ParseExact
    <3>3. ApplySgr(item.params) = MeantPen(pen, item.params)
      BY <1>1, <2>1, SgrMeant DEF ApplySgr
    <3>4. pen' = MeantPen(pen, item.params)
      BY <2>4, <2>6, <2>7, <3>2, <3>3, Zenon
    <3> QED
      BY <2>5, <2>7, <3>4, Zenon
  <2>8. CASE ~IsSgr(item)
    <3>1. pen' = pen
      BY <2>4, <2>6, <2>8, Zenon
    <3> QED
      BY <2>5, <2>8, <3>1, Zenon
  <2> QED
    BY <2>7, <2>8
<1> QED
  BY <1>1, <1>2, <1>3, <1>4, Zenon

LEMMA PenMove ==
    ASSUME TypeOK, NEW done \in Seq(Known), NEW item \in Known, PenKept(done), Acts(item)
    PROVE  PenKept(Append(done, item))'
<1> DEFINE more == Append(done, item)
           n == Len(done)
           k == n + 1
           S == Saves(done, n)
           T == Saves(more, k)
<1>1. /\ n \in Nat /\ Len(more) = k /\ k \in 1..k /\ more[k] = item /\ k - 1 = n
      /\ \A i \in 1..n : i \in 1..k /\ more[i] = done[i]
  BY AppendIs
<1>2. SUFFICES ASSUME \A i \in 1..k : PenItem(more, i)
               PROVE  /\ pen' = PenAfter(more)
                      /\ T # {} => savedPen' = PenAfter(SubSeq(more, 1, LastOf(T)))
  <2> HIDE DEF more, n
  <2> QED
    BY <1>1, Zenon DEF PenKept, more
<1>3. /\ \A i \in 1..n : PenItem(done, i)
      /\ Fits(item)
      /\ IsSgr(item) /\ item.params # <<>> => Last(item.params) # Missing
      /\ item = Esc("8") => S # {}
  BY <1>2, PenItems
<1>4. pen = PenAfter(done) /\ (S # {} => savedPen = PenAfter(SubSeq(done, 1, LastOf(S))))
  BY <1>3, Zenon DEF PenKept
<1>5. /\ pen' = IF IsSgr(item) THEN MeantPen(pen, item.params)
                ELSE IF item = Esc("8") THEN savedPen
                ELSE IF item = Esc("c") THEN DefaultPen
                ELSE pen
      /\ savedPen' = IF item = Esc("7") THEN pen ELSE savedPen
  BY <1>3, PenMoves
<1>6. PenAfter(more) = IF IsSgr(item) THEN MeantPen(PenAfter(done), item.params)
                       ELSE IF item = Esc("8")
                            THEN IF S = {} THEN DefaultPen ELSE PenAfter(SubSeq(done, 1, LastOf(S)))
                       ELSE IF item = Esc("c") THEN DefaultPen
                       ELSE PenAfter(done)
  BY PenAfterMore
<1>7. more \in Seq(Known) /\ done \in Seq(Known)
  BY AppendProperties
<1>8. ~(IsSgr(item) /\ item = Esc("7")) /\ Esc("7") # Esc("8") /\ Esc("7") # Esc("c")
  BY DEF IsSgr, Esc
<1> HIDE DEF more, n, k, S, T
<1>9. pen' = PenAfter(more)
  <2>1. CASE IsSgr(item)
    BY <1>4, <1>5, <1>6, <2>1, Zenon
  <2>2. CASE ~IsSgr(item) /\ item = Esc("8")
    <3>1. savedPen = PenAfter(SubSeq(done, 1, LastOf(S))) /\ S # {}
      BY <1>3, <1>4, <2>2, Zenon
    <3>2. pen' = savedPen /\ PenAfter(more) = PenAfter(SubSeq(done, 1, LastOf(S)))
      BY <1>5, <1>6, <2>2, <3>1, Zenon
    <3> QED
      BY <3>1, <3>2
  <2>3. CASE ~IsSgr(item) /\ item # Esc("8")
    BY <1>4, <1>5, <1>6, <2>3, Zenon
  <2> QED
    BY <2>1, <2>2, <2>3, Zenon
<1>10. CASE item = Esc("7")
  <2>1. savedPen' = pen
    BY <1>5, <1>10, Zenon
  <2>2. pen' = pen
    BY <1>5, <1>10, <1>8, Zenon
  <2>3. T \in SUBSET (1..(n + 1)) /\ n + 1 \in T
    BY <1>1, <1>10 DEF T, Saves, k
  <2>4. LastOf(T) = k
    BY <1>1, <2>3, LastMore DEF k
  <2>5. SubSeq(more, 1, k) = more
    <3>1. k \in 0..k
      BY <1>1
    <3>2. /\ SubSeq(more, 1, k) \in Seq(Known) /\ Len(SubSeq(more, 1, k)) = k
          /\ \A i \in 1..k : SubSeq(more, 1, k)[i] = more[i]
      <4>1. 1 \in 1..(Len(more) + 1) /\ k \in 0..Len(more)
        BY <1>1, <3>1
      <4> QED
        BY <1>1, <1>7, <4>1, SubSeqProperties
    <3> QED
      BY <1>1, <1>7, <3>2, SeqEqual
  <2> QED
    BY <1>9, <2>1, <2>2, <2>4, <2>5
<1>11. CASE item # Esc("7")
  <2>1. savedPen' = savedPen
    BY <1>5, <1>11, Zenon
  <2>2. T = S
    <3>1. ASSUME NEW i \in 1..k, more[i] = Esc("7") PROVE i \in 1..n
      <4>1. i # k
        BY <1>1, <1>11, <3>1
      <4> QED
        BY <1>1, <4>1 DEF k
    <3> HIDE DEF Esc
    <3> QED
      BY <1>1, <3>1 DEF T, S, Saves
  <2>3. SUFFICES ASSUME S # {} PROVE SubSeq(more, 1, LastOf(S)) = SubSeq(done, 1, LastOf(S))
    BY <1>4, <1>9, <2>1, <2>2
  <2> DEFINE m == LastOf(S)
             p == SubSeq(more, 1, m)
             q == SubSeq(done, 1, m)
  <2>4. m \in 1..n
    <3>1. S \in SUBSET (1..n)
      BY DEF S, Saves
    <3> QED
      BY <1>1, <2>3, <3>1, LastExists
  <2> HIDE DEF m
  <2>5. m \in 0..n /\ m \in 0..k /\ 1 \in 1..(n + 1) /\ 1 \in 1..(k + 1) /\ \A i \in 1..m : i \in 1..n
    BY <1>1, <2>4 DEF k
  <2>6. p \in Seq(Known) /\ Len(p) = m /\ \A i \in 1..m : p[i] = more[i]
    BY <1>1, <1>7, <2>5, SubSeqProperties
  <2>7. q \in Seq(Known) /\ Len(q) = m /\ \A i \in 1..m : q[i] = done[i]
    BY <1>7, <2>5, SubSeqProperties DEF n
  <2>8. \A i \in 1..m : p[i] = q[i]
    BY <1>1, <2>5, <2>6, <2>7
  <2> HIDE DEF p, q
  <2>9. p = q
    BY <2>6, <2>7, <2>8, SeqEqual
  <2> QED
    BY <2>9 DEF p, q, m
<1> QED
  BY <1>9, <1>10, <1>11

-----------------------------------------------------------------------------
(* The items sent are done one after the other, and no other thing is. *)

\* The items done have been obeyed, the modes and the pen are as they set them,
\* and the others are on the wire.
Effected(q) == Obeyed(q) /\ ModesKept(q) /\ PenKept(q)
Done(q) == Effected(q) /\ Placed(q)

Progress == Recognised /\ ~torn => \E done \in Seq(Known) : Done(done)

\* What the items have done stays when nothing else is done.
LEMMA EffectedSame ==
    ASSUME NEW q, Effected(q), ops' = ops, UNCHANGED <<penVars, modeVars>>
    PROVE  Effected(q)'
<1>1. /\ pen' = pen /\ savedPen' = savedPen
      /\ appCursorKeys' = appCursorKeys /\ cursorVisible' = cursorVisible
  BY DEF penVars, modeVars
<1>2. Obeyed(q)'
  BY Zenon DEF Effected, Obeyed
<1>3. ModesKept(q)'
  BY <1>1, Zenon DEF Effected, ModesKept
<1>4. PenKept(q)'
  BY <1>1, Zenon DEF Effected, PenKept
<1> QED
  BY <1>2, <1>3, <1>4, Zenon DEF Effected

LEMMA FeedProgress ==
    ASSUME TypeOK, Progress, Feed
    PROVE  Progress'
<1>1. PICK st : Takes(st)
  BY DEF Feed, NormalByte, EscByte, CharsetByte, CsiPrivateByte, CsiParamByte, CsiFinalByte, OscByte
<1>2. sent' = sent /\ torn' = torn /\ wire # <<>> /\ wire' = Tail(wire)
  BY <1>1 DEF Takes
<1>3. SUFFICES ASSUME Recognised, ~torn PROVE \E done \in Seq(Known) : Done(done)'
  BY <1>2, Zenon DEF Progress, Recognised
<1>4. PICK done \in Seq(Known) : Done(done)
  BY <1>3 DEF Progress
<1>5. PICK item \in Known, p \in Seq(Bytes), left \in Seq(Known) :
         /\ sent = done \o (<<item>> \o left) /\ p # <<>> /\ wire = p \o StreamOf(left)
         /\ Inside(item, p)
  BY <1>2, <1>4, Opened, Zenon DEF Done
<1>6. b = p[1] /\ wire' = Tail(p) \o StreamOf(left) /\ Tail(p) \in Seq(Bytes)
      /\ StreamOf(left) \in Seq(Bytes)
  <2> DEFINE s == StreamOf(left)
  <2>1. s \in Seq(Bytes) /\ wire = p \o s
    BY <1>5, StreamSome
  <2> HIDE DEF s
  <2>2. Head(wire) = p[1] /\ Tail(wire) = Tail(p) \o s /\ Tail(p) \in Seq(Bytes)
    BY <1>5, <2>1, FrontMoves, SMTT(40)
  <2> QED
    BY <1>2, <2>1, <2>2 DEF b, s
<1>7. Moves(item, p)
  BY <1>5, <1>6, FeedMoves
<1>8. CASE Tail(p) # <<>> /\ Still /\ Inside(item, Tail(p))'
  <2>1. Effected(done)'
    BY <1>4, <1>8, EffectedSame DEF Done, Still
  <2>2. Placed(done)'
    BY <1>2, <1>5, <1>6, <1>8, Zenon DEF Placed
  <2> QED
    BY <2>1, <2>2, Zenon DEF Done
<1>9. CASE Tail(p) = <<>> /\ state' = "normal" /\ Acts(item)
  <2> DEFINE more == Append(done, item)
  <2>1. more \in Seq(Known) /\ sent = more \o left
    BY <1>5, Finished
  <2>2. Effected(more)'
    <3>1. Obeyed(more)'
      BY <1>4, <1>9, ObeyedMoves DEF Done, Effected
    <3>2. ModesKept(more)'
      BY <1>4, <1>9, ModesMove DEF Done, Effected
    <3>3. PenKept(more)'
      BY <1>4, <1>9, PenMove DEF Done, Effected
    <3> QED
      BY <3>1, <3>2, <3>3, Zenon DEF Effected
  <2> HIDE DEF more
  <2>3. wire' = StreamOf(left)
    BY <1>6, <1>9, ConcatEmptySeq
  <2>4. Placed(more)'
    BY <1>2, <1>9, <2>1, <2>3, Zenon DEF Placed
  <2> QED
    BY <2>1, <2>2, <2>4, Zenon DEF Done
<1> QED
  BY <1>7, <1>8, <1>9 DEF Moves

LEMMA InitProgress == Init => Progress
<1> SUFFICES ASSUME Init PROVE Progress
  OBVIOUS
<1>1. <<>> \in Seq(Known) /\ <<>> \o <<>> = <<>>
  OBVIOUS
<1>2. Effective(<<>>) = <<>>
  <2>1. <<>> \in Seq(Meanings)
    OBVIOUS
  <2> QED
    BY <2>1, EffectiveIs, FlatMapEmpty
<1>3. Obeyed(<<>>)
  <2>1. ops = <<>>
    BY DEF Init
  <2>2. <<>> \in Seq(Operations) /\ Len(<<>>) = 0 /\ 1..0 = {}
    OBVIOUS
  <2> QED
    BY <1>2, <2>1, <2>2, Zenon DEF Obeyed
<1>4. Placed(<<>>)
  BY <1>1, StreamEmpty, Zenon DEF Init, Placed
<1>5. ModesKept(<<>>)
  <2> DEFINE none == <<>>
  <2>1. DOMAIN none = {}
    OBVIOUS
  <2>2. \A mode, default : MeantMode(none, mode, default) = default
    BY <2>1 DEF MeantMode
  <2> HIDE DEF none
  <2>3. ModesKept(none)
    BY <2>2 DEF Init, ModesKept
  <2> QED
    BY <2>3 DEF none
<1>6. PenKept(<<>>)
  <2> DEFINE none == <<>>
  <2>1. Len(none) = 0
    OBVIOUS
  <2> HIDE DEF none
  <2>2. PenAfter(none) = DefaultPen
    <3>1. PICK g : PenRun(none, 0, g) /\ PenAfter(none) = g[0]
      BY <2>1, PenAfterIs
    <3>2. 0 \in Nat
      OBVIOUS
    <3> QED
      BY <3>1, <3>2, PenRunAt
  <2>3. Saves(none, 0) = {}
    BY DEF Saves
  <2>4. pen = DefaultPen
    BY DEF Init
  <2>5. PenKept(none)
    BY <2>1, <2>2, <2>3, <2>4, Zenon DEF PenKept
  <2> QED
    BY <2>5 DEF none
<1> QED
  BY <1>1, <1>3, <1>4, <1>5, <1>6, Zenon DEF Progress, Done, Effected

\* What is sent as long as everything is recognised is known.
LEMMA MoreKnown ==
    ASSUME NEW s \in Seq(Meanings), NEW items \in Seq(Meanings),
           \A i \in DOMAIN (s \o items) : (s \o items)[i].kind # "other",
           \A i \in 1..Len(items) : items[i].kind = "quiet" => Skipped(items[i].bytes)
    PROVE  /\ \A i \in DOMAIN s : s[i].kind # "other"
           /\ items \in Seq(Known)
<1> HIDE DEF Meanings
<1>1. /\ Len(s) \in Nat /\ Len(items) \in Nat
      /\ DOMAIN s = 1..Len(s) /\ DOMAIN items = 1..Len(items)
      /\ DOMAIN (s \o items) = 1..(Len(s) + Len(items))
      /\ \A i \in 1..Len(s) : (s \o items)[i] = s[i]
      /\ \A i \in 1..Len(items) : (s \o items)[Len(s) + i] = items[i]
  BY ConcatIndices
<1>2. ASSUME NEW i \in 1..Len(s) PROVE s[i].kind # "other"
  <2>1. i \in 1..(Len(s) + Len(items))
    BY <1>1
  <2> QED
    BY <1>1, <2>1
<1>3. ASSUME NEW i \in 1..Len(items) PROVE items[i] \in Known
  <2>1. Len(s) + i \in 1..(Len(s) + Len(items))
    BY <1>1
  <2>2. items[i].kind # "other"
    BY <1>1, <2>1
  <2>3. items[i] \in Meanings
    BY ElementOfSeq
  <2> QED
    BY <2>2, <2>3 DEF Known
<1>4. items \in [1..Len(items) -> Known]
  <2>1. items = [i \in 1..Len(items) |-> items[i]]
    BY LenProperties
  <2> HIDE DEF Known
  <2> QED
    BY <1>3, <2>1
<1>5. items \in Seq(Known)
  <2> HIDE DEF Known
  <2> QED
    BY <1>1, <1>4
<1> QED
  BY <1>1, <1>2, <1>5

LEMMA RemoteProgress ==
    ASSUME TypeOK, Progress, NEW item \in Items, RemoteSends(item)
    PROVE  Progress'
<1>1. /\ wire = <<>> /\ sent' = Append(sent, item) /\ wire' = Encoded(item)
      /\ state' = state /\ ops' = ops /\ torn' = torn /\ sent \in Seq(Meanings)
  BY DEF RemoteSends, parserVars, TypeOK
<1>2. item \in Meanings /\ (item.kind = "quiet" => Skipped(item.bytes))
  BY ItemsAssumption
<1> DEFINE e == <<item>>
<1>3. e \in Seq(Meanings) /\ Len(e) = 1 /\ e[1] = item
  BY <1>2
<1>4. sent' = sent \o e
  BY <1>1, <1>2, SMTT(40)
<1>5. SUFFICES ASSUME Recognised', ~torn PROVE \E done \in Seq(Known) : Done(done)'
  BY <1>1, Zenon DEF Progress
<1> HIDE DEF e
<1>6. Recognised /\ e \in Seq(Known)
  <2>1. \A i \in DOMAIN (sent \o e) : (sent \o e)[i].kind # "other"
    BY <1>4, <1>5, Zenon DEF Recognised
  <2>2. \A i \in 1..Len(e) : e[i].kind = "quiet" => Skipped(e[i].bytes)
    BY <1>2, <1>3
  <2> QED
    BY <1>1, <1>3, <2>1, <2>2, MoreKnown DEF Recognised
<1>7. item \in Known
  <2>1. 1 \in 1..Len(e)
    BY <1>3
  <2> HIDE DEF Known
  <2> QED
    BY <1>3, <1>6, <2>1, ElementOfSeq
<1>8. PICK done \in Seq(Known) : Done(done)
  BY <1>5, <1>6 DEF Progress
<1>9. sent = done /\ state = "normal"
  BY <1>1, <1>8, AllDone DEF Done
<1>10. wire' = StreamOf(e)
  <2> DEFINE x == Encoded(item)
             none == <<>>
  <2>1. none \in Seq(Known) /\ StreamOf(none) = <<>> /\ <<item>> \o none = <<item>>
    BY <1>7, StreamEmpty
  <2> HIDE DEF none
  <2>2. StreamOf(<<item>> \o none) = x \o StreamOf(none) /\ x \in Seq(Bytes)
    BY <1>7, <2>1, StreamSome, EncodedSome
  <2> HIDE DEF x
  <2>3. x \o <<>> = x
    BY <2>2, ConcatEmptySeq
  <2> QED
    BY <1>1, <2>1, <2>2, <2>3 DEF x, e
<1>11. Placed(done)'
  BY <1>1, <1>4, <1>6, <1>9, <1>10, Zenon DEF Placed
<1>12. Effected(done)'
  BY <1>1, <1>8, EffectedSame DEF Done, RemoteSends
<1> QED
  BY <1>8, <1>11, <1>12, Zenon DEF Done

\* Where the parser is depends on its state and on the wire.
LEMMA PlacedSame ==
    ASSUME UNCHANGED <<sent, wire, state, csiBuf, csiPrivate>>, NEW done, Placed(done)
    PROVE  Placed(done)'
<1>1. sent' = sent /\ wire' = wire /\ state' = state /\ csiBuf' = csiBuf /\ csiPrivate' = csiPrivate
  OBVIOUS
<1>2. ASSUME NEW item, NEW p, Inside(item, p)
      PROVE  Inside(item, p)'
  <2>1. CASE state = "normal" /\ p = Encoded(item)
    BY <1>1, <2>1 DEF Inside
  <2>2. CASE item.kind = "csi" /\ InCsi(item, p)
    <3>1. InCsi(item, p)'
      BY <1>1, <2>2 DEF InCsi
    <3> QED
      BY <2>2, <3>1 DEF Inside
  <2>3. CASE item.kind = "esc" /\ state = "esc" /\ p = <<item.byte>>
    BY <1>1, <2>3 DEF Inside
  <2>4. CASE item.kind = "quiet" /\ InQuiet(p)
    <3>1. InQuiet(p)'
      BY <1>1, <2>4 DEF InQuiet, OscRest
    <3> QED
      BY <2>4, <3>1 DEF Inside
  <2> QED
    BY <1>2, <2>1, <2>2, <2>3, <2>4, Zenon DEF Inside
<1> QED
  BY <1>1, <1>2, Zenon DEF Placed

LEMMA EchoProgress ==
    ASSUME TypeOK, Progress, NEW key \in EchoKeys, Echo(key)
    PROVE  Progress'
<1> DEFINE items == Echoed(key)
           bytes == EchoBytes(key)
<1>1. /\ sent' = sent \o items /\ wire' = bytes \o wire /\ state' = state /\ ops' = ops
      /\ UNCHANGED <<parserVars, penVars, modeVars>>
      /\ torn' = (torn \/ (wire # <<>> /\ bytes # <<>>))
      /\ sent \in Seq(Meanings) /\ wire \in Seq(Bytes)
  BY DEF Echo, EchoBytes, parserVars, TypeOK
<1>2. items \in Seq(Meanings) /\ \A i \in 1..Len(items) : items[i].kind # "quiet"
  BY KeyItems
<1>3. bytes = StreamOf(items) /\ bytes \in Seq(Bytes)
  <2> DEFINE q == [i \in DOMAIN items |-> Encoded(items[i])]
             r == [i \in DOMAIN items |-> EncodeMap[items[i]]]
  <2>1. \A i \in DOMAIN items : items[i] \in Meanings
    BY <1>2, LenProperties, ElementOfSeq
  <2>2. \A i \in DOMAIN items : EncodeMap[items[i]] = Encoded(items[i])
    BY <2>1 DEF EncodeMap
  <2>3. q = r
    BY <2>2, Zenon
  <2>4. StreamOf(items) = FlattenSeq(r)
    BY DEF StreamOf, FlatMap
  <2>5. bytes = FlattenSeq(q)
    BY DEF EchoBytes
  <2> QED
    BY <2>3, <2>4, <2>5, EchoBytesType
<1> HIDE DEF items, bytes
<1>4. SUFFICES ASSUME Recognised', ~torn' PROVE \E done \in Seq(Known) : Done(done)'
  BY Zenon DEF Progress
<1>5. Recognised /\ items \in Seq(Known)
  <2>1. \A i \in DOMAIN (sent \o items) : (sent \o items)[i].kind # "other"
    BY <1>1, <1>4, Zenon DEF Recognised
  <2> QED
    BY <1>1, <1>2, <2>1, MoreKnown DEF Recognised
<1>6. ~torn /\ (wire = <<>> \/ bytes = <<>>)
  BY <1>1, <1>4, Zenon
<1>7. PICK done \in Seq(Known) : Done(done)
  BY <1>5, <1>6 DEF Progress
<1>8. Effected(done)'
  BY <1>1, <1>7, EffectedSame DEF Done
<1>9. Placed(done)'
  <2>1. CASE wire = <<>>
    <3>1. sent = done /\ state = "normal"
      BY <1>7, <2>1, AllDone DEF Done
    <3>2. wire' = StreamOf(items)
      BY <1>1, <1>3, <2>1, ConcatEmptySeq
    <3> QED
      BY <1>1, <1>5, <3>1, <3>2, Zenon DEF Placed
  <2>2. CASE bytes = <<>>
    <3>1. items = <<>>
      <4>1. SUFFICES ASSUME items # <<>> PROVE FALSE
        OBVIOUS
      <4> DEFINE x == Head(items)
                 rest == Tail(items)
      <4>2. items = <<x>> \o rest /\ x \in Known /\ rest \in Seq(Known)
        BY <1>5, <4>1, FrontTaken
      <4> HIDE DEF x, rest
      <4>3. StreamOf(items) # <<>>
        BY <4>2, StreamSome
      <4> QED
        BY <1>3, <2>2, <4>3
    <3>2. sent \o <<>> = sent /\ <<>> \o wire = wire
      BY <1>1, ConcatEmptySeq
    <3>3. UNCHANGED <<sent, wire, state, csiBuf, csiPrivate>>
      BY <1>1, <2>2, <3>1, <3>2 DEF parserVars
    <3>4. Placed(done)
      BY <1>7 DEF Done
    <3> QED
      BY <3>3, <3>4, PlacedSame
  <2> QED
    BY <1>6, <2>1, <2>2
<1> QED
  BY <1>7, <1>8, <1>9, Zenon DEF Done

LEMMA ProgressKept == TypeOK /\ Progress /\ [Next]_vars => Progress'
<1> SUFFICES ASSUME TypeOK, Progress, [Next]_vars PROVE Progress'
  OBVIOUS
<1>1. ASSUME NEW item \in Items, RemoteSends(item) PROVE Progress'
  BY <1>1, RemoteProgress
<1>2. ASSUME NEW key \in EchoKeys, Echo(key) PROVE Progress'
  BY <1>2, EchoProgress
<1>3. CASE Feed
  BY <1>3, FeedProgress
<1>4. CASE UNCHANGED vars
  <2>1. UNCHANGED <<sent, wire, state, csiBuf, csiPrivate>> /\ torn' = torn /\ ops' = ops
    BY <1>4 DEF vars, parserVars
  <2>2. ASSUME NEW done, Done(done) PROVE Done(done)'
    <3>1. Placed(done)'
      BY <2>1, <2>2, PlacedSame DEF Done
    <3>2. Effected(done)'
      BY <1>4, <2>1, <2>2, EffectedSame DEF Done, vars
    <3> QED
      BY <3>1, <3>2, Zenon DEF Done
  <2> QED
    BY <2>1, <2>2, Zenon DEF Progress, Recognised
<1> QED
  BY <1>1, <1>2, <1>3, <1>4 DEF Next, RemoteSilent

\* In every behaviour the items done have been obeyed, and the rest of them is
\* on the wire.
LEMMA AlwaysProgress == Spec => []Progress
<1>1. Spec => []TypeOK
  BY ParserTypeCorrect
<1> QED
  BY <1>1, InitProgress, ProgressKept, PTL DEF Spec

\* What the items done have left is the front of what all that was sent means.
LEMMA EffectiveConcat ==
    ASSUME NEW q \in Seq(Meanings), NEW r \in Seq(Meanings)
    PROVE  /\ Effective(q \o r) = Effective(q) \o Effective(r)
           /\ Effective(q) \in Seq(Meanings) /\ Effective(r) \in Seq(Meanings)
<1> HIDE DEF Meanings
<1>1. q \o r \in Seq(Meanings)
  BY ConcatProperties
<1>2. EffectMap \in Readings(Meanings, Meanings)
  BY MapTypes
<1>3. FlatMap(EffectMap, q \o r) = FlatMap(EffectMap, q) \o FlatMap(EffectMap, r)
  BY <1>2, FlatMapConcat
<1> QED
  BY <1>1, <1>3, EffectiveIs

LEMMA ProgressMeans == TypeOK /\ Progress => ActsAsMeant
<1> SUFFICES ASSUME TypeOK, Progress, Recognised, ~torn
             PROVE  LET meant == Effective(sent)
                    IN  /\ Len(ops) <= Len(meant)
                        /\ \A i \in DOMAIN ops : Obeys(ops[i], meant[i])
                        /\ wire = <<>> => Len(ops) = Len(meant)
  BY DEF ActsAsMeant
<1>1. PICK done \in Seq(Known) : Done(done)
  BY DEF Progress
<1>2. PICK rest \in Seq(Known) : sent = done \o rest
  <2>1. ASSUME NEW item \in Known, NEW left \in Seq(Known) PROVE <<item>> \o left \in Seq(Known)
    BY FrontAdded
  <2> QED
    BY <1>1, <2>1, Zenon DEF Done, Placed
<1> DEFINE e == Effective(done)
           f == Effective(rest)
           meant == Effective(sent)
<1>3. meant = e \o f /\ e \in Seq(Meanings) /\ f \in Seq(Meanings)
  BY <1>2, KnownType, EffectiveConcat
<1>4. /\ ops \in Seq(Operations) /\ Len(ops) = Len(e)
      /\ \A i \in 1..Len(ops) : Obeys(ops[i], e[i])
  BY <1>1 DEF Done, Effected, Obeyed
<1>5. wire = <<>> => meant = e
  BY <1>1, AllDone DEF Done
<1> HIDE DEF e, f, meant
<1>6. /\ Len(e) \in Nat /\ Len(f) \in Nat /\ Len(meant) = Len(e) + Len(f)
      /\ \A i \in 1..Len(e) : meant[i] = e[i]
  <2> HIDE DEF Meanings
  <2>1. \A i \in 1..Len(e) : (e \o f)[i] = e[i]
    BY <1>3, ConcatIndices
  <2>2. Len(e \o f) = Len(e) + Len(f) /\ Len(e) \in Nat /\ Len(f) \in Nat
    BY <1>3, ConcatProperties, LenProperties
  <2> QED
    BY <1>3, <2>1, <2>2
<1>7. DOMAIN ops = 1..Len(ops)
  BY <1>4, LenProperties
<1>8. Len(ops) <= Len(meant)
  BY <1>4, <1>6
<1>9. \A i \in DOMAIN ops : Obeys(ops[i], meant[i])
  BY <1>4, <1>6, <1>7
<1>10. wire = <<>> => Len(ops) = Len(meant)
  BY <1>4, <1>5
<1> QED
  BY <1>8, <1>9, <1>10 DEF meant

\* The terminal obeys what the remote and the echo mean, in order and once,
\* whatever they send and wherever the chunks are cut: term_putc() loses,
\* doubles and prints none of it, and parse_params() reads the parameters that
\* were written, for any size of csi_buf and params.
THEOREM ParserActsAsMeant == Spec => []ActsAsMeant
<1>1. TypeOK /\ Progress => ActsAsMeant
  BY ProgressMeans
<1> QED
  BY <1>1, ParserTypeCorrect, AlwaysProgress, PTL

\* When all is read, the items done are those sent.
LEMMA AllRead ==
    ASSUME TypeOK, Progress, Recognised, ~torn, wire = <<>>
    PROVE  ModesKept(sent) /\ PenKept(sent) /\ DOMAIN sent = 1..Len(sent)
<1>1. PICK done \in Seq(Known) : Done(done)
  BY DEF Progress
<1>2. sent = done
  BY <1>1, AllDone DEF Done
<1>3. DOMAIN sent = 1..Len(sent)
  BY <1>1, <1>2, LenProperties
<1> QED
  BY <1>1, <1>2, <1>3, Zenon DEF Done, Effected

\* The pen is what all the colours, attributes, saves and restores sent make of
\* it, each as ECMA-48 means it, however they are cut into sequences and however
\* the chunks are cut: term_apply_sgr() reads a list of codes one at a time, ESC 7
\* and ESC 8 save and restore what it made (terminal.c:304-329, 488-503).
THEOREM ParserPenMeant == Spec => []PenMeant
<1>1. TypeOK /\ Progress => PenMeant
  <2> SUFFICES ASSUME TypeOK, Progress, wire = <<>>, Recognised, ~torn,
                      \A i \in DOMAIN sent : PenItem(sent, i)
               PROVE  pen = PenAfter(sent)
    BY DEF PenMeant
  <2>1. PenKept(sent) /\ DOMAIN sent = 1..Len(sent)
    BY AllRead
  <2> QED
    BY <2>1, Zenon DEF PenKept
<1> QED
  BY <1>1, ParserTypeCorrect, AlwaysProgress, PTL

\* Once all is read, the arrow keys and the cursor are in the mode the last
\* sequence about them set, wherever it stood in its parameters, or in that of a
\* reset after it (term_set_private_mode(), terminal.c:331-365, 405-412).
THEOREM ParserModesMeant == Spec => []ModesMeant
<1>1. TypeOK /\ Progress => ModesMeant
  <2> SUFFICES ASSUME TypeOK, Progress, wire = <<>>, Recognised, ~torn,
                      \A i \in DOMAIN sent : Fits(sent[i])
               PROVE  /\ appCursorKeys = MeantMode(sent, 1, FALSE)
                      /\ cursorVisible = MeantMode(sent, 25, TRUE)
    BY DEF ModesMeant
  <2>1. ModesKept(sent) /\ DOMAIN sent = 1..Len(sent)
    BY AllRead
  <2> QED
    BY <2>1, Zenon DEF ModesKept
<1> QED
  BY <1>1, ParserTypeCorrect, AlwaysProgress, PTL
=============================================================================
