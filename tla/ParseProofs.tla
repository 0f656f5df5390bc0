----------------------------- MODULE ParseProofs -----------------------------
(* Parse, for any vocabulary, any nesting and wrapping of parts, mails of    *)
(* any length, and any limits on depth, body and window.                     *)
EXTENDS Parse, FiniteSetTheorems, SequenceTheorems, WellFoundedInduction,
        TLAPS

-----------------------------------------------------------------------------
(* Induction, for sets.                                                    *)

LEMMA LeastExists ==
  ASSUME NEW S \in SUBSET Nat, S # {}
  PROVE  \E n \in S : \A m \in S : n <= m
<1>1. PICK n \in S : \A m \in S : <<m, n>> \notin OpToRel(<, Nat)
  BY WFMin, NatLessThanWellFounded, Zenon
<1>2. \A m \in S : ~(m < n)
  BY <1>1 DEF OpToRel
<1> QED
  BY <1>2

\* A set that has 0, and with each number the next one up to n, has all of them.
LEMMA UpTo ==
  ASSUME NEW n \in Nat, NEW S, 0 \in S,
         \A i \in 1..n : i - 1 \in S => i \in S
  PROVE  \A i \in 0..n : i \in S
<1> DEFINE T == {i \in 0..n : i \notin S}
<1>1. SUFFICES ASSUME T # {} PROVE FALSE
  OBVIOUS
<1>2. T \in SUBSET Nat
  OBVIOUS
<1>3. PICK i \in T : \A j \in T : i <= j
  <2> HIDE DEF T
  <2> QED
    BY <1>1, <1>2, LeastExists
<1>4. i \in 1..n /\ i - 1 \in 0..n
  BY <1>3
<1>5. i - 1 \in S
  BY <1>3, <1>4
<1> QED
  BY <1>3, <1>4, <1>5

-----------------------------------------------------------------------------
(* Joined lists.                                                           *)

JoinsUpTo(f, lists, n) ==
  f = [i \in 0..n |-> IF i = 0 THEN <<>> ELSE f[i - 1] \o lists[i]]

\* How far the lists are joined is well defined, list by list.
LEMMA JoinedFunction ==
  ASSUME NEW lists, NEW n \in Nat
  PROVE  \E f : JoinsUpTo(f, lists, n)
<1> DEFINE S == {m \in Nat : \E f : JoinsUpTo(f, lists, m)}
<1>1. 0 \in S
  <2> DEFINE f == [i \in 0..0 |-> <<>>]
  <2>1. f = [i \in 0..0 |-> IF i = 0 THEN <<>> ELSE f[i - 1] \o lists[i]]
    OBVIOUS
  <2>2. JoinsUpTo(f, lists, 0)
    BY <2>1 DEF JoinsUpTo
  <2> QED
    BY <2>2
<1>2. ASSUME NEW m \in 1..n, m - 1 \in S PROVE m \in S
  <2>1. PICK f : JoinsUpTo(f, lists, m - 1)
    BY <1>2
  <2> DEFINE g == [i \in 0..m |-> IF i = m THEN f[m - 1] \o lists[m] ELSE f[i]]
  <2>2. ASSUME NEW i \in 0..m
        PROVE  g[i] = IF i = 0 THEN <<>> ELSE g[i - 1] \o lists[i]
    <3>1. CASE i = m
      <4>1. i # 0 /\ g[i] = f[m - 1] \o lists[m] /\ g[i - 1] = f[m - 1]
        BY <3>1
      <4> QED
        BY <3>1, <4>1
    <3>2. CASE i # m
      <4>1. i \in 0..(m - 1) /\ g[i] = f[i]
        BY <3>2
      <4>2. f[i] = IF i = 0 THEN <<>> ELSE f[i - 1] \o lists[i]
        BY <2>1, <4>1 DEF JoinsUpTo
      <4>3. i # 0 => g[i - 1] = f[i - 1]
        BY <3>2, <4>1
      <4> QED
        BY <4>1, <4>2, <4>3
    <3> QED
      BY <3>1, <3>2
  <2>3. g = [i \in 0..m |-> g[i]]
    OBVIOUS
  <2> HIDE DEF g
  <2>4. g = [i \in 0..m |-> IF i = 0 THEN <<>> ELSE g[i - 1] \o lists[i]]
    BY <2>2, <2>3
  <2>5. JoinsUpTo(g, lists, m)
    BY <2>4 DEF JoinsUpTo
  <2>6. \E h : JoinsUpTo(h, lists, m)
    BY <2>5
  <2> QED
    BY <2>6
<1> HIDE DEF S
<1>3. n \in S
  BY <1>1, <1>2, UpTo
<1> QED
  BY <1>3 DEF S

\* Every element of a sequence is one of the lists'; and it is empty only if
\* they all are.
MadeOf(s, lists, n) ==
  /\ \A x \in 1..Len(s) :
       \E i \in 1..n : \E k \in 1..Len(lists[i]) : s[x] = lists[i][k]
  /\ s = <<>> => \A i \in 1..n : lists[i] = <<>>

LEMMA JoinedFacts ==
  ASSUME NEW S, NEW n \in Nat, NEW lists \in [1..n -> Seq(S)]
  PROVE  Joined(lists) \in Seq(S) /\ MadeOf(Joined(lists), lists, n)
<1> DEFINE f == CHOOSE f : JoinsUpTo(f, lists, n)
<1>1. Len(lists) = n
  OBVIOUS
<1>2. Joined(lists) = f[n]
  BY <1>1 DEF Joined, JoinsUpTo
<1>3. JoinsUpTo(f, lists, n)
  BY JoinedFunction
<1> HIDE DEF f
<1>4. f[0] = <<>> /\ \A i \in 1..n : f[i] = f[i - 1] \o lists[i]
  <2>1. \A i \in 0..n : f[i] = IF i = 0 THEN <<>> ELSE f[i - 1] \o lists[i]
    BY <1>3, Zenon DEF JoinsUpTo
  <2>2. 0 \in 0..n /\ \A i \in 1..n : i \in 0..n /\ i # 0
    OBVIOUS
  <2> QED
    BY <2>1, <2>2, Zenon
<1> DEFINE Good(i) ==
             /\ f[i] \in Seq(S)
             /\ \A x \in 1..Len(f[i]) :
                  \E j \in 1..n : \E k \in 1..Len(lists[j]) : f[i][x] = lists[j][k]
             /\ \A j \in 1..i : Len(lists[j]) <= Len(f[i])
           G == {i \in 0..n : Good(i)}
<1>5. 0 \in G
  <2>1. f[0] \in Seq(S) /\ Len(f[0]) = 0
    BY <1>4
  <2> QED
    BY <2>1
<1>6. ASSUME NEW i \in 1..n, i - 1 \in G PROVE i \in G
  <2>1. /\ f[i - 1] \in Seq(S) /\ lists[i] \in Seq(S)
        /\ f[i] = f[i - 1] \o lists[i]
    BY <1>4, <1>6
  <2>2. /\ f[i] \in Seq(S)
        /\ Len(f[i]) = Len(f[i - 1]) + Len(lists[i])
        /\ \A x \in 1..Len(f[i]) :
             f[i][x] = IF x <= Len(f[i - 1]) THEN f[i - 1][x]
                       ELSE lists[i][x - Len(f[i - 1])]
    BY <2>1
  <2>3. Len(f[i - 1]) \in Nat /\ Len(lists[i]) \in Nat
    BY <2>1
  <2>4. ASSUME NEW x \in 1..Len(f[i])
        PROVE  \E j \in 1..n : \E k \in 1..Len(lists[j]) : f[i][x] = lists[j][k]
    <3>1. CASE x <= Len(f[i - 1])
      BY <1>6, <2>2, <2>3, <3>1
    <3>2. CASE x > Len(f[i - 1])
      <4>1. x - Len(f[i - 1]) \in 1..Len(lists[i])
        BY <2>2, <2>3, <3>2
      <4>2. f[i][x] = lists[i][x - Len(f[i - 1])]
        BY <2>2, <2>3, <3>2
      <4> QED
        BY <4>1, <4>2
    <3> QED
      BY <2>2, <2>3, <3>1, <3>2
  <2>5. ASSUME NEW j \in 1..i PROVE Len(lists[j]) <= Len(f[i])
    <3>1. CASE j = i
      BY <2>2, <2>3, <3>1
    <3>2. CASE j # i
      <4>1. j \in 1..(i - 1)
        BY <3>2
      <4>2. Len(lists[j]) <= Len(f[i - 1]) /\ lists[j] \in Seq(S)
        BY <1>6, <4>1
      <4> QED
        BY <2>2, <2>3, <4>2
    <3> QED
      BY <3>1, <3>2
  <2> QED
    BY <2>2, <2>4, <2>5
<1>7. n \in G
  <2> HIDE DEF G
  <2>1. \A i \in 0..n : i \in G
    BY <1>5, <1>6, UpTo, Zenon
  <2> QED
    BY <2>1
<1>8. Good(n)
  BY <1>7
<1>9. ASSUME f[n] = <<>>, NEW i \in 1..n PROVE lists[i] = <<>>
  <2>1. lists[i] \in Seq(S) /\ Len(lists[i]) <= 0
    BY <1>8, <1>9
  <2> QED
    BY <2>1
<1> QED
  BY <1>2, <1>8, <1>9 DEF MadeOf

-----------------------------------------------------------------------------
(* Cut texts.                                                              *)

EndsAt(f, ws, n) ==
  f = [i \in 0..n |-> IF i = 0 THEN 0 ELSE f[i - 1] + 1 + Len(ws[i].chars)]

\* Where each word ends is well defined.
LEMMA EndFunction ==
  ASSUME NEW ws, NEW n \in Nat
  PROVE  \E f : EndsAt(f, ws, n)
<1> DEFINE S == {m \in Nat : \E f : EndsAt(f, ws, m)}
<1>1. 0 \in S
  <2> DEFINE f == [i \in 0..0 |-> 0]
  <2>1. f = [i \in 0..0 |-> IF i = 0 THEN 0 ELSE f[i - 1] + 1 + Len(ws[i].chars)]
    OBVIOUS
  <2>2. EndsAt(f, ws, 0)
    BY <2>1 DEF EndsAt
  <2> QED
    BY <2>2
<1>2. ASSUME NEW m \in 1..n, m - 1 \in S PROVE m \in S
  <2>1. PICK f : EndsAt(f, ws, m - 1)
    BY <1>2
  <2> DEFINE g == [i \in 0..m |-> IF i = m THEN f[m - 1] + 1 + Len(ws[m].chars) ELSE f[i]]
  <2>2. ASSUME NEW i \in 0..m
        PROVE  g[i] = IF i = 0 THEN 0 ELSE g[i - 1] + 1 + Len(ws[i].chars)
    <3>1. CASE i = m
      <4>1. i # 0 /\ g[i] = f[m - 1] + 1 + Len(ws[m].chars) /\ g[i - 1] = f[m - 1]
        BY <3>1
      <4> QED
        BY <3>1, <4>1
    <3>2. CASE i # m
      <4>1. i \in 0..(m - 1) /\ g[i] = f[i]
        BY <3>2
      <4>2. f[i] = IF i = 0 THEN 0 ELSE f[i - 1] + 1 + Len(ws[i].chars)
        BY <2>1, <4>1 DEF EndsAt
      <4>3. i # 0 => g[i - 1] = f[i - 1]
        BY <3>2, <4>1
      <4> QED
        BY <4>1, <4>2, <4>3
    <3> QED
      BY <3>1, <3>2
  <2>3. g = [i \in 0..m |-> g[i]]
    OBVIOUS
  <2> HIDE DEF g
  <2>4. g = [i \in 0..m |-> IF i = 0 THEN 0 ELSE g[i - 1] + 1 + Len(ws[i].chars)]
    BY <2>2, <2>3
  <2>5. EndsAt(g, ws, m)
    BY <2>4 DEF EndsAt
  <2>6. \E h : EndsAt(h, ws, m)
    BY <2>5
  <2> QED
    BY <2>6
<1> HIDE DEF S
<1>3. n \in S
  BY <1>1, <1>2, UpTo
<1> QED
  BY <1>3 DEF S

\* The numbers that are no greater than one of a set of them are as many.
LEMMA InitialSegment ==
  ASSUME NEW n \in Nat, NEW A \in SUBSET (1..n),
         \A i \in A : \A j \in 1..i : j \in A
  PROVE  Cardinality(A) \in 0..n /\ A = 1..Cardinality(A)
<1> DEFINE Out == {i \in Nat : i + 1 \notin A}
<1>1. n \in Out
  OBVIOUS
<1>2. PICK m \in Out : \A i \in Out : m <= i
  <2> HIDE DEF Out
  <2>1. Out \in SUBSET Nat
    BY DEF Out
  <2> QED
    BY <1>1, <2>1, LeastExists
<1>3. m \in 0..n
  BY <1>1, <1>2
<1>4. ASSUME NEW i \in 1..m PROVE i \in A
  <2>1. i - 1 \in Nat /\ i - 1 < m
    OBVIOUS
  <2>2. i - 1 \notin Out
    BY <1>2, <1>3, <2>1
  <2> QED
    BY <2>1, <2>2
<1>5. ASSUME NEW i \in A PROVE i \in 1..m
  <2>1. m + 1 \notin A
    BY <1>2
  <2>2. CASE i > m
    <3>1. m + 1 \in 1..i
      BY <1>3, <2>2
    <3> QED
      BY <2>1, <3>1
  <2> QED
    BY <1>3, <2>2
<1>6. A = 1..m
  BY <1>4, <1>5
<1>7. Cardinality(1..m) = m
  BY <1>3, FS_Interval
<1> QED
  BY <1>3, <1>6, <1>7

LEMMA CharsFacts ==
  ASSUME NEW w \in Word
  PROVE  /\ w.chars \in Seq(Digit \cup {Upper, Lower})
         /\ Len(w.chars) \in Nat \ {0}
<1>1. w.chars \in Seq(Digit \cup {Upper, Lower}) \ {<<>>}
  BY DEF Word
<1> HIDE DEF Word
<1> QED
  BY <1>1

\* What a cut leaves of a word is a word.
LEMMA CutWord ==
  ASSUME NEW w \in Word, NEW n \in Nat \ {0}, n < Len(w.chars)
  PROVE  LET v == [w EXCEPT !.chars = SubSeq(w.chars, 1, n)]
         IN v \in Word /\ LeftOf(v, w)
<1> DEFINE A == Digit \cup {Upper, Lower}
           c == SubSeq(w.chars, 1, n)
<1>1. w.chars \in Seq(A) /\ Len(w.chars) \in Nat
  BY CharsFacts
<1> HIDE DEF A
<1>2. /\ c \in Seq(A) /\ Len(c) = n
      /\ \A i \in 1..n : c[i] = w.chars[i]
  BY <1>1
<1>3. c # <<>>
  BY <1>2
<1> HIDE DEF c
<1> DEFINE v == [w EXCEPT !.chars = c]
<1>4. v \in Word /\ v.chars = c
  BY <1>2, <1>3 DEF Word, A
<1> HIDE DEF v
<1>5. LeftOf(v, w)
  BY <1>1, <1>2, <1>4 DEF LeftOf
<1> QED
  BY <1>4, <1>5 DEF v, c

LEMMA LeftOfItself ==
  ASSUME NEW v, NEW w \in Word, v.chars = w.chars
  PROVE  LeftOf(v, w)
BY CharsFacts DEF LeftOf

LEMMA LeftOfLeft ==
  ASSUME NEW u \in Word, NEW v \in Word, NEW w \in Word,
         LeftOf(u, v), LeftOf(v, w)
  PROVE  LeftOf(u, w)
<1>1. /\ Len(u.chars) \in Nat /\ Len(v.chars) \in Nat /\ Len(w.chars) \in Nat
      /\ Len(u.chars) <= Len(v.chars) /\ Len(v.chars) <= Len(w.chars)
  BY CharsFacts DEF LeftOf
<1>2. ASSUME NEW i \in 1..Len(u.chars) PROVE u.chars[i] = w.chars[i]
  <2>1. i \in 1..Len(v.chars)
    BY <1>1
  <2> QED
    BY <2>1 DEF LeftOf
<1> QED
  BY <1>1, <1>2 DEF LeftOf

\* A cut text has the first words of the text, or what is left of them.
LEMMA CutFacts ==
  ASSUME NEW ws \in Seq(Word), NEW n \in Nat
  PROVE  /\ Cut(ws, n) \in Seq(Word)
         /\ Len(Cut(ws, n)) \in 0..Len(ws)
         /\ \A i \in 1..Len(Cut(ws, n)) : LeftOf(Cut(ws, n)[i], ws[i])
<1> DEFINE L == Len(ws)
           end == CHOOSE f : EndsAt(f, ws, L)
           room(i) == n - end[i - 1] - 1
           A == {i \in 1..L : room(i) > 0}
           piece(i) == IF room(i) < Len(ws[i].chars)
                       THEN [ws[i] EXCEPT !.chars = SubSeq(@, 1, room(i))]
                       ELSE ws[i]
<1>1. Cut(ws, n) = [i \in 1..Cardinality(A) |-> piece(i)]
  BY DEF Cut, EndsAt
<1>2. L \in Nat
  OBVIOUS
<1>3. EndsAt(end, ws, L)
  BY <1>2, EndFunction
<1> HIDE DEF end
<1>4. /\ end[0] = 0
      /\ \A i \in 1..L : end[i] = end[i - 1] + 1 + Len(ws[i].chars)
  <2>1. \A i \in 0..L : end[i] = IF i = 0 THEN 0 ELSE end[i - 1] + 1 + Len(ws[i].chars)
    BY <1>3, Zenon DEF EndsAt
  <2>2. 0 \in 0..L /\ \A i \in 1..L : i \in 0..L /\ i # 0
    BY <1>2
  <2> QED
    BY <2>1, <2>2, Zenon
<1>5. \A i \in 1..L : ws[i] \in Word /\ Len(ws[i].chars) \in Nat \ {0}
  <2>1. \A w \in Word : Len(w.chars) \in Nat \ {0}
    BY CharsFacts
  <2>2. \A i \in 1..L : ws[i] \in Word
    OBVIOUS
  <2> QED
    BY <2>1, <2>2
<1>6. \A i \in 0..L : end[i] \in Nat
  <2> DEFINE S == {i \in 0..L : end[i] \in Nat}
  <2>1. 0 \in S
    BY <1>2, <1>4
  <2>2. ASSUME NEW i \in 1..L, i - 1 \in S PROVE i \in S
    BY <1>4, <1>5, <2>2
  <2> HIDE DEF S
  <2>3. \A i \in 0..L : i \in S
    BY <1>2, <2>1, <2>2, UpTo, Zenon
  <2> QED
    BY <2>3 DEF S
\* A word before one that has room has room too.
<1>7. ASSUME NEW i \in A PROVE \A j \in 1..i : j \in A
  <2> DEFINE S == {m \in 0..(i - 1) : i - m \in A}
  <2>1. 0 \in S
    BY <1>7
  <2>2. ASSUME NEW m \in 1..(i - 1), m - 1 \in S PROVE m \in S
    <3> DEFINE k == i - m
               c == Len(ws[k].chars)
    <3>1. k \in 1..L /\ k + 1 \in A
      BY <2>2
    <3>2. k - 1 \in 0..L /\ k \in 0..L
      BY <3>1
    <3>3. /\ end[k] = end[k - 1] + 1 + c
          /\ n - end[k] - 1 > 0
          /\ end[k - 1] \in Nat /\ end[k] \in Nat /\ c \in Nat
      BY <1>4, <1>5, <1>6, <3>1, <3>2
    <3> HIDE DEF c
    <3>4. room(k) > 0
      BY <3>3
    <3> HIDE DEF k
    <3>5. k \in A
      BY <3>1, <3>4
    <3> QED
      BY <3>5 DEF k
  <2> HIDE DEF A
  <2>3. i \in 1..L /\ i - 1 \in Nat
    BY <1>7 DEF A
  <2> HIDE DEF S
  <2>4. \A m \in 0..(i - 1) : m \in S
    BY <2>1, <2>2, <2>3, UpTo, Zenon
  <2>5. ASSUME NEW j \in 1..i PROVE j \in A
    <3>1. i - j \in 0..(i - 1) /\ i - (i - j) = j
      BY <2>3
    <3>2. i - j \in S
      BY <2>4, <3>1
    <3> QED
      BY <3>1, <3>2 DEF S
  <2> QED
    BY <2>5
<1> DEFINE c == Cardinality(A)
<1>8. c \in 0..L /\ A = 1..c
  <2>1. A \in SUBSET (1..L)
    OBVIOUS
  <2> HIDE DEF A
  <2> QED
    BY <1>2, <1>7, <2>1, InitialSegment
<1> HIDE DEF c
<1>9. ASSUME NEW i \in 1..c
      PROVE  piece(i) \in Word /\ LeftOf(piece(i), ws[i])
  <2>1. i \in 1..L /\ i - 1 \in 0..L
    BY <1>8
  <2>2. room(i) > 0
    BY <1>8
  <2>3. room(i) \in Nat \ {0}
    BY <1>6, <2>1, <2>2
  <2> HIDE DEF room
  <2> QED
    BY <1>5, <2>1, <2>3, CutWord, LeftOfItself
<1>10. Cut(ws, n) = [i \in 1..c |-> piece(i)]
  BY <1>1 DEF c
<1> HIDE DEF piece, A
<1> QED
  BY <1>8, <1>9, <1>10

-----------------------------------------------------------------------------
(* The headers.                                                            *)

HeaderTypeOK ==
  /\ lines \in Seq(Lines)
  /\ mailgun \in [{"spf", "dkim"} -> {"pass", "fail", "none"}]

\* Of the lines that assert a verdict one is the first.
LEMMA FirstVerdictFacts ==
  ASSUME NEW m \in Mechanisms, NEW ls \in Seq(Lines)
  PROVE  IF Asserting(m, ls) = {} THEN FirstVerdict(m, ls) = "none"
         ELSE \E i \in Asserting(m, ls) :
                /\ \A j \in Asserting(m, ls) : i <= j
                /\ FirstVerdict(m, ls) = ls[i][m]
<1>1. CASE Asserting(m, ls) = {}
  BY <1>1 DEF FirstVerdict
<1>2. CASE Asserting(m, ls) # {}
  <2>1. Asserting(m, ls) \in SUBSET Nat
    BY DEF Asserting
  <2>2. \E i \in Asserting(m, ls) : \A j \in Asserting(m, ls) : i <= j
    BY <1>2, <2>1, LeastExists
  <2>3. PICK i \in Asserting(m, ls) :
          /\ \A j \in Asserting(m, ls) : i <= j
          /\ FirstVerdict(m, ls) = ls[i][m]
    BY <1>2, <2>2 DEF FirstVerdict
  <2> QED
    BY <1>2, <2>3
<1> QED
  BY <1>1, <1>2

\* A line further upstream changes no verdict that a line above it gave.
LEMMA FirstVerdictKept ==
  ASSUME NEW m \in Mechanisms, NEW ls \in Seq(Lines), NEW line \in Lines,
         FirstVerdict(m, ls) # "none"
  PROVE  FirstVerdict(m, Append(ls, line)) = FirstVerdict(m, ls)
<1> DEFINE more == Append(ls, line)
<1>1. more \in Seq(Lines) /\ Len(more) = Len(ls) + 1
      /\ \A i \in 1..Len(ls) : more[i] = ls[i]
  OBVIOUS
<1>2. Asserting(m, ls) # {}
  BY DEF FirstVerdict
<1>3. PICK i \in Asserting(m, ls) :
        /\ \A j \in Asserting(m, ls) : i <= j
        /\ FirstVerdict(m, ls) = ls[i][m]
  BY <1>2, FirstVerdictFacts
<1>4. Len(ls) \in Nat /\ i \in 1..Len(ls) /\ i \in Asserting(m, more)
  BY <1>1, <1>3 DEF Asserting
<1>5. PICK k \in Asserting(m, more) :
        /\ \A j \in Asserting(m, more) : k <= j
        /\ FirstVerdict(m, more) = more[k][m]
  BY <1>1, <1>4, FirstVerdictFacts
<1>6. k \in Nat /\ k <= i
  BY <1>4, <1>5 DEF Asserting
<1>7. k \in Asserting(m, ls)
  BY <1>1, <1>4, <1>5, <1>6 DEF Asserting
<1>8. k = i
  BY <1>3, <1>4, <1>6, <1>7
<1> QED
  BY <1>1, <1>3, <1>4, <1>5, <1>8

LEMMA AuthenticationFacts ==
  ASSUME NEW ls, NEW own \in [{"spf", "dkim"} -> {"pass", "fail", "none"}],
         NEW m \in Mechanisms
  PROVE  Authentication(ls, own)[m] =
           IF m # "dmarc" /\ own[m] # "none" THEN own[m] ELSE FirstVerdict(m, ls)
<1>1. DOMAIN own = {"spf", "dkim"}
  OBVIOUS
<1>2. CASE m = "spf"
  BY <1>1, <1>2 DEF Authentication
<1>3. CASE m = "dkim"
  BY <1>1, <1>3 DEF Authentication
<1>4. CASE m = "dmarc"
  BY <1>1, <1>4 DEF Authentication
<1> QED
  BY <1>2, <1>3, <1>4 DEF Mechanisms

\* What FirstWordStands says of one step.
WordStands ==
  ~HeaderInit' =>
    LET old == Authentication(lines, mailgun)
        new == Authentication(lines', mailgun')
    IN \A m \in Mechanisms :
         \/ old[m] \in {"none", new[m]}
         \/ m \in DOMAIN mailgun /\ mailgun'[m] = new[m]

LEMMA HeaderStep ==
  ASSUME HeaderTypeOK, HeaderNext
  PROVE  HeaderTypeOK' /\ WordStands
<1>1. CASE AddLine
  <2>1. PICK line \in Lines : lines' = Append(lines, line)
    BY <1>1 DEF AddLine
  <2>2. mailgun' = mailgun /\ HeaderTypeOK'
    BY <1>1, <2>1 DEF AddLine, HeaderTypeOK
  <2>3. ASSUME NEW m \in Mechanisms
        PROVE  Authentication(lines, mailgun)[m]
                 \in {"none", Authentication(lines', mailgun')[m]}
    BY <2>1, <2>2, <2>3, AuthenticationFacts, FirstVerdictKept DEF HeaderTypeOK
  <2> QED
    BY <2>2, <2>3 DEF WordStands
<1>2. CASE Evaluate
  <2>1. PICK n \in DOMAIN mailgun, v \in {"pass", "fail"} :
          mailgun[n] = "none" /\ mailgun' = [mailgun EXCEPT ![n] = v]
    BY <1>2 DEF Evaluate
  <2>2. lines' = lines /\ HeaderTypeOK'
    BY <1>2, <2>1 DEF Evaluate, HeaderTypeOK
  <2>3. /\ n \in {"spf", "dkim"} /\ DOMAIN mailgun = {"spf", "dkim"}
        /\ mailgun'[n] = v
        /\ \A m \in {"spf", "dkim"} : m # n => mailgun'[m] = mailgun[m]
    BY <2>1 DEF HeaderTypeOK
  <2>4. ASSUME NEW m \in Mechanisms
        PROVE  \/ Authentication(lines, mailgun)[m]
                    \in {"none", Authentication(lines', mailgun')[m]}
               \/ /\ m \in DOMAIN mailgun
                  /\ mailgun'[m] = Authentication(lines', mailgun')[m]
    <3>1. CASE m = n
      BY <2>2, <2>3, <3>1, AuthenticationFacts DEF HeaderTypeOK
    <3>2. CASE m # n
      BY <2>2, <2>3, <3>2, AuthenticationFacts DEF HeaderTypeOK, Mechanisms
    <3> QED
      BY <3>1, <3>2
  <2> QED
    BY <2>2, <2>4 DEF WordStands
<1>3. CASE OtherHeaders
  BY <1>3 DEF OtherHeaders, HeaderTypeOK, WordStands, HeaderInit, NoHeaders
<1> QED
  BY <1>1, <1>2, <1>3 DEF HeaderNext

LEMMA HeadersWellTyped == ParseSpec => []HeaderTypeOK
<1>1. ParseInit => HeaderTypeOK
  BY DEF ParseInit, HeaderInit, HeaderTypeOK, NoHeaders
<1>2. HeaderTypeOK /\ [ParseNext]_parseVars => HeaderTypeOK'
  <2> SUFFICES ASSUME HeaderTypeOK, [ParseNext]_parseVars PROVE HeaderTypeOK'
    OBVIOUS
  <2>1. CASE HeaderNext
    BY <2>1, HeaderStep
  <2>2. CASE UNCHANGED headerVars
    BY <2>2 DEF headerVars, HeaderTypeOK
  <2> QED
    BY <2>1, <2>2 DEF ParseNext, parseVars
<1> QED
  BY <1>1, <1>2, PTL DEF ParseSpec

\* Once a hop has asserted a verdict on a mechanism, no line further upstream
\* takes it back or turns it, for mails with any number of lines.
THEOREM FirstVerdictsStand == ParseSpec => FirstWordStands
<1>1. HeaderTypeOK /\ [ParseNext]_parseVars => [WordStands]_headerVars
  <2> SUFFICES ASSUME HeaderTypeOK, [ParseNext]_parseVars
               PROVE  [WordStands]_headerVars
    OBVIOUS
  <2>1. CASE HeaderNext
    BY <2>1, HeaderStep
  <2>2. CASE UNCHANGED headerVars
    BY <2>2
  <2> QED
    BY <2>1, <2>2 DEF ParseNext, parseVars
<1> QED
  BY <1>1, HeadersWellTyped, PTL DEF ParseSpec, FirstWordStands, WordStands

-----------------------------------------------------------------------------
(* The text.                                                               *)

LEMMA WordFacts ==
  /\ Vocabulary \subseteq Word
  /\ \A w \in Word, b \in {"space", "gap", "line", "mark", "tag", "symbol"} :
       /\ [w EXCEPT !.before = b] \in Word
       /\ [w EXCEPT !.before = b].chars = w.chars
       /\ [w EXCEPT !.before = b].hidden = w.hidden
<1>1. ASSUME NEW w \in Word, NEW b \in {"space", "gap", "line", "mark", "tag", "symbol"}
      PROVE  [w EXCEPT !.before = b] \in Word
  BY DEF Word
<1>2. ASSUME NEW w \in Word, NEW b
      PROVE  /\ [w EXCEPT !.before = b].chars = w.chars
             /\ [w EXCEPT !.before = b].hidden = w.hidden
  BY DEF Word
<1> QED
  BY <1>1, <1>2, VocabularyAssumption

LEMMA PartFacts ==
  ASSUME NEW ps \in Seq(Part), NEW n \in 1..Len(ps)
  PROVE  /\ ps[n].wrapped \in Wrappings
         /\ ps[n].words \in Seq(Vocabulary)
         /\ ps[n].words \in Seq(Word)
<1>1. ps[n] \in Part
  OBVIOUS
<1>2. ps[n].wrapped \in Wrappings /\ ps[n].words \in Seq(Vocabulary)
  BY <1>1 DEF Part
<1> QED
  BY <1>2, WordFacts

\* The collected words of a type are those of the parts of it that are walked,
\* and there are none only if all those parts are empty.
LEMMA CollectedFacts ==
  ASSUME NEW ps \in Seq(Part), NEW type
  PROVE  /\ Collected(ps, type) \in Seq(Word)
         /\ \A x \in 1..Len(Collected(ps, type)) :
              \E n \in 1..Len(ps) : \E k \in 1..Len(ps[n].words) :
                /\ Walked(ps[n].wrapped) /\ ps[n].wrapped.type = type
                /\ Collected(ps, type)[x].chars = ps[n].words[k].chars
                /\ Collected(ps, type)[x].hidden = ps[n].words[k].hidden
         /\ Collected(ps, type) = <<>> =>
              \A n \in 1..Len(ps) :
                Walked(ps[n].wrapped) /\ ps[n].wrapped.type = type
                  => ps[n].words = <<>>
<1> DEFINE begun(ws) == [i \in 1..Len(ws) |->
                          IF i = 1 /\ ws[1].before = "space"
                          THEN [ws[1] EXCEPT !.before = "line"] ELSE ws[i]]
           taken(n) == Walked(ps[n].wrapped) /\ ps[n].wrapped.type = type
           list(n) == IF taken(n) THEN begun(ps[n].words) ELSE <<>>
           lists == [n \in 1..Len(ps) |-> list(n)]
<1>1. Collected(ps, type) = Joined(lists)
  BY DEF Collected
<1>2. ASSUME NEW ws \in Seq(Word)
      PROVE  /\ begun(ws) \in Seq(Word)
             /\ Len(begun(ws)) = Len(ws)
             /\ \A i \in 1..Len(ws) : /\ begun(ws)[i].chars = ws[i].chars
                                      /\ begun(ws)[i].hidden = ws[i].hidden
  <2>1. Len(ws) \in Nat /\ \A i \in 1..Len(ws) : ws[i] \in Word
    OBVIOUS
  <2>2. ASSUME NEW i \in 1..Len(ws)
        PROVE  /\ begun(ws)[i] \in Word
               /\ begun(ws)[i].chars = ws[i].chars
               /\ begun(ws)[i].hidden = ws[i].hidden
    BY <2>1, WordFacts
  <2>3. begun(ws) = [i \in 1..Len(ws) |-> begun(ws)[i]]
    OBVIOUS
  <2> DEFINE b == begun(ws)
  <2> HIDE DEF b
  <2>4. b = [i \in 1..Len(ws) |-> b[i]] /\ \A i \in 1..Len(ws) : b[i] \in Word
    BY <2>2, <2>3 DEF b
  <2>5. b \in Seq(Word) /\ Len(b) = Len(ws)
    BY <2>1, <2>4
  <2> QED
    BY <2>2, <2>5 DEF b
<1> HIDE DEF begun, taken
<1>3. ASSUME NEW n \in 1..Len(ps)
      PROVE  /\ list(n) \in Seq(Word)
             /\ list(n) = <<>> /\ taken(n) => ps[n].words = <<>>
             /\ \A k \in 1..Len(list(n)) :
                  /\ taken(n) /\ k \in 1..Len(ps[n].words)
                  /\ list(n)[k].chars = ps[n].words[k].chars
                  /\ list(n)[k].hidden = ps[n].words[k].hidden
  <2>1. ps[n].words \in Seq(Word)
    BY PartFacts
  <2>2. CASE taken(n)
    <3>1. list(n) = begun(ps[n].words)
      BY <2>2
    <3>2. list(n) = <<>> => ps[n].words = <<>>
      <4>1. list(n) = <<>> => Len(ps[n].words) = 0
        BY <1>2, <2>1, <3>1
      <4> QED
        BY <2>1, <4>1
    <3> QED
      BY <1>2, <2>1, <2>2, <3>1, <3>2
  <2>3. CASE ~taken(n)
    BY <2>3
  <2> QED
    BY <2>2, <2>3
<1> HIDE DEF list
<1>4. lists \in [1..Len(ps) -> Seq(Word)] /\ Len(ps) \in Nat
  BY <1>3
<1>5. \A n \in 1..Len(ps) : lists[n] = list(n)
  OBVIOUS
<1> HIDE DEF lists
<1>6. Joined(lists) \in Seq(Word) /\ MadeOf(Joined(lists), lists, Len(ps))
  BY <1>4, JoinedFacts
<1>7. ASSUME NEW x \in 1..Len(Joined(lists))
      PROVE  \E n \in 1..Len(ps) : \E k \in 1..Len(ps[n].words) :
               /\ taken(n)
               /\ Joined(lists)[x].chars = ps[n].words[k].chars
               /\ Joined(lists)[x].hidden = ps[n].words[k].hidden
  <2>1. PICK n \in 1..Len(ps) : \E k \in 1..Len(lists[n]) :
          Joined(lists)[x] = lists[n][k]
    BY <1>6 DEF MadeOf
  <2>2. PICK k \in 1..Len(list(n)) : Joined(lists)[x] = list(n)[k]
    BY <1>5, <2>1
  <2> QED
    BY <1>3, <2>2
<1>8. ASSUME Joined(lists) = <<>>, NEW n \in 1..Len(ps), taken(n)
      PROVE  ps[n].words = <<>>
  BY <1>3, <1>5, <1>6, <1>8 DEF MadeOf
<1> QED
  BY <1>1, <1>6, <1>7, <1>8, Zenon DEF taken

\* What StripHTML leaves was not hidden.
LEMMA StripHTMLFacts ==
  ASSUME NEW ws \in Seq(Word)
  PROVE  /\ StripHTML(ws) \in Seq(Word)
         /\ \A x \in 1..Len(StripHTML(ws)) : \E i \in 1..Len(ws) :
              ~ws[i].hidden /\ StripHTML(ws)[x].chars = ws[i].chars
<1> DEFINE spaced(w) == IF w.before \in {"tag", "line"}
                        THEN [w EXCEPT !.before = "space"] ELSE w
           list(i) == IF ws[i].hidden THEN <<>> ELSE <<spaced(ws[i])>>
           lists == [i \in 1..Len(ws) |-> list(i)]
<1>1. StripHTML(ws) = Joined(lists)
  BY DEF StripHTML
<1>2. \A w \in Word : spaced(w) \in Word /\ spaced(w).chars = w.chars
  BY WordFacts
<1> HIDE DEF spaced
<1>3. ASSUME NEW i \in 1..Len(ws)
      PROVE  /\ list(i) \in Seq(Word)
             /\ \A k \in 1..Len(list(i)) :
                  ~ws[i].hidden /\ list(i)[k].chars = ws[i].chars
  <2>1. ws[i] \in Word
    OBVIOUS
  <2>2. CASE ws[i].hidden
    BY <2>2
  <2>3. CASE ~ws[i].hidden
    <3>1. list(i) = <<spaced(ws[i])>>
      BY <2>3
    <3>2. spaced(ws[i]) \in Word /\ spaced(ws[i]).chars = ws[i].chars
      BY <1>2, <2>1
    <3> HIDE DEF list
    <3> QED
      BY <2>3, <3>1, <3>2
  <2> QED
    BY <2>2, <2>3
<1> HIDE DEF list
<1>4. lists \in [1..Len(ws) -> Seq(Word)] /\ Len(ws) \in Nat
  BY <1>3
<1>5. \A i \in 1..Len(ws) : lists[i] = list(i)
  OBVIOUS
<1> HIDE DEF lists
<1>6. Joined(lists) \in Seq(Word) /\ MadeOf(Joined(lists), lists, Len(ws))
  BY <1>4, JoinedFacts
<1>7. ASSUME NEW x \in 1..Len(Joined(lists))
      PROVE  \E i \in 1..Len(ws) :
               ~ws[i].hidden /\ Joined(lists)[x].chars = ws[i].chars
  <2>1. PICK i \in 1..Len(ws) : \E k \in 1..Len(lists[i]) :
          Joined(lists)[x] = lists[i][k]
    BY <1>6 DEF MadeOf
  <2>2. PICK k \in 1..Len(list(i)) : Joined(lists)[x] = list(i)[k]
    BY <1>5, <2>1
  <2> QED
    BY <1>3, <2>2
<1> QED
  BY <1>1, <1>6, <1>7

\* The words of a mail that are shown: a part on display has them, an HTML part
\* only if no plain one has any, and no style hides them.
Shown(ps) ==
  LET onDisplay == {n \in 1..Len(ps) :
        /\ ps[n].wrapped.disposition # "attachment"
        /\ ps[n].wrapped.depth <= MaxMultipartDepth}
  IN {n \in onDisplay :
        \/ ps[n].wrapped.type = "text"
        \/ /\ ps[n].wrapped.type = "html"
           /\ \A o \in onDisplay :
                ps[o].wrapped.type # "text" \/ ps[o].words = <<>>}

Shows(ps, v) ==
  \E n \in Shown(ps) : \E k \in 1..Len(ps[n].words) :
    ~ps[n].words[k].hidden /\ LeftOf(v, ps[n].words[k])

AllShown(ps, ws) == \A i \in 1..Len(ws) : Shows(ps, ws[i])

\* A word of a part that is shown, and what is left of one.
LEMMA WordShown ==
  ASSUME NEW ps \in Seq(Part), NEW n \in Shown(ps),
         NEW k \in 1..Len(ps[n].words), ~ps[n].words[k].hidden,
         NEW v, v.chars = ps[n].words[k].chars
  PROVE  Shows(ps, v)
<1>1. ps[n].words \in Seq(Word)
  BY PartFacts DEF Shown
<1>2. ps[n].words[k] \in Word
  BY <1>1
<1> QED
  BY <1>2, LeftOfItself DEF Shows

LEMMA LeftShown ==
  ASSUME NEW ps \in Seq(Part), NEW u \in Word, NEW v \in Word,
         LeftOf(u, v), Shows(ps, v)
  PROVE  Shows(ps, u)
<1>1. PICK n \in Shown(ps) : \E k \in 1..Len(ps[n].words) :
        ~ps[n].words[k].hidden /\ LeftOf(v, ps[n].words[k])
  BY DEF Shows
<1>2. PICK k \in 1..Len(ps[n].words) :
        ~ps[n].words[k].hidden /\ LeftOf(v, ps[n].words[k])
  BY <1>1
<1>3. ps[n].words \in Seq(Word)
  BY PartFacts DEF Shown
<1>4. ps[n].words[k] \in Word
  BY <1>3
<1>5. LeftOf(u, ps[n].words[k])
  BY <1>2, <1>4, LeftOfLeft
<1> QED
  BY <1>2, <1>5 DEF Shows

\* Only HTML has blocks that are not shown.
PlainHidesNothing(ps) ==
  \A n \in 1..Len(ps) :
    ps[n].wrapped.type # "html" =>
      \A k \in 1..Len(ps[n].words) : ~ps[n].words[k].hidden

LEMMA TextBodyFacts ==
  ASSUME NEW ps \in Seq(Part), PlainHidesNothing(ps)
  PROVE  TextBody(ps) \in Seq(Word) /\ AllShown(ps, TextBody(ps))
<1> DEFINE plain == Collected(ps, "text")
           html == Collected(ps, "html")
           full == IF plain # <<>> THEN plain ELSE StripHTML(html)
<1>1. plain \in Seq(Word) /\ html \in Seq(Word)
  BY CollectedFacts
<1>2. full \in Seq(Word)
  BY <1>1, StripHTMLFacts
<1>3. ASSUME NEW x \in 1..Len(full) PROVE Shows(ps, full[x])
  <2>1. CASE plain # <<>>
    <3>1. full = plain
      BY <2>1
    <3>2. PICK n \in 1..Len(ps) : \E k \in 1..Len(ps[n].words) :
            /\ Walked(ps[n].wrapped) /\ ps[n].wrapped.type = "text"
            /\ plain[x].chars = ps[n].words[k].chars
      <4>1. x \in 1..Len(plain)
        BY <1>3, <3>1
      <4> QED
        BY <4>1, CollectedFacts
    <3>3. n \in Shown(ps)
      BY <3>2 DEF Shown, Walked
    <3> QED
      BY <3>1, <3>2, <3>3, WordShown DEF PlainHidesNothing
  <2>2. CASE plain = <<>>
    <3>1. full = StripHTML(html)
      BY <2>2
    <3>2. PICK i \in 1..Len(html) :
            ~html[i].hidden /\ full[x].chars = html[i].chars
      BY <1>1, <1>3, <3>1, StripHTMLFacts
    <3>3. PICK n \in 1..Len(ps) : \E k \in 1..Len(ps[n].words) :
            /\ Walked(ps[n].wrapped) /\ ps[n].wrapped.type = "html"
            /\ html[i].chars = ps[n].words[k].chars
            /\ html[i].hidden = ps[n].words[k].hidden
      BY CollectedFacts
    <3>4. \A o \in 1..Len(ps) :
            Walked(ps[o].wrapped) /\ ps[o].wrapped.type = "text"
              => ps[o].words = <<>>
      BY <2>2, CollectedFacts
    <3>5. n \in Shown(ps)
      BY <3>3, <3>4 DEF Shown, Walked
    <3> QED
      BY <3>2, <3>3, <3>5, WordShown
  <2> QED
    BY <2>1, <2>2
<1> HIDE DEF full
<1> DEFINE cut == Cut(full, MaxTextBodyChars)
<1>4. TextBody(ps) = cut
  BY DEF TextBody, full
<1>5. /\ cut \in Seq(Word)
      /\ Len(cut) \in 0..Len(full)
      /\ \A i \in 1..Len(cut) : LeftOf(cut[i], full[i])
  BY <1>2, CutFacts, ParseBoundsAssumption
<1>6. Len(full) \in Nat
  BY <1>2
<1> HIDE DEF cut
<1>7. ASSUME NEW i \in 1..Len(cut) PROVE Shows(ps, cut[i])
  <2>1. i \in 1..Len(full)
    BY <1>5, <1>6
  <2>2. cut[i] \in Word /\ full[i] \in Word
    BY <1>2, <1>5, <2>1
  <2> QED
    BY <1>3, <1>5, <2>1, <2>2, LeftShown
<1> QED
  BY <1>4, <1>5, <1>7 DEF AllShown

-----------------------------------------------------------------------------
(* Types, and what is mined.                                               *)

TextTypeOK ==
  /\ parts \in Seq(Part)
  /\ text \in Seq(Word)
  /\ reading \in [pc: {"composed", "seek", "scan", "fallback", "done"},
                 keyword: 0..Len(text), window: Seq(Word), code: Seq(Word)]

\* Nothing is read before the mail is composed; and from then on whatever the
\* text, the window and the code hold is shown by a part.
Mined ==
  /\ PlainHidesNothing(parts)
  /\ reading.pc = "composed" => text = <<>> /\ reading = NoReading
  /\ AllShown(parts, text)
  /\ AllShown(parts, reading.window)
  /\ AllShown(parts, reading.code)

MinedInv == TextTypeOK /\ Mined

\* The words up to the first of these: at least one, at most all.
LEMMA UntilFacts ==
  ASSUME NEW ws \in Seq(Word), ws # <<>>, NEW ends
  PROVE  /\ Until(ws, ends) \in 1..Len(ws)
         /\ \A k \in 2..Until(ws, ends) : k \notin ends
         /\ Until(ws, ends) < Len(ws) => Until(ws, ends) + 1 \in ends
<1> DEFINE S == {n \in 1..Len(ws) : n < Len(ws) => n + 1 \in ends}
<1>1. Len(ws) \in Nat /\ Len(ws) >= 1
  OBVIOUS
<1>2. S \in SUBSET Nat /\ Len(ws) \in S
  BY <1>1
<1>3. PICK n \in S : \A m \in S : n <= m
  <2> HIDE DEF S
  <2> QED
    BY <1>2, LeastExists
<1>4. n \in 1..Len(ws) /\ (n < Len(ws) => n + 1 \in ends)
  BY <1>3
<1>5. ASSUME NEW k \in 2..n PROVE k \notin ends
  <2>1. k - 1 \in 1..Len(ws) /\ k - 1 < n /\ k - 1 < Len(ws) /\ (k - 1) + 1 = k
    BY <1>1, <1>4
  <2>2. k - 1 \notin S
    BY <1>3, <2>1
  <2> QED
    BY <2>1, <2>2
<1>6. \E m \in 1..Len(ws) :
        /\ \A k \in 2..m : k \notin ends
        /\ m < Len(ws) => m + 1 \in ends
  BY <1>4, <1>5
<1> QED
  BY <1>6 DEF Until

LEMMA FromFacts ==
  ASSUME NEW ws \in Seq(Word), NEW i \in 0..Len(ws)
  PROVE  /\ From(ws, i + 1) \in Seq(Word)
         /\ Len(From(ws, i + 1)) = Len(ws) - i
         /\ \A k \in 1..(Len(ws) - i) : From(ws, i + 1)[k] = ws[k + i]
<1>1. Len(ws) \in Nat /\ i \in Nat /\ \A k \in (i + 1)..Len(ws) : ws[k] \in Word
  OBVIOUS
<1>2. /\ From(ws, i + 1) \in Seq(Word)
      /\ Len(From(ws, i + 1)) = Len(ws) - i
  BY <1>1 DEF From
<1>3. ASSUME NEW k \in 1..(Len(ws) - i) PROVE From(ws, i + 1)[k] = ws[k + i]
  BY <1>1, <1>3 DEF From
<1> QED
  BY <1>2, <1>3

\* A later piece of a piece.
LEMMA FromFrom ==
  ASSUME NEW ws \in Seq(Word), NEW i \in 0..Len(ws), NEW n \in 0..(Len(ws) - i)
  PROVE  From(From(ws, i + 1), n + 1) = From(ws, i + n + 1)
<1> DEFINE v == From(ws, i + 1)
           u == From(v, n + 1)
           t == From(ws, i + n + 1)
<1>0. Len(ws) \in Nat /\ i + n \in 0..Len(ws)
  OBVIOUS
<1>1. /\ v \in Seq(Word) /\ Len(v) = Len(ws) - i
      /\ \A k \in 1..(Len(ws) - i) : v[k] = ws[k + i]
  BY FromFacts
<1>2. /\ t \in Seq(Word) /\ Len(t) = Len(ws) - (i + n)
      /\ \A k \in 1..(Len(ws) - (i + n)) : t[k] = ws[k + (i + n)]
  BY <1>0, FromFacts
<1> HIDE DEF v, t
<1>3. n \in 0..Len(v)
  BY <1>1
<1>4. /\ u \in Seq(Word) /\ Len(u) = Len(v) - n
      /\ \A k \in 1..(Len(v) - n) : u[k] = v[k + n]
  BY <1>1, <1>3, FromFacts
<1> HIDE DEF u
<1>5. Len(u) = Len(t)
  BY <1>0, <1>1, <1>2, <1>4
<1>6. ASSUME NEW k \in 1..Len(u) PROVE u[k] = t[k]
  <2>1. /\ k \in 1..(Len(ws) - (i + n)) /\ k \in 1..(Len(v) - n)
        /\ k + n \in 1..(Len(ws) - i) /\ (k + n) + i = k + (i + n)
    BY <1>0, <1>1, <1>2, <1>4, <1>5
  <2> QED
    BY <1>1, <1>2, <1>4, <2>1
<1>7. u = t
  BY <1>2, <1>4, <1>5, <1>6, SeqEqual
<1> QED
  BY <1>7 DEF u, v, t

-----------------------------------------------------------------------------
(* The steps of the search, without their records.                         *)

\* Where the first piece of a window, or its rejected run, may end; and what a
\* step finds in a window: a piece of n words from the first.
Ends(ws) == IF ws[1].before = "symbol" THEN Breaks(ws) ELSE Splits(ws)

Piece(ws, n) ==
  /\ n \in 1..Len(ws)
  /\ \A k \in 2..n : k \notin Ends(ws)
  /\ n < Len(ws) => n + 1 \in Ends(ws)

IsPair(ws, n) == n = 2 /\ PlausiblePair(ws[1], ws[2])

\* Why a piece yields the code that it yields, or none.
Yields(ws, n, code) ==
  \/ /\ ws[1].before # "symbol" /\ IsPair(ws, n)
     /\ code = <<ws[1], ws[2]>>
  \/ /\ ws[1].before # "symbol" /\ ~IsPair(ws, n)
     /\ \E i \in 1..n :
          /\ PlausibleWord(ws[i]) /\ \A j \in 1..(i - 1) : ~PlausibleWord(ws[j])
          /\ code = <<ws[i]>>

YieldsNothing(ws, n) ==
  \/ ws[1].before = "symbol"
  \/ ~IsPair(ws, n) /\ \A i \in 1..n : ~PlausibleWord(ws[i])

LEMMA ScanPieceFacts ==
  ASSUME TextTypeOK, ScanPiece
  PROVE  LET ws == reading.window
         IN \E n \in 1..Len(ws) :
              /\ Piece(ws, n)
              /\ \/ YieldsNothing(ws, n)
                    /\ reading' = [reading EXCEPT !.window = From(ws, n + 1)]
                 \/ \E code : Yields(ws, n, code) /\ Found(code)
<1> DEFINE ws == reading.window
           rejected == ws[1].before = "symbol"
           n == Until(ws, IF rejected THEN Breaks(ws) ELSE Splits(ws))
           hits == {i \in 1..n : PlausibleWord(ws[i])}
<1>1. ws \in Seq(Word) /\ ws # <<>>
  BY DEF TextTypeOK, ScanPiece
<1>2. IF ~rejected /\ n = 2 /\ PlausiblePair(ws[1], ws[2])
      THEN Found(<<ws[1], ws[2]>>)
      ELSE IF ~rejected /\ hits # {}
      THEN Found(<<ws[CHOOSE i \in hits : \A j \in hits : i <= j]>>)
      ELSE reading' = [reading EXCEPT !.window = From(ws, n + 1)]
  BY DEF ScanPiece
<1>3. Len(ws) \in Nat /\ Len(ws) >= 1 /\ \A k \in 1..Len(ws) : ws[k] \in Word
  BY <1>1
<1> HIDE DEF ws
<1>5. Piece(ws, n)
  BY <1>1, UntilFacts DEF Piece, Ends
<1> HIDE DEF n
<1>6. n \in 1..Len(ws)
  BY <1>5 DEF Piece
<1>7. CASE ~rejected /\ n = 2 /\ PlausiblePair(ws[1], ws[2])
  <2>1. Yields(ws, n, <<ws[1], ws[2]>>) /\ Found(<<ws[1], ws[2]>>)
    BY <1>2, <1>7 DEF Yields, IsPair
  <2> QED
    BY <1>5, <1>6, <2>1 DEF ws
<1>8. CASE /\ ~(~rejected /\ n = 2 /\ PlausiblePair(ws[1], ws[2]))
           /\ ~rejected /\ hits # {}
  <2>1. hits \in SUBSET Nat
    BY <1>6
  <2>2. \E i \in hits : \A j \in hits : i <= j
    <3> HIDE DEF hits
    <3> QED
      BY <1>8, <2>1, LeastExists
  <2>3. PICK i \in hits : /\ \A j \in hits : i <= j
                          /\ Found(<<ws[i]>>)
    <3> DEFINE i == CHOOSE i \in hits : \A j \in hits : i <= j
    <3>1. i \in hits /\ \A j \in hits : i <= j
      BY <2>2
    <3>2. Found(<<ws[i]>>)
      BY <1>2, <1>8
    <3> HIDE DEF i
    <3> QED
      BY <3>1, <3>2
  <2>4. i \in 1..n /\ PlausibleWord(ws[i])
    BY <2>3
  <2>5. ASSUME NEW j \in 1..(i - 1) PROVE ~PlausibleWord(ws[j])
    <3>1. j \in 1..n /\ ~(i <= j)
      BY <1>6, <2>4
    <3> QED
      BY <2>3, <3>1
  <2>6. Yields(ws, n, <<ws[i]>>)
    BY <1>8, <2>4, <2>5 DEF Yields, IsPair
  <2> QED
    BY <1>5, <1>6, <2>3, <2>6 DEF ws
<1>9. CASE rejected \/ /\ ~(n = 2 /\ PlausiblePair(ws[1], ws[2]))
                       /\ hits = {}
  <2>1. YieldsNothing(ws, n)
    BY <1>9 DEF YieldsNothing, IsPair
  <2>2. reading' = [reading EXCEPT !.window = From(ws, n + 1)]
    BY <1>2, <1>9
  <2> QED
    BY <1>5, <1>6, <2>1, <2>2 DEF ws
<1> QED
  BY <1>7, <1>8, <1>9

\* A code is one or two words of the piece that yields it.
LEMMA YieldsFacts ==
  ASSUME NEW ws \in Seq(Word), NEW n \in 1..Len(ws), NEW code,
         Yields(ws, n, code)
  PROVE  /\ code \in Seq(Word)
         /\ \A x \in 1..Len(code) : \E k \in 1..Len(ws) : code[x] = ws[k]
<1>1. Len(ws) \in Nat /\ \A k \in 1..Len(ws) : ws[k] \in Word
  OBVIOUS
<1>2. CASE IsPair(ws, n) /\ code = <<ws[1], ws[2]>>
  <2>1. 1 \in 1..Len(ws) /\ 2 \in 1..Len(ws)
    BY <1>1, <1>2 DEF IsPair
  <2>2. /\ code \in Seq(Word) /\ Len(code) = 2
        /\ code[1] = ws[1] /\ code[2] = ws[2]
    BY <1>1, <1>2, <2>1
  <2>3. \A x \in 1..Len(code) : x = 1 \/ x = 2
    BY <2>2
  <2> QED
    BY <2>1, <2>2, <2>3
<1>3. CASE \E i \in 1..n : code = <<ws[i]>>
  <2>1. PICK i \in 1..n : code = <<ws[i]>>
    BY <1>3
  <2>2. i \in 1..Len(ws) /\ ws[i] \in Word
    BY <1>1
  <2>3. code \in Seq(Word) /\ Len(code) = 1 /\ code[1] = ws[i]
    BY <2>1, <2>2
  <2>4. \A x \in 1..Len(code) : x = 1
    BY <2>3
  <2> QED
    BY <2>2, <2>3, <2>4
<1> QED
  BY <1>2, <1>3 DEF Yields

LEMMA ImageIsFinite ==
  ASSUME NEW S, IsFiniteSet(S), NEW f, DOMAIN f = S
  PROVE  IsFiniteSet({f[x] : x \in S})
<1> DEFINE T == {f[x] : x \in S}
           g == [x \in S |-> f[x]]
<1>1. g \in Surjection(S, T)
  BY DEF Surjection
<1> QED
  BY <1>1, FS_Surjection

\* The six-digit numbers of a text are finitely many, and made of its words.
LEMMA SixDigitsFacts ==
  ASSUME NEW ws \in Seq(Word)
  PROVE  /\ IsFiniteSet(SixDigits(ws))
         /\ \A code \in SixDigits(ws) :
              /\ code \in Seq(Word) /\ code # <<>>
              /\ \A x \in 1..Len(code) : \E k \in 1..Len(ws) : code[x] = ws[k]
<1> DEFINE L == Len(ws)
           I == {i \in 1..L : Number(ws[i]) /\ Len(ws[i].chars) = 6
                              /\ ws[i].before # "symbol"}
           J == {i \in Pairs(ws) : ws[i].before # "symbol"}
           A == {<<ws[i]>> : i \in I}
           B == {<<ws[i], ws[i + 1]>> : i \in J}
<1>1. SixDigits(ws) = A \cup B
  BY DEF SixDigits
<1>2. L \in Nat /\ IsFiniteSet(1..L) /\ \A k \in 1..L : ws[k] \in Word
  BY FS_Interval
<1>3. I \subseteq 1..L
  OBVIOUS
<1>4. J \subseteq 1..(L - 1) /\ J \subseteq 1..L
  BY <1>2 DEF Pairs
<1> HIDE DEF I, J, L
<1>5. IsFiniteSet(A)
  <2> DEFINE f == [i \in I |-> <<ws[i]>>]
  <2>1. IsFiniteSet(I)
    BY <1>2, <1>3, FS_Subset
  <2>2. IsFiniteSet({f[i] : i \in I})
    <3> DEFINE g == f
    <3>1. DOMAIN g = I
      OBVIOUS
    <3> HIDE DEF g
    <3>2. IsFiniteSet({g[i] : i \in I})
      BY <2>1, <3>1, ImageIsFinite
    <3> QED
      BY <3>2 DEF g
  <2>3. A = {f[i] : i \in I}
    OBVIOUS
  <2> QED
    BY <2>2, <2>3
<1>6. IsFiniteSet(B)
  <2> DEFINE f == [i \in J |-> <<ws[i], ws[i + 1]>>]
  <2>1. IsFiniteSet(J)
    BY <1>2, <1>4, FS_Subset
  <2>2. IsFiniteSet({f[i] : i \in J})
    <3> DEFINE g == f
    <3>1. DOMAIN g = J
      OBVIOUS
    <3> HIDE DEF g
    <3>2. IsFiniteSet({g[i] : i \in J})
      BY <2>1, <3>1, ImageIsFinite
    <3> QED
      BY <3>2 DEF g
  <2>3. B = {f[i] : i \in J}
    OBVIOUS
  <2> QED
    BY <2>2, <2>3
<1>7. ASSUME NEW code \in SixDigits(ws)
      PROVE  /\ code \in Seq(Word) /\ code # <<>>
             /\ \A x \in 1..Len(code) : \E k \in 1..L : code[x] = ws[k]
  <2>1. CASE code \in A
    <3>1. PICK i \in I : code = <<ws[i]>>
      BY <2>1
    <3>2. i \in 1..L /\ ws[i] \in Word
      BY <1>2, <1>3
    <3>3. code \in Seq(Word) /\ Len(code) = 1 /\ code[1] = ws[i] /\ code # <<>>
      BY <3>1, <3>2
    <3>4. \A x \in 1..Len(code) : x = 1
      BY <3>3
    <3> QED
      BY <3>2, <3>3, <3>4
  <2>2. CASE code \in B
    <3>1. PICK i \in J : code = <<ws[i], ws[i + 1]>>
      BY <2>2
    <3>2. i \in 1..L /\ i + 1 \in 1..L
      BY <1>2, <1>4
    <3>3. ws[i] \in Word /\ ws[i + 1] \in Word
      BY <1>2, <3>2
    <3>4. /\ code \in Seq(Word) /\ Len(code) = 2 /\ code # <<>>
          /\ code[1] = ws[i] /\ code[2] = ws[i + 1]
      BY <3>1, <3>3
    <3>5. \A x \in 1..Len(code) : x = 1 \/ x = 2
      BY <3>4
    <3> QED
      BY <3>2, <3>4, <3>5
  <2> QED
    BY <1>1, <2>1, <2>2
<1>8. IsFiniteSet(SixDigits(ws))
  <2> HIDE DEF A, B
  <2> QED
    BY <1>1, <1>5, <1>6, FS_Union
<1> QED
  BY <1>7, <1>8 DEF L

\* The fallback takes a number that all others agree with, and only then one.
LEMMA FallbackFacts ==
  ASSUME TextTypeOK, Fallback
  PROVE  \/ \E code \in SixDigits(text) :
              Found(code) /\ \A c \in SixDigits(text) : Digits(c) = Digits(code)
         \/ /\ Found(<<>>)
            /\ \A c \in SixDigits(text) : \E d \in SixDigits(text) :
                 Digits(c) # Digits(d)
<1> DEFINE S == SixDigits(text)
           T == {Digits(code) : code \in S}
<1>1. IsFiniteSet(S)
  BY SixDigitsFacts DEF TextTypeOK
<1> HIDE DEF S
<1>2. IsFiniteSet(T)
  <2> DEFINE f == [code \in S |-> Digits(code)]
             g == f
  <2>1. DOMAIN g = S
    OBVIOUS
  <2> HIDE DEF g
  <2>2. IsFiniteSet({g[code] : code \in S})
    BY <1>1, <2>1, ImageIsFinite
  <2> QED
    BY <2>2 DEF g
<1>3. CASE Cardinality(T) = 1
  <2>1. PICK x : T = {x}
    BY <1>2, <1>3, FS_Singleton
  <2>2. \A code \in S : Digits(code) = x
    BY <2>1
  <2>3. PICK code \in S : TRUE
    BY <2>1
  <2>4. Found(CHOOSE c \in S : TRUE) /\ (CHOOSE c \in S : TRUE) \in S
    BY <1>3, <2>3 DEF Fallback, S
  <2> QED
    BY <2>2, <2>4 DEF S
<1>4. CASE Cardinality(T) # 1
  <2>1. Found(<<>>)
    BY <1>4 DEF Fallback, S
  <2>2. ASSUME NEW c \in S PROVE \E d \in S : Digits(c) # Digits(d)
    <3>1. SUFFICES ASSUME \A d \in S : Digits(d) = Digits(c) PROVE FALSE
      OBVIOUS
    <3>2. T = {Digits(c)}
      BY <3>1
    <3> QED
      BY <1>4, <3>2, FS_Singleton
  <2> QED
    BY <2>1, <2>2 DEF S
<1> QED
  BY <1>3, <1>4

\* The next keyword is the first one after the last.
LEMMA NextKeywordFacts ==
  ASSUME TextTypeOK, NextKeyword
  PROVE  \/ /\ reading' = [reading EXCEPT !.pc = "fallback"]
            /\ \A k \in (reading.keyword + 1)..Len(text) : ~text[k].keyword
         \/ \E k \in (reading.keyword + 1)..Len(text) :
              /\ text[k].keyword
              /\ \A j \in (reading.keyword + 1)..(k - 1) : ~text[j].keyword
              /\ reading' = [reading EXCEPT
                   !.pc = "scan", !.keyword = k,
                   !.window = Cut(From(text, k + 1), WindowRunes)]
<1> DEFINE ahead == {k \in (reading.keyword + 1)..Len(text) :
                       text[k].keyword}
<1>1. reading.keyword \in Nat /\ Len(text) \in Nat
  BY DEF TextTypeOK
<1>2. CASE ahead = {}
  BY <1>2 DEF NextKeyword
<1>3. CASE ahead # {}
  <2>1. ahead \in SUBSET Nat
    BY <1>1
  <2>2. \E k \in ahead : \A j \in ahead : k <= j
    <3> HIDE DEF ahead
    <3> QED
      BY <1>3, <2>1, LeastExists
  <2> DEFINE k == CHOOSE k \in ahead : \A j \in ahead : k <= j
  <2>3. k \in ahead /\ \A j \in ahead : k <= j
    BY <2>2
  <2>4. reading' = [reading EXCEPT
          !.pc = "scan", !.keyword = k,
          !.window = Cut(From(text, k + 1), WindowRunes)]
    BY <1>3 DEF NextKeyword
  <2> HIDE DEF k
  <2>5. k \in (reading.keyword + 1)..Len(text) /\ text[k].keyword
    BY <2>3
  <2>6. ASSUME NEW j \in (reading.keyword + 1)..(k - 1)
        PROVE  ~text[j].keyword
    <3>1. j \in (reading.keyword + 1)..Len(text) /\ ~(k <= j)
      BY <1>1, <2>5
    <3> QED
      BY <2>3, <3>1
  <2> QED
    BY <2>4, <2>5, <2>6
<1> QED
  BY <1>2, <1>3

-----------------------------------------------------------------------------
(* Only words on display are mined.                                        *)

LEMMA FromShown ==
  ASSUME NEW ws \in Seq(Word), NEW i \in 0..Len(ws), NEW ps, AllShown(ps, ws)
  PROVE  AllShown(ps, From(ws, i + 1))
<1> DEFINE v == From(ws, i + 1)
<1>1. /\ v \in Seq(Word) /\ Len(v) = Len(ws) - i
      /\ \A k \in 1..(Len(ws) - i) : v[k] = ws[k + i]
  BY FromFacts
<1> HIDE DEF v
<1>2. ASSUME NEW k \in 1..Len(v) PROVE Shows(ps, v[k])
  <2>1. k \in 1..(Len(ws) - i) /\ k + i \in 1..Len(ws)
    BY <1>1
  <2> QED
    BY <1>1, <2>1 DEF AllShown
<1> QED
  BY <1>2 DEF AllShown, v

LEMMA CutShown ==
  ASSUME NEW ws \in Seq(Word), NEW n \in Nat, NEW ps \in Seq(Part),
         AllShown(ps, ws)
  PROVE  AllShown(ps, Cut(ws, n))
<1> DEFINE cut == Cut(ws, n)
<1>1. /\ cut \in Seq(Word) /\ Len(cut) \in 0..Len(ws) /\ Len(ws) \in Nat
      /\ \A i \in 1..Len(cut) : LeftOf(cut[i], ws[i])
  BY CutFacts
<1> HIDE DEF cut
<1>2. ASSUME NEW i \in 1..Len(cut) PROVE Shows(ps, cut[i])
  <2>1. i \in 1..Len(ws)
    BY <1>1
  <2>2. cut[i] \in Word /\ ws[i] \in Word
    BY <1>1, <2>1
  <2>3. Shows(ps, ws[i])
    BY <2>1 DEF AllShown
  <2> QED
    BY <1>1, <2>2, <2>3, LeftShown
<1> QED
  BY <1>2 DEF AllShown, cut

LEMMA PickedShown ==
  ASSUME NEW ws, NEW code, NEW ps, AllShown(ps, ws),
         \A x \in 1..Len(code) : \E k \in 1..Len(ws) : code[x] = ws[k]
  PROVE  AllShown(ps, code)
  BY DEF AllShown

LEMMA MinedInit == ParseInit => MinedInv
  BY DEF ParseInit, TextInit, MinedInv, TextTypeOK, Mined, NoReading,
         PlainHidesNothing, AllShown

\* A sender writes a mail that nobody has read.
LEMMA ComposingMined ==
  ASSUME MinedInv, AddPart \/ AddWord
  PROVE  MinedInv'
<1>1. /\ text = <<>> /\ reading = NoReading
      /\ text' = text /\ reading' = reading
      /\ parts \in Seq(Part) /\ PlainHidesNothing(parts)
  BY DEF MinedInv, Mined, TextTypeOK, AddPart, AddWord
<1>2. parts' \in Seq(Part) /\ PlainHidesNothing(parts')
  <2>1. CASE AddPart
    <3>1. PICK wrapping \in Wrappings :
            parts' = Append(parts, [wrapped |-> wrapping, words |-> <<>>])
      BY <2>1 DEF AddPart
    <3> DEFINE p == [wrapped |-> wrapping, words |-> <<>>]
    <3>2. p \in Part /\ Len(p.words) = 0
      BY DEF Part
    <3> HIDE DEF p
    <3>3. /\ parts' \in Seq(Part) /\ Len(parts') = Len(parts) + 1
          /\ \A n \in 1..Len(parts) : parts'[n] = parts[n]
          /\ parts'[Len(parts) + 1] = p
      BY <1>1, <3>1, <3>2 DEF p
    <3>4. ASSUME NEW n \in 1..Len(parts'), parts'[n].wrapped.type # "html",
                 NEW k \in 1..Len(parts'[n].words)
          PROVE  ~parts'[n].words[k].hidden
      <4>1. Len(parts) \in Nat
        BY <1>1
      <4>2. n # Len(parts) + 1
        BY <3>2, <3>3
      <4>3. n \in 1..Len(parts) /\ parts'[n] = parts[n]
        BY <3>3, <4>1, <4>2
      <4> QED
        BY <1>1, <3>4, <4>3 DEF PlainHidesNothing
    <3> QED
      BY <3>3, <3>4 DEF PlainHidesNothing
  <2>2. CASE AddWord
    <3> DEFINE l == Len(parts)
    <3>1. PICK w \in Vocabulary :
            /\ w.hidden \/ w.before = "tag" => parts[l].wrapped.type = "html"
            /\ parts' = [parts EXCEPT ![l].words = Append(@, w)]
      BY <2>2 DEF AddWord
    <3>2. l \in Nat /\ l \in 1..l
      BY <1>1, <2>2 DEF AddWord
    <3> DEFINE ws == Append(parts[l].words, w)
               p == [parts[l] EXCEPT !.words = ws]
    <3>3. parts[l].words \in Seq(Vocabulary) /\ parts[l] \in Part
      BY <1>1, <3>2, PartFacts
    <3>4. /\ ws \in Seq(Vocabulary) /\ Len(ws) = Len(parts[l].words) + 1
          /\ \A k \in 1..Len(parts[l].words) : ws[k] = parts[l].words[k]
          /\ ws[Len(parts[l].words) + 1] = w
      BY <3>3
    <3>5. parts' = [parts EXCEPT ![l] = p]
      BY <3>1
    <3> HIDE DEF ws
    <3>6. p \in Part /\ p.words = ws /\ p.wrapped = parts[l].wrapped
      BY <3>3, <3>4 DEF Part
    <3> HIDE DEF p
    <3>7. /\ parts' \in Seq(Part) /\ Len(parts') = l /\ parts'[l] = p
          /\ \A n \in 1..l : n # l => parts'[n] = parts[n]
      BY <1>1, <3>2, <3>5, <3>6
    <3> HIDE DEF l
    <3>8. ASSUME NEW n \in 1..l, parts'[n].wrapped.type # "html",
                 NEW k \in 1..Len(parts'[n].words)
          PROVE  ~parts'[n].words[k].hidden
      <4>1. CASE n # l
        BY <1>1, <3>7, <3>8, <4>1 DEF PlainHidesNothing, l
      <4>2. CASE n = l
        <5>1. parts[l].wrapped.type # "html" /\ ~w.hidden
              /\ k \in 1..(Len(parts[l].words) + 1)
          BY <3>1, <3>4, <3>6, <3>7, <3>8, <4>2
        <5>2. \A j \in 1..Len(parts[l].words) : ~parts[l].words[j].hidden
          BY <1>1, <3>2, <5>1 DEF PlainHidesNothing, l
        <5>3. Len(parts[l].words) \in Nat
          BY <3>3
        <5>4. parts'[n].words[k] = ws[k]
          BY <3>6, <3>7, <4>2
        <5>5. CASE k = Len(parts[l].words) + 1
          BY <3>4, <5>1, <5>4, <5>5
        <5>6. CASE k \in 1..Len(parts[l].words)
          BY <3>4, <5>2, <5>4, <5>6
        <5> DEFINE m == Len(parts[l].words)
        <5>7. m \in Nat /\ k \in 1..(m + 1)
          BY <5>1, <5>3
        <5> HIDE DEF m
        <5>8. k = m + 1 \/ k \in 1..m
          BY <5>7
        <5> QED
          BY <5>5, <5>6, <5>8 DEF m
      <4> QED
        BY <4>1, <4>2
    <3> QED
      BY <3>7, <3>8 DEF PlainHidesNothing
  <2> QED
    BY <2>1, <2>2
<1> QED
  BY <1>1, <1>2 DEF MinedInv, TextTypeOK, Mined, NoReading, AllShown

LEMMA ParseMined ==
  ASSUME MinedInv, Parse
  PROVE  MinedInv'
<1>1. /\ parts' = parts /\ parts \in Seq(Part) /\ PlainHidesNothing(parts)
      /\ text' = TextBody(parts)
      /\ reading' = [reading EXCEPT !.pc = "seek"] /\ reading = NoReading
  BY DEF MinedInv, Mined, TextTypeOK, Parse
<1>2. text' \in Seq(Word) /\ AllShown(parts, text')
  BY <1>1, TextBodyFacts
<1>3. /\ reading'.pc = "seek" /\ reading'.keyword = 0
      /\ reading'.window = <<>> /\ reading'.code = <<>>
      /\ reading' = [pc |-> "seek", keyword |-> 0, window |-> <<>>, code |-> <<>>]
  BY <1>1 DEF NoReading
<1>4. 0 \in 0..Len(text')
  BY <1>2
<1> QED
  BY <1>1, <1>2, <1>3, <1>4 DEF MinedInv, TextTypeOK, Mined, AllShown

\* The search for a code changes nothing but what it reads, and picks its words.
LEMMA SearchMined ==
  ASSUME MinedInv, reading.pc # "composed", UNCHANGED <<parts, text>>,
         NEW pc \in {"seek", "scan", "fallback", "done"},
         NEW keyword \in 0..Len(text),
         NEW window \in Seq(Word), AllShown(parts, window),
         NEW code \in Seq(Word), AllShown(parts, code),
         reading' = [pc |-> pc, keyword |-> keyword, window |-> window,
                     code |-> code]
  PROVE  MinedInv'
  BY DEF MinedInv, TextTypeOK, Mined

LEMMA MinedStep ==
  ASSUME MinedInv, TextNext
  PROVE  MinedInv'
<1>0. TextTypeOK /\ Mined
  BY DEF MinedInv
<1>1. /\ parts \in Seq(Part)
      /\ text \in Seq(Word) /\ Len(text) \in Nat
      /\ reading.keyword \in 0..Len(text)
      /\ reading.window \in Seq(Word) /\ reading.code \in Seq(Word)
  BY <1>0 DEF TextTypeOK
<1>2. /\ AllShown(parts, text) /\ AllShown(parts, reading.window)
      /\ AllShown(parts, reading.code)
  BY <1>0 DEF Mined
<1>3. reading = [pc |-> reading.pc, keyword |-> reading.keyword,
                 window |-> reading.window, code |-> reading.code]
  BY <1>0 DEF TextTypeOK
<1>4. CASE AddPart \/ AddWord
  BY <1>4, ComposingMined
<1>5. CASE Parse
  BY <1>5, ParseMined
<1>6. CASE NextKeyword
  <2>1. reading.pc # "composed" /\ UNCHANGED <<parts, text>>
    BY <1>6 DEF NextKeyword
  <2>2. CASE reading' = [reading EXCEPT !.pc = "fallback"]
    <3>1. reading' = [pc |-> "fallback", keyword |-> reading.keyword,
                      window |-> reading.window, code |-> reading.code]
      BY <1>3, <2>2
    <3> QED
      BY <1>1, <1>2, <2>1, <3>1, SearchMined
  <2>3. ASSUME NEW k \in (reading.keyword + 1)..Len(text),
               reading' = [reading EXCEPT
                 !.pc = "scan", !.keyword = k,
                 !.window = Cut(From(text, k + 1), WindowRunes)]
        PROVE  MinedInv'
    <3> DEFINE window == Cut(From(text, k + 1), WindowRunes)
    <3>1. k \in 0..Len(text)
      BY <1>1
    <3>2. From(text, k + 1) \in Seq(Word) /\ AllShown(parts, From(text, k + 1))
      BY <1>1, <1>2, <3>1, FromFacts, FromShown
    <3>3. window \in Seq(Word) /\ AllShown(parts, window)
      BY <1>1, <3>2, CutFacts, CutShown, ParseBoundsAssumption
    <3> HIDE DEF window
    <3>4. reading' = [pc |-> "scan", keyword |-> k, window |-> window,
                      code |-> reading.code]
      BY <1>3, <2>3 DEF window
    <3> QED
      BY <1>1, <1>2, <2>1, <3>1, <3>3, <3>4, SearchMined
  <2> QED
    BY <1>0, <1>6, <2>2, <2>3, NextKeywordFacts
<1>7. CASE ScanPiece
  <2>1. reading.pc # "composed" /\ UNCHANGED <<parts, text>>
    BY <1>7 DEF ScanPiece
  <2>2. PICK n \in 1..Len(reading.window) :
          \/ reading' = [reading EXCEPT !.window = From(reading.window, n + 1)]
          \/ \E code : Yields(reading.window, n, code) /\ Found(code)
    BY <1>0, <1>7, ScanPieceFacts
  <2>3. CASE reading' = [reading EXCEPT !.window = From(reading.window, n + 1)]
    <3> DEFINE window == From(reading.window, n + 1)
    <3>1. n \in 0..Len(reading.window)
      BY <1>1
    <3>2. window \in Seq(Word) /\ AllShown(parts, window)
      BY <1>1, <1>2, <3>1, FromFacts, FromShown
    <3> HIDE DEF window
    <3>3. reading' = [pc |-> "scan", keyword |-> reading.keyword,
                      window |-> window, code |-> reading.code]
      BY <1>3, <1>7, <2>3 DEF window, ScanPiece
    <3> QED
      BY <1>1, <1>2, <2>1, <3>2, <3>3, SearchMined
  <2>4. ASSUME NEW code, Yields(reading.window, n, code), Found(code)
        PROVE  MinedInv'
    <3>1. code \in Seq(Word) /\ AllShown(parts, code)
      BY <1>1, <1>2, <2>4, YieldsFacts, PickedShown
    <3>2. reading' = [pc |-> "done", keyword |-> reading.keyword,
                      window |-> reading.window, code |-> code]
      BY <1>3, <2>4 DEF Found
    <3> QED
      BY <1>1, <1>2, <2>1, <3>1, <3>2, SearchMined
  <2> QED
    BY <2>2, <2>3, <2>4
<1>8. CASE WindowSpent
  <2>1. /\ reading.pc # "composed" /\ UNCHANGED <<parts, text>>
        /\ reading' = [reading EXCEPT !.pc = "seek"]
    BY <1>8 DEF WindowSpent
  <2>2. reading' = [pc |-> "seek", keyword |-> reading.keyword,
                    window |-> reading.window, code |-> reading.code]
    BY <1>3, <2>1
  <2> QED
    BY <1>1, <1>2, <2>1, <2>2, SearchMined
<1>9. CASE Fallback
  <2>1. reading.pc # "composed" /\ UNCHANGED <<parts, text>>
    BY <1>9 DEF Fallback
  <2>2. ASSUME NEW code \in Seq(Word), AllShown(parts, code), Found(code)
        PROVE  MinedInv'
    <3>1. reading' = [pc |-> "done", keyword |-> reading.keyword,
                      window |-> reading.window, code |-> code]
      BY <1>3, <2>2 DEF Found
    <3> QED
      BY <1>1, <1>2, <2>1, <2>2, <3>1, SearchMined
  <2>3. <<>> \in Seq(Word) /\ AllShown(parts, <<>>)
    BY DEF AllShown
  <2>4. ASSUME NEW code \in SixDigits(text)
        PROVE  code \in Seq(Word) /\ AllShown(parts, code)
    <3>1. /\ code \in Seq(Word)
          /\ \A x \in 1..Len(code) : \E k \in 1..Len(text) : code[x] = text[k]
      BY <1>1, <2>4, SixDigitsFacts
    <3> QED
      BY <1>2, <3>1 DEF AllShown
  <2> QED
    BY <1>0, <1>9, <2>2, <2>3, <2>4, FallbackFacts
<1>10. CASE OtherText
  BY <1>10 DEF OtherText, MinedInv, TextTypeOK, Mined, NoReading,
               PlainHidesNothing, AllShown
<1> QED
  BY <1>4, <1>5, <1>6, <1>7, <1>8, <1>9, <1>10 DEF TextNext

LEMMA MinedAlways == ParseSpec => []MinedInv
<1>1. MinedInv /\ [ParseNext]_parseVars => MinedInv'
  <2> SUFFICES ASSUME MinedInv, [ParseNext]_parseVars PROVE MinedInv'
    OBVIOUS
  <2>1. CASE TextNext
    BY <2>1, MinedStep
  <2>2. CASE UNCHANGED textVars
    BY <2>2 DEF textVars, MinedInv, TextTypeOK, Mined
  <2> QED
    BY <2>1, <2>2 DEF ParseNext, parseVars
<1> QED
  BY <1>1, MinedInit, PTL DEF ParseSpec

\* Every reachable state of the headers, the mail and the search is well typed.
THEOREM ParseTypes == ParseSpec => []ParseTypeOK
<1>1. HeaderTypeOK /\ MinedInv => ParseTypeOK
  BY DEF HeaderTypeOK, MinedInv, TextTypeOK, ParseTypeOK
<1> QED
  BY <1>1, HeadersWellTyped, MinedAlways, PTL

\* For mails of any shape, no part that its own headers mark as an attachment in
\* a way that can be read, no part nested too deep, no block that HTML hides and
\* no HTML beside a plain text gives a code its words.
THEOREM ShownWordsMined == ParseSpec => []OnlyShownWordsAreMined
<1>1. MinedInv => OnlyShownWordsAreMined
  <2> SUFFICES ASSUME MinedInv, NEW i \in 1..Len(reading.code)
               PROVE  \E n \in Shown(parts) : \E k \in 1..Len(parts[n].words) :
                        /\ ~parts[n].words[k].hidden
                        /\ LeftOf(reading.code[i], parts[n].words[k])
    BY DEF OnlyShownWordsAreMined, Shown
  <2> QED
    BY DEF MinedInv, Mined, AllShown, Shows
<1> QED
  BY <1>1, MinedAlways, PTL

-----------------------------------------------------------------------------
(* The code is the first plausible token.                                  *)

WindowIn(txt, k) == Cut(From(txt, k + 1), WindowRunes)
Offers(txt, k) == txt[k].keyword /\ Begins(WindowIn(txt, k)) # {}

\* The first m words of a window are passed over: no plausible token began in
\* them, and the rest begins neither inside a run that a symbol rejects nor
\* inside a piece.
PassedOver(ws, m, rest) ==
  /\ rest = From(ws, m + 1)
  /\ \A i \in Begins(ws) : i > m
  /\ m \in 1..(Len(ws) - 1) =>
       /\ \A r \in 1..m : ws[r].before = "symbol" =>
            \E k \in (r + 1)..(m + 1) : k \in Breaks(ws)
       /\ m + 1 \in Splits(ws)

Scanning(txt, keyword, rest) ==
  /\ keyword # 0 /\ txt[keyword].keyword
  /\ \A k \in 1..(keyword - 1) : ~Offers(txt, k)
  /\ \E m \in 0..Len(WindowIn(txt, keyword)) :
       PassedOver(WindowIn(txt, keyword), m, rest)

\* No keyword that was passed offers a token; and of the window that is scanned
\* only words at which none begins were passed over.
Search ==
  /\ reading.pc = "seek" => \A k \in 1..reading.keyword : ~Offers(text, k)
  /\ reading.pc = "scan" => Scanning(text, reading.keyword, reading.window)
  /\ reading.pc = "fallback" => \A k \in 1..Len(text) : ~Offers(text, k)
  /\ CodeIsTheFirstPlausible

Rejected(ws, i) ==
  \E r \in 1..i : /\ ws[r].before = "symbol"
                  /\ \A k \in (r + 1)..i : k \notin Breaks(ws)

LEMMA BeginsFacts ==
  ASSUME NEW ws
  PROVE  /\ \A i : i \in Begins(ws) <=>
              /\ i \in 1..Len(ws)
              /\ PlausibleWord(ws[i]) \/ Paired(ws, i)
              /\ ~Rejected(ws, i)
  BY DEF Begins, Rejected

\* A run ends only where a piece does.
LEMMA BreaksSplit ==
  ASSUME NEW ws
  PROVE  Breaks(ws) \subseteq Splits(ws)
BY DEF Breaks, Splits

\* The rest of a window breaks and splits where the window does.
LEMMA RestSplits ==
  ASSUME NEW ws \in Seq(Word), NEW m \in 0..Len(ws), NEW rest,
         rest = From(ws, m + 1), NEW k \in 2..(Len(ws) - m)
  PROVE  /\ k \in Breaks(rest) <=> k + m \in Breaks(ws)
         /\ k \in Splits(rest) <=> k + m \in Splits(ws)
<1>0. Len(ws) \in Nat /\ m \in Nat
  OBVIOUS
<1>1. /\ Len(ws) \in Nat /\ m \in Nat /\ Len(rest) = Len(ws) - m
      /\ \A j \in 1..(Len(ws) - m) : rest[j] = ws[j + m]
  BY <1>0, FromFacts
<1>2. /\ k \in 1..(Len(ws) - m) /\ k - 1 \in 1..(Len(ws) - m)
      /\ (k - 1) + m = (k + m) - 1
      /\ k \in 2..Len(rest) /\ k + m \in 2..Len(ws)
  BY <1>1
<1>3. rest[k] = ws[k + m] /\ rest[k - 1] = ws[(k + m) - 1]
  BY <1>1, <1>2
<1>4. k \in Breaks(rest) <=> k + m \in Breaks(ws)
  BY <1>2, <1>3 DEF Breaks
<1>5. k \in Splits(rest) <=> k + m \in Splits(ws)
  BY <1>2, <1>3 DEF Splits
<1> QED
  BY <1>4, <1>5

\* The words of a piece, as words of the window that it is in.
LEMMA PieceInWindow ==
  ASSUME NEW ws \in Seq(Word), NEW m \in 0..Len(ws), NEW rest,
         PassedOver(ws, m, rest), NEW n, Piece(rest, n)
  PROVE  /\ m \in Nat /\ n \in Nat \ {0} /\ Len(ws) \in Nat
         /\ m + n <= Len(ws)
         /\ rest \in Seq(Word) /\ Len(rest) = Len(ws) - m
         /\ \A k \in 1..(Len(ws) - m) : rest[k] = ws[k + m]
         /\ \A k \in 2..(Len(ws) - m) :
              /\ k \in Breaks(rest) <=> k + m \in Breaks(ws)
              /\ k \in Splits(rest) <=> k + m \in Splits(ws)
         /\ rest[1] = ws[m + 1]
         /\ From(rest, n + 1) = From(ws, (m + n) + 1)
<1>0. rest = From(ws, m + 1) /\ Len(ws) \in Nat /\ m \in Nat
  BY DEF PassedOver
<1>1. /\ rest = From(ws, m + 1) /\ Len(ws) \in Nat /\ m \in Nat
      /\ rest \in Seq(Word) /\ Len(rest) = Len(ws) - m
      /\ \A k \in 1..(Len(ws) - m) : rest[k] = ws[k + m]
  BY <1>0, FromFacts
<1>2. n \in 1..Len(rest)
  BY DEF Piece
<1>3. n \in 0..(Len(ws) - m) /\ 1 \in 1..(Len(ws) - m) /\ 1 + m = m + 1
  BY <1>1, <1>2
<1>4. From(rest, n + 1) = From(ws, (m + n) + 1)
  BY <1>1, <1>3, FromFrom
<1>5. \A k \in 2..(Len(ws) - m) :
        /\ k \in Breaks(rest) <=> k + m \in Breaks(ws)
        /\ k \in Splits(rest) <=> k + m \in Splits(ws)
  BY <1>0, RestSplits
<1> QED
  BY <1>1, <1>2, <1>3, <1>4, <1>5

\* A piece that no symbol stands before is in no run that one does.
LEMMA PieceNotRejected ==
  ASSUME NEW ws \in Seq(Word), NEW m \in 0..Len(ws), NEW rest,
         PassedOver(ws, m, rest), NEW n, Piece(rest, n),
         rest[1].before # "symbol", NEW i \in (m + 1)..(m + n)
  PROVE  ~Rejected(ws, i)
<1>1. /\ m \in Nat /\ n \in Nat \ {0} /\ Len(ws) \in Nat /\ m + n <= Len(ws)
      /\ \A k \in 2..(Len(ws) - m) : k \in Splits(rest) <=> k + m \in Splits(ws)
      /\ rest[1] = ws[m + 1]
  BY PieceInWindow
<1>2. SUFFICES ASSUME NEW r \in 1..i, ws[r].before = "symbol",
                      \A k \in (r + 1)..i : k \notin Breaks(ws)
               PROVE  FALSE
  BY DEF Rejected
<1>3. CASE r = m + 1
  BY <1>1, <1>2, <1>3
<1>4. CASE r > m + 1
  <2>1. r - m \in 2..n /\ r - m \in 2..(Len(ws) - m) /\ (r - m) + m = r
        /\ r \in 2..Len(ws)
    BY <1>1, <1>4
  <2>2. r \notin Splits(ws)
    BY <1>1, <2>1 DEF Piece, Ends
  <2>3. ws[r].before = "space"
    BY <2>1, <2>2 DEF Splits
  <2> QED
    BY <1>2, <2>3
<1>5. CASE r < m + 1
  <2>1. r \in 1..m /\ m \in 1..(Len(ws) - 1)
    BY <1>1, <1>5
  <2>2. PICK k \in (r + 1)..(m + 1) : k \in Breaks(ws)
    BY <1>2, <2>1 DEF PassedOver
  <2>3. k \in (r + 1)..i
    BY <1>1
  <2> QED
    BY <1>2, <2>2, <2>3
<1> QED
  BY <1>1, <1>3, <1>4, <1>5

\* In a piece two words are paired only if it has no other.
LEMMA PairedIsPiece ==
  ASSUME NEW ws \in Seq(Word), NEW m \in 0..Len(ws), NEW rest,
         PassedOver(ws, m, rest), NEW n, Piece(rest, n),
         rest[1].before # "symbol"
  PROVE  /\ \A i \in (m + 1)..(m + n) :
              Paired(ws, i) => i = m + 1 /\ IsPair(rest, n)
         /\ IsPair(rest, n) => Paired(ws, m + 1)
<1>1. /\ m \in Nat /\ n \in Nat \ {0} /\ Len(ws) \in Nat /\ m + n <= Len(ws)
      /\ Len(rest) = Len(ws) - m
      /\ \A k \in 1..(Len(ws) - m) : rest[k] = ws[k + m]
      /\ \A k \in 2..(Len(ws) - m) : k \in Splits(rest) <=> k + m \in Splits(ws)
      /\ rest[1] = ws[m + 1]
  BY PieceInWindow
<1>2. /\ \A k \in 2..n : k \notin Splits(rest)
      /\ n < Len(rest) => n + 1 \in Splits(rest)
  BY DEF Piece, Ends
<1>3. ASSUME NEW i \in (m + 1)..(m + n), Paired(ws, i)
      PROVE  i = m + 1 /\ IsPair(rest, n)
  <2>1. /\ i < Len(ws) /\ PlausiblePair(ws[i], ws[i + 1])
        /\ i = 1 \/ i \in Splits(ws)
        /\ i + 1 \notin Splits(ws)
        /\ i + 2 > Len(ws) \/ i + 2 \in Splits(ws)
    BY <1>3 DEF Paired
  <2>2. i = m + 1
    <3>1. SUFFICES ASSUME i # m + 1 PROVE FALSE
      OBVIOUS
    <3>2. /\ i - m \in 2..n /\ i - m \in 2..(Len(ws) - m) /\ (i - m) + m = i
          /\ i # 1
      BY <1>1, <3>1
    <3> QED
      BY <1>1, <1>2, <2>1, <3>2
  <2>3. /\ 2 \in 1..(Len(ws) - m) /\ 2 \in 2..(Len(ws) - m) /\ i + 1 = 2 + m
        /\ rest[2] = ws[i + 1] /\ rest[1] = ws[i] /\ 1 < Len(rest)
    BY <1>1, <2>1, <2>2
  <2>4. n # 1
    <3>1. SUFFICES ASSUME n = 1 PROVE FALSE
      OBVIOUS
    <3>2. 2 \in Splits(rest)
      BY <1>2, <2>3, <3>1
    <3> QED
      BY <1>1, <2>1, <2>3, <3>2
  <2>5. ~(n > 2)
    <3>1. SUFFICES ASSUME n > 2 PROVE FALSE
      OBVIOUS
    <3>2. 3 \in 2..n /\ 3 \in 2..(Len(ws) - m) /\ 3 + m = i + 2
          /\ ~(i + 2 > Len(ws))
      BY <1>1, <2>2, <3>1
    <3> QED
      BY <1>1, <1>2, <2>1, <3>2
  <2>6. n = 2
    BY <1>1, <2>4, <2>5
  <2> QED
    BY <2>1, <2>2, <2>3, <2>6 DEF IsPair
<1>4. ASSUME IsPair(rest, n) PROVE Paired(ws, m + 1)
  <2> DEFINE i == m + 1
  <2>1. n = 2 /\ PlausiblePair(rest[1], rest[2])
    BY <1>4 DEF IsPair
  <2>2. /\ 2 \in 1..(Len(ws) - m) /\ 2 \in 2..(Len(ws) - m) /\ 2 + m = i + 1
        /\ i < Len(ws) /\ i \in Nat
        /\ rest[2] = ws[i + 1] /\ rest[1] = ws[i]
    BY <1>1, <2>1
  <2>3. i + 1 \notin Splits(ws)
    <3>1. 2 \notin Splits(rest)
      BY <1>2, <2>1
    <3> QED
      BY <1>1, <2>2, <3>1
  <2>4. i = 1 \/ i \in Splits(ws)
    <3>1. CASE m = 0
      BY <3>1
    <3>2. CASE m # 0
      <4>1. m \in 1..(Len(ws) - 1)
        BY <1>1, <2>2, <3>2
      <4> QED
        BY <4>1 DEF PassedOver
    <3> QED
      BY <3>1, <3>2
  <2>5. i + 2 > Len(ws) \/ i + 2 \in Splits(ws)
    <3>1. CASE i + 2 <= Len(ws)
      <4>1. 2 < Len(rest) /\ 3 \in 2..(Len(ws) - m) /\ 3 + m = i + 2
        BY <1>1, <2>2, <3>1
      <4>2. 3 \in Splits(rest)
        BY <1>2, <2>1, <4>1
      <4> QED
        BY <1>1, <4>1, <4>2
    <3> QED
      BY <1>1, <2>2, <3>1
  <2>6. PlausiblePair(ws[i], ws[i + 1])
    BY <2>1, <2>2
  <2> HIDE DEF i
  <2>7. Paired(ws, i)
    BY <2>2, <2>3, <2>4, <2>5, <2>6 DEF Paired
  <2> QED
    BY <2>7 DEF i
<1> QED
  BY <1>3, <1>4

\* What a property of the search says of the window that the code came from.
Token(ws, i) == IF Paired(ws, i) THEN <<ws[i], ws[i + 1]>> ELSE <<ws[i]>>

FirstToken(ws, code) ==
  \E i \in Begins(ws) : (\A j \in Begins(ws) : i <= j) /\ code = Token(ws, i)

\* The code that a piece yields is the window's first token.
LEMMA PieceYields ==
  ASSUME NEW ws \in Seq(Word), NEW m \in 0..Len(ws), NEW rest,
         PassedOver(ws, m, rest), NEW n, Piece(rest, n),
         NEW code, Yields(rest, n, code)
  PROVE  FirstToken(ws, code)
<1>1. /\ m \in Nat /\ n \in Nat \ {0} /\ Len(ws) \in Nat /\ m + n <= Len(ws)
      /\ Len(rest) = Len(ws) - m
      /\ \A k \in 1..(Len(ws) - m) : rest[k] = ws[k + m]
      /\ rest[1] = ws[m + 1]
  BY PieceInWindow
<1>2. rest[1].before # "symbol"
  BY DEF Yields
<1>3. \A i \in Begins(ws) : i \in 1..Len(ws) /\ i > m
  BY BeginsFacts DEF PassedOver
<1>4. CASE IsPair(rest, n) /\ code = <<rest[1], rest[2]>>
  <2>1. n = 2 /\ 2 \in 1..(Len(ws) - m) /\ 2 + m = (m + 1) + 1
        /\ m + 1 \in 1..Len(ws) /\ m + 1 \in (m + 1)..(m + n)
    BY <1>1, <1>4 DEF IsPair
  <2>2. Paired(ws, m + 1)
    BY <1>2, <1>4, PairedIsPiece
  <2>3. m + 1 \in Begins(ws)
    BY <1>2, <2>1, <2>2, BeginsFacts, PieceNotRejected
  <2>4. \A j \in Begins(ws) : m + 1 <= j
    BY <1>1, <1>3
  <2>5. code = <<ws[m + 1], ws[(m + 1) + 1]>>
    BY <1>1, <1>4, <2>1
  <2> DEFINE i == m + 1
  <2> HIDE DEF i
  <2>6. code = Token(ws, i)
    BY <2>2, <2>5 DEF Token, i
  <2> QED
    BY <2>3, <2>4, <2>6 DEF FirstToken, i
<1>5. ASSUME NEW k \in 1..n, PlausibleWord(rest[k]),
             \A j \in 1..(k - 1) : ~PlausibleWord(rest[j]),
             ~IsPair(rest, n), code = <<rest[k]>>
      PROVE  FirstToken(ws, code)
  <2> DEFINE i == k + m
  <2>1. /\ k \in 1..(Len(ws) - m) /\ rest[k] = ws[i]
        /\ i \in 1..Len(ws) /\ i \in (m + 1)..(m + n)
    BY <1>1
  <2>2. i \in Begins(ws)
    BY <1>2, <1>5, <2>1, BeginsFacts, PieceNotRejected
  <2>3. ASSUME NEW j \in Begins(ws), ~(i <= j) PROVE FALSE
    <3>1. /\ j - m \in 1..(k - 1) /\ j - m \in 1..(Len(ws) - m)
          /\ (j - m) + m = j /\ j \in (m + 1)..(m + n)
      <4>1. /\ m \in Nat /\ n \in Nat /\ k \in 1..n /\ j \in Nat
            /\ Len(ws) \in Nat /\ j > m /\ j < k + m /\ j <= Len(ws)
        BY <1>1, <1>3, <2>3
      <4> QED
        BY <4>1
    <3>2. ~PlausibleWord(ws[j])
      BY <1>1, <1>5, <3>1
    <3>3. ~Paired(ws, j)
      BY <1>2, <1>5, <3>1, PairedIsPiece
    <3> QED
      BY <3>2, <3>3, BeginsFacts
  <2>4. code = <<ws[i]>>
    BY <1>5, <2>1
  <2>5. ~Paired(ws, i)
    BY <1>2, <1>5, <2>1, PairedIsPiece
  <2> HIDE DEF i
  <2>6. code = Token(ws, i)
    BY <2>4, <2>5 DEF Token
  <2> QED
    BY <2>2, <2>3, <2>6 DEF FirstToken
<1> QED
  BY <1>4, <1>5 DEF Yields

\* A piece that yields nothing is passed over as a whole.
LEMMA PiecePassed ==
  ASSUME NEW ws \in Seq(Word), NEW m \in 0..Len(ws), NEW rest,
         PassedOver(ws, m, rest), NEW n, Piece(rest, n), YieldsNothing(rest, n)
  PROVE  /\ m + n \in 0..Len(ws)
         /\ PassedOver(ws, m + n, From(rest, n + 1))
<1>1. /\ m \in Nat /\ n \in Nat \ {0} /\ Len(ws) \in Nat /\ m + n <= Len(ws)
      /\ Len(rest) = Len(ws) - m
      /\ \A k \in 1..(Len(ws) - m) : rest[k] = ws[k + m]
      /\ \A k \in 2..(Len(ws) - m) :
           /\ k \in Breaks(rest) <=> k + m \in Breaks(ws)
           /\ k \in Splits(rest) <=> k + m \in Splits(ws)
      /\ rest[1] = ws[m + 1]
      /\ From(rest, n + 1) = From(ws, (m + n) + 1)
  BY PieceInWindow
<1>2. ASSUME NEW i \in Begins(ws), ~(i > m + n) PROVE FALSE
  <2>1. /\ i \in 1..Len(ws) /\ i > m
        /\ PlausibleWord(ws[i]) \/ Paired(ws, i)
        /\ ~Rejected(ws, i)
    BY BeginsFacts DEF PassedOver
  <2>2. /\ i \in (m + 1)..(m + n) /\ i - m \in 1..n
        /\ i - m \in 1..(Len(ws) - m) /\ (i - m) + m = i
    <3>1. /\ m \in Nat /\ n \in Nat /\ i \in Nat /\ Len(ws) \in Nat
          /\ i > m /\ i <= m + n /\ i <= Len(ws)
      BY <1>1, <1>2, <2>1
    <3> QED
      BY <3>1
  <2>3. CASE rest[1].before = "symbol"
    <3>1. ASSUME NEW k \in ((m + 1) + 1)..i PROVE k \notin Breaks(ws)
      <4>1. k - m \in 2..n /\ k - m \in 2..(Len(ws) - m) /\ (k - m) + m = k
        BY <1>1, <2>2
      <4>2. k - m \notin Breaks(rest)
        BY <2>3, <4>1 DEF Piece, Ends
      <4> QED
        BY <1>1, <4>1, <4>2
    <3>2. m + 1 \in 1..i
      BY <1>1, <2>2
    <3> QED
      BY <1>1, <2>1, <2>3, <3>1, <3>2 DEF Rejected
  <2>4. CASE rest[1].before # "symbol"
    <3>1. ~IsPair(rest, n) /\ ~PlausibleWord(rest[i - m])
      BY <2>2, <2>4 DEF YieldsNothing
    <3>2. ~Paired(ws, i)
      BY <2>2, <2>4, <3>1, PairedIsPiece
    <3> QED
      BY <1>1, <2>1, <2>2, <3>1, <3>2
  <2> QED
    BY <2>3, <2>4
<1> DEFINE l == m + n
<1>3. ASSUME l \in 1..(Len(ws) - 1)
      PROVE  /\ \A r \in 1..l : ws[r].before = "symbol" =>
                  \E k \in (r + 1)..(l + 1) : k \in Breaks(ws)
             /\ l + 1 \in Splits(ws)
  <2>1. /\ n < Len(rest) /\ n + 1 \in 2..(Len(ws) - m) /\ (n + 1) + m = l + 1
    BY <1>1, <1>3
  <2>2. n + 1 \in Ends(rest)
    BY <2>1 DEF Piece
  <2>3. CASE rest[1].before = "symbol"
    <3>1. l + 1 \in Breaks(ws)
      BY <1>1, <2>1, <2>2, <2>3 DEF Ends
    <3>2. \A r \in 1..l : l + 1 \in (r + 1)..(l + 1)
      BY <1>1
    <3> QED
      BY <3>1, <3>2, BreaksSplit
  <2>4. CASE rest[1].before # "symbol"
    <3>1. ASSUME NEW r \in 1..l, ws[r].before = "symbol",
                 \A k \in (r + 1)..(l + 1) : k \notin Breaks(ws)
          PROVE  FALSE
      <4>1. l \in (m + 1)..(m + n)
        BY <1>1
      <4>2. \A k \in (r + 1)..l : k \in (r + 1)..(l + 1)
        BY <1>1
      <4>3. Rejected(ws, l)
        BY <3>1, <4>2 DEF Rejected
      <4> QED
        BY <2>4, <4>1, <4>3, PieceNotRejected
    <3>2. l + 1 \in Splits(ws)
      BY <1>1, <2>1, <2>2, <2>4 DEF Ends
    <3> QED
      BY <3>1, <3>2
  <2> QED
    BY <2>3, <2>4
<1>4. l \in 0..Len(ws)
  BY <1>1
<1>5. From(rest, n + 1) = From(ws, l + 1)
  BY <1>1
<1>6. \A i \in Begins(ws) : i > l
  BY <1>2
<1> HIDE DEF l
<1>7. PassedOver(ws, l, From(rest, n + 1))
  BY <1>3, <1>5, <1>6 DEF PassedOver
<1> QED
  BY <1>4, <1>7 DEF l

\* A code is right for a text: what CodeIsTheFirstPlausible says at the end.
RightCode(txt, code) ==
  LET offering == {k \in 1..Len(txt) :
                     txt[k].keyword /\ Begins(WindowIn(txt, k)) # {}}
  IN IF offering # {}
     THEN \E k \in offering : \E i \in Begins(WindowIn(txt, k)) :
            LET ws == WindowIn(txt, k)
            IN /\ \A j \in offering : k <= j
               /\ \A j \in Begins(ws) : i <= j
               /\ code = Token(ws, i)
     ELSE IF code # <<>>
     THEN /\ code \in SixDigits(txt)
          /\ \A c \in SixDigits(txt) : Digits(c) = Digits(code)
     ELSE \A c \in SixDigits(txt) :
            \E d \in SixDigits(txt) : Digits(c) # Digits(d)

\* A keyword's code.
LEMMA RightFromKeyword ==
  ASSUME NEW txt \in Seq(Word), NEW k \in 1..Len(txt),
         txt[k].keyword, \A j \in 1..(k - 1) : ~Offers(txt, j),
         NEW code, FirstToken(WindowIn(txt, k), code)
  PROVE  RightCode(txt, code)
<1> DEFINE offering == {j \in 1..Len(txt) :
                          txt[j].keyword /\ Begins(WindowIn(txt, j)) # {}}
<1>1. ASSUME NEW j \in offering PROVE k <= j
  <2>1. Offers(txt, j) /\ j \in 1..Len(txt)
    BY DEF Offers
  <2> QED
    BY <2>1
<1>2. PICK i \in Begins(WindowIn(txt, k)) :
        /\ \A j \in Begins(WindowIn(txt, k)) : i <= j
        /\ code = Token(WindowIn(txt, k), i)
  BY DEF FirstToken
<1>3. k \in offering
  BY <1>2
<1> QED
  BY <1>1, <1>2, <1>3 DEF RightCode

\* The fallback's code, or that there is none.
LEMMA RightFromFallback ==
  ASSUME NEW txt \in Seq(Word), \A j \in 1..Len(txt) : ~Offers(txt, j),
         NEW code,
         \/ /\ code \in SixDigits(txt)
            /\ \A c \in SixDigits(txt) : Digits(c) = Digits(code)
         \/ /\ code = <<>>
            /\ \A c \in SixDigits(txt) : \E d \in SixDigits(txt) :
                 Digits(c) # Digits(d)
  PROVE  RightCode(txt, code)
<1>1. {j \in 1..Len(txt) : txt[j].keyword /\ Begins(WindowIn(txt, j)) # {}} = {}
  BY DEF Offers
<1>2. code \in SixDigits(txt) => code # <<>>
  BY SixDigitsFacts
<1> QED
  BY <1>1, <1>2 DEF RightCode

\* A window before anything of it is scanned.
LEMMA ScanBegins ==
  ASSUME NEW ws \in Seq(Word)
  PROVE  0 \in 0..Len(ws) /\ PassedOver(ws, 0, ws)
<1>1. Len(ws) \in Nat
  OBVIOUS
<1>2. From(ws, 0 + 1) = ws
  BY SubSeqFull DEF From
<1>3. \A i \in Begins(ws) : i > 0
  BY <1>1, BeginsFacts
<1> QED
  BY <1>1, <1>2, <1>3 DEF PassedOver

LEMMA WindowType ==
  ASSUME NEW txt \in Seq(Word), NEW k \in 1..Len(txt)
  PROVE  WindowIn(txt, k) \in Seq(Word)
<1>1. k \in 0..Len(txt)
  OBVIOUS
<1>2. From(txt, k + 1) \in Seq(Word)
  BY <1>1, FromFacts
<1> QED
  BY <1>2, CutFacts, ParseBoundsAssumption DEF WindowIn

\* Where the search goes on with the same text.
LEMMA SearchGoesOn ==
  ASSUME text' = text,
         \/ reading'.pc = "composed"
         \/ /\ reading'.pc = "seek"
            /\ \A k \in 1..reading'.keyword : ~Offers(text, k)
         \/ /\ reading'.pc = "scan"
            /\ Scanning(text, reading'.keyword, reading'.window)
         \/ /\ reading'.pc = "fallback"
            /\ \A k \in 1..Len(text) : ~Offers(text, k)
         \/ reading'.pc = "done" /\ RightCode(text, reading'.code)
  PROVE  Search'
<1>1. CodeIsTheFirstPlausible' <=>
        (reading'.pc = "done" => RightCode(text', reading'.code))
  BY DEF CodeIsTheFirstPlausible, RightCode, Window, WindowIn, Token
<1> QED
  BY <1>1 DEF Search

LEMMA SearchStep ==
  ASSUME MinedInv, Search, TextNext
  PROVE  Search'
<1>1. TextTypeOK /\ text \in Seq(Word) /\ Len(text) \in Nat
      /\ reading.keyword \in 0..Len(text)
  BY DEF MinedInv, TextTypeOK
<1>2. CASE AddPart \/ AddWord
  <2>1. reading'.pc = "composed" /\ text' = text
    BY <1>2 DEF AddPart, AddWord
  <2> QED
    BY <2>1, SearchGoesOn
<1>3. CASE Parse
  <2>1. reading = NoReading /\ reading' = [reading EXCEPT !.pc = "seek"]
    BY <1>3 DEF Parse, MinedInv, Mined
  <2>2. reading'.pc = "seek" /\ \A k \in 1..reading'.keyword : FALSE
    BY <2>1 DEF NoReading
  <2>3. CodeIsTheFirstPlausible'
    BY <2>2 DEF CodeIsTheFirstPlausible
  <2> QED
    BY <2>2, <2>3 DEF Search
<1>4. CASE NextKeyword
  <2>1. text' = text /\ \A k \in 1..reading.keyword : ~Offers(text, k)
    BY <1>4 DEF NextKeyword, Search
  <2>2. CASE /\ reading' = [reading EXCEPT !.pc = "fallback"]
             /\ \A k \in (reading.keyword + 1)..Len(text) :
                  ~text[k].keyword
    <3>1. ASSUME NEW k \in 1..Len(text) PROVE ~Offers(text, k)
      <4>1. k \in 1..reading.keyword \/ k \in (reading.keyword + 1)..Len(text)
        BY <1>1
      <4> QED
        BY <2>1, <2>2, <4>1 DEF Offers
    <3>2. reading'.pc = "fallback"
      BY <1>1, <2>2 DEF TextTypeOK
    <3> QED
      BY <2>1, <3>1, <3>2, SearchGoesOn
  <2>3. ASSUME NEW k \in (reading.keyword + 1)..Len(text),
               text[k].keyword,
               \A j \in (reading.keyword + 1)..(k - 1) : ~text[j].keyword,
               reading' = [reading EXCEPT
                 !.pc = "scan", !.keyword = k,
                 !.window = Cut(From(text, k + 1), WindowRunes)]
        PROVE  Search'
    <3>1. k \in 1..Len(text) /\ k # 0
      BY <1>1
    <3>2. ASSUME NEW j \in 1..(k - 1) PROVE ~Offers(text, j)
      <4>1. j \in 1..reading.keyword \/ j \in (reading.keyword + 1)..(k - 1)
        BY <1>1, <3>1
      <4> QED
        BY <2>1, <2>3, <4>1 DEF Offers
    <3>3. /\ reading'.pc = "scan" /\ reading'.keyword = k
          /\ reading'.window = WindowIn(text, k)
      BY <1>1, <2>3 DEF TextTypeOK, WindowIn
    <3>4. WindowIn(text, k) \in Seq(Word)
      BY <1>1, <3>1, WindowType
    <3>5. Scanning(text, k, WindowIn(text, k))
      BY <2>3, <3>1, <3>2, <3>4, ScanBegins DEF Scanning
    <3> QED
      BY <2>1, <3>3, <3>5, SearchGoesOn
  <2> QED
    BY <1>1, <1>4, <2>2, <2>3, NextKeywordFacts
<1>5. ASSUME reading.pc = "scan"
      PROVE  LET k == reading.keyword IN
             /\ k \in 1..Len(text) /\ text[k].keyword
             /\ \A j \in 1..(k - 1) : ~Offers(text, j)
             /\ WindowIn(text, k) \in Seq(Word)
             /\ \E m \in 0..Len(WindowIn(text, k)) :
                  PassedOver(WindowIn(text, k), m, reading.window)
  <2>1. Scanning(text, reading.keyword, reading.window)
    BY <1>5 DEF Search
  <2>2. reading.keyword \in 1..Len(text)
    BY <1>1, <2>1 DEF Scanning
  <2> QED
    BY <1>1, <2>1, <2>2, WindowType DEF Scanning
<1>6. CASE ScanPiece
  <2> DEFINE k == reading.keyword
             ws == WindowIn(text, k)
  <2>1. reading.pc = "scan" /\ text' = text
    BY <1>6 DEF ScanPiece
  <2>2. /\ k \in 1..Len(text) /\ text[k].keyword /\ ws \in Seq(Word)
        /\ \A j \in 1..(k - 1) : ~Offers(text, j)
    BY <1>5, <2>1
  <2>3. PICK m \in 0..Len(ws) : PassedOver(ws, m, reading.window)
    BY <1>5, <2>1
  <2>4. PICK n \in 1..Len(reading.window) :
          /\ Piece(reading.window, n)
          /\ \/ YieldsNothing(reading.window, n)
                /\ reading' = [reading EXCEPT !.window = From(reading.window, n + 1)]
             \/ \E code : Yields(reading.window, n, code) /\ Found(code)
    BY <1>1, <1>6, ScanPieceFacts
  <2>5. CASE /\ YieldsNothing(reading.window, n)
             /\ reading' = [reading EXCEPT !.window = From(reading.window, n + 1)]
    <3>1. /\ reading'.pc = "scan" /\ reading'.keyword = k
          /\ reading'.window = From(reading.window, n + 1)
      BY <1>1, <2>1, <2>5 DEF TextTypeOK
    <3> HIDE DEF ws
    <3>2. /\ m + n \in 0..Len(ws)
          /\ PassedOver(ws, m + n, From(reading.window, n + 1))
      BY <2>2, <2>3, <2>4, <2>5, PiecePassed
    <3>3. Scanning(text, k, reading'.window)
      BY <1>1, <2>2, <3>1, <3>2 DEF Scanning, ws
    <3> QED
      BY <2>1, <3>1, <3>3, SearchGoesOn
  <2>6. ASSUME NEW code, Yields(reading.window, n, code), Found(code)
        PROVE  Search'
    <3>1. reading'.pc = "done" /\ reading'.code = code
      BY <1>1, <2>6 DEF TextTypeOK, Found
    <3> HIDE DEF ws
    <3>2. FirstToken(ws, code)
      BY <2>2, <2>3, <2>4, <2>6, PieceYields
    <3>3. RightCode(text, code)
      BY <1>1, <2>2, <3>2, RightFromKeyword DEF ws
    <3> QED
      BY <2>1, <3>1, <3>3, SearchGoesOn
  <2> QED
    BY <2>4, <2>5, <2>6
<1>7. CASE WindowSpent
  <2> DEFINE k == reading.keyword
             ws == WindowIn(text, k)
  <2>1. /\ reading.pc = "scan" /\ reading.window = <<>> /\ text' = text
        /\ reading' = [reading EXCEPT !.pc = "seek"]
    BY <1>7 DEF WindowSpent
  <2>2. /\ k \in 1..Len(text) /\ ws \in Seq(Word)
        /\ \A j \in 1..(k - 1) : ~Offers(text, j)
    BY <1>5, <2>1
  <2>3. PICK m \in 0..Len(ws) : PassedOver(ws, m, reading.window)
    BY <1>5, <2>1
  <2> HIDE DEF ws
  <2>4. m = Len(ws)
    <3>1. From(ws, m + 1) = <<>> /\ Len(ws) \in Nat /\ m \in Nat
      BY <2>1, <2>2, <2>3 DEF PassedOver
    <3>2. Len(From(ws, m + 1)) = Len(ws) - m
      BY <2>2, FromFacts
    <3>3. Len(From(ws, m + 1)) = 0
      BY <3>1, EmptySeq
    <3> QED
      BY <3>1, <3>2, <3>3
  <2>5. ~Offers(text, k)
    <3>1. \A i \in Begins(ws) : i \in 1..Len(ws) /\ i > m
      BY <2>3, BeginsFacts DEF PassedOver
    <3>2. Begins(ws) = {}
      BY <2>2, <2>4, <3>1
    <3> QED
      BY <3>2 DEF Offers, ws
  <2>6. reading'.pc = "seek" /\ reading'.keyword = k
    BY <1>1, <2>1 DEF TextTypeOK
  <2>7. \A j \in 1..k : ~Offers(text, j)
    <3>1. \A j \in 1..k : j = k \/ j \in 1..(k - 1)
      BY <1>1
    <3> QED
      BY <2>2, <2>5, <3>1
  <2> HIDE DEF k
  <2> QED
    BY <2>1, <2>6, <2>7, SearchGoesOn
<1>8. CASE Fallback
  <2>1. text' = text /\ \A j \in 1..Len(text) : ~Offers(text, j)
    BY <1>8 DEF Fallback, Search
  <2>2. PICK code :
          /\ Found(code)
          /\ \/ /\ code \in SixDigits(text)
                /\ \A c \in SixDigits(text) : Digits(c) = Digits(code)
             \/ /\ code = <<>>
                /\ \A c \in SixDigits(text) : \E d \in SixDigits(text) :
                     Digits(c) # Digits(d)
    BY <1>1, <1>8, FallbackFacts
  <2>3. reading'.pc = "done" /\ reading'.code = code
    BY <1>1, <2>2 DEF TextTypeOK, Found
  <2>4. RightCode(text, code)
    BY <1>1, <2>1, <2>2, RightFromFallback
  <2> QED
    BY <2>1, <2>3, <2>4, SearchGoesOn
<1>9. CASE OtherText
  BY <1>9 DEF OtherText, Search, NoReading, CodeIsTheFirstPlausible
<1> QED
  BY <1>2, <1>3, <1>4, <1>6, <1>7, <1>8, <1>9 DEF TextNext

\* For texts of any length and any window, a code is the first plausible token
\* in the window of the first keyword that has one, or else the only six-digit
\* number.
THEOREM FirstPlausibleFound == ParseSpec => []CodeIsTheFirstPlausible
<1>1. ParseInit => Search
  BY DEF ParseInit, TextInit, NoReading, Search, CodeIsTheFirstPlausible
<1>2. MinedInv /\ Search /\ [ParseNext]_parseVars => Search'
  <2> SUFFICES ASSUME MinedInv, Search, [ParseNext]_parseVars PROVE Search'
    OBVIOUS
  <2>1. CASE TextNext
    BY <2>1, SearchStep
  <2>2. CASE UNCHANGED textVars
    BY <2>2 DEF textVars, Search, CodeIsTheFirstPlausible, Window
  <2> QED
    BY <2>1, <2>2 DEF ParseNext, parseVars
<1>3. Search => CodeIsTheFirstPlausible
  BY DEF Search
<1> QED
  BY <1>1, <1>2, <1>3, MinedAlways, PTL DEF ParseSpec

=============================================================================
