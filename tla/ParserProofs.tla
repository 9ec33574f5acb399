----------------------------- MODULE ParserProofs -----------------------------
(***************************************************************************)
(* Theorems about Parser, for texts of any length over any characters.     *)
(***************************************************************************)
EXTENDS Parser, SequenceTheorems, FiniteSetTheorems, WellFoundedInduction, TLAPS

-------------------------------------------------------------------------------
(* Sets of positions, and recursion over them *)

\* A set of natural numbers has a least one.
LEMMA Smallest ==
  ASSUME NEW S \in SUBSET Nat, S # {}
  PROVE  \E m \in S : \A n \in S : m <= n
<1> DEFINE R == OpToRel(<, Nat)
<1>1. PICK m \in S : \A n \in S : <<n, m>> \notin R
  <2> HIDE DEF R
  <2>1. IsWellFoundedOn(R, Nat)
    BY NatLessThanWellFounded DEF R
  <2> QED BY <2>1, WFMin, Zenon
<1>2. \A n \in S : ~ (n < m)
  BY <1>1 DEF OpToRel
<1> QED BY <1>2

\* A set of positions has a last one.
LEMMA Latest ==
  ASSUME NEW k \in Nat, NEW S \in SUBSET (1 .. k), S # {}
  PROVE  \E i \in S : \A j \in S : j <= i
<1> DEFINE rest == {n \in Nat : n <= k /\ k - n \in S}
<1>1. PICK i \in S : TRUE
  OBVIOUS
<1>2. k - i \in rest
  BY <1>1
<1>3. PICK m \in rest : \A n \in rest : m <= n
  BY <1>2, Smallest
<1>4. ASSUME NEW j \in S PROVE j <= k - m
  <2>1. k - j \in rest
    OBVIOUS
  <2> QED BY <1>3, <2>1
<1> QED BY <1>3, <1>4

\* What holds of a position if it holds of the later ones holds of all.
LEMMA Downward ==
  ASSUME NEW k \in Nat, NEW S,
         \A i \in 1 .. k : (\A j \in 1 .. k : j > i => j \in S) => i \in S
  PROVE  \A i \in 1 .. k : i \in S
<1> DEFINE rest == (1 .. k) \ S
<1> SUFFICES ASSUME rest # {} PROVE FALSE
  OBVIOUS
<1>1. PICK i \in rest : \A j \in rest : j <= i
  BY Latest
<1>2. \A j \in 1 .. k : j > i => j \in S
  BY <1>1
<1> QED BY <1>1, <1>2

\* A sequence of properties each of which leads to the next.
LEMMA Upward ==
  ASSUME NEW S, 0 \in S, \A n \in Nat : n \in S => n + 1 \in S
  PROVE  \A n \in Nat : n \in S
<1> DEFINE rest == Nat \ S
<1> SUFFICES ASSUME rest # {} PROVE FALSE
  OBVIOUS
<1>1. PICK m \in rest : \A n \in rest : m <= n
  BY Smallest
<1>2. m # 0 /\ m - 1 \in Nat
  BY <1>1
<1>3. m - 1 \in S
  BY <1>1, <1>2
<1> QED BY <1>1, <1>2, <1>3

-------------------------------------------------------------------------------
(* Reading one position *)

\* NextIs finds the first c from i on, and is 0 only if there is none.
LEMMA NextIsThere ==
  ASSUME NEW s, NEW i \in Nat \ {0}, NEW c, Len(s) \in Nat
  PROVE  /\ NextIs(s, i, c) \in {0} \cup (i .. Len(s))
         /\ NextIs(s, i, c) # 0 => s[NextIs(s, i, c)] = c
         /\ \A p \in i .. Len(s) :
              s[p] = c /\ (\A q \in i .. p - 1 : s[q] # c) => NextIs(s, i, c) = p
<1> DEFINE I == {p \in i .. Len(s) : s[p] = c}
<1>1. NextIs(s, i, c) = IF I # {} THEN Min(I) ELSE 0
  BY DEF NextIs, SelectInSubSeq
<1>2. I \in SUBSET Nat
  OBVIOUS
<1>3. ASSUME I # {} PROVE Min(I) \in I /\ \A q \in I : Min(I) <= q
  <2> HIDE DEF I
  <2>1. \E m \in I : \A q \in I : m <= q
    BY <1>2, <1>3, Smallest
  <2> QED BY <2>1 DEF Min
<1>4. ASSUME NEW p \in i .. Len(s), s[p] = c, \A q \in i .. p - 1 : s[q] # c
      PROVE  NextIs(s, i, c) = p
  <2>1. p \in I
    BY <1>4
  <2>2. Min(I) <= p /\ Min(I) \in i .. Len(s) /\ s[Min(I)] = c
    BY <1>3, <2>1
  <2>3. ~ (Min(I) < p)
    <3> PICK m : m = Min(I)
      OBVIOUS
    <3> QED BY <1>4, <2>2
  <2> QED BY <1>1, <2>1, <2>2, <2>3
<1> QED BY <1>1, <1>3, <1>4

\* No operator begins with any other character than these.
OpChars == {"1", "2", ">", "<", "|", "&", ";"}

LEMMA OperatorsAre ==
  \A k \in 1 .. 11 : Len(Operators[k]) \in 1 .. 4 /\ Operators[k][1] \in OpChars
<1> DEFINE Ok(k) == Len(Operators[k]) \in 1 .. 4 /\ Operators[k][1] \in OpChars
<1>1. Ok(1) /\ Ok(2) /\ Ok(3) /\ Ok(4)
  BY DEF Operators, OpChars
<1>2. Ok(5) /\ Ok(6) /\ Ok(7) /\ Ok(8)
  BY DEF Operators, OpChars
<1>3. Ok(9) /\ Ok(10) /\ Ok(11)
  BY DEF Operators, OpChars
<1> HIDE DEF Ok
<1>4. \A k \in 1 .. 11 : Ok(k)
  BY <1>1, <1>2, <1>3
<1> QED BY <1>4 DEF Ok

\* An operator ends where the text does or before.
LEMMA OperatorThere ==
  ASSUME NEW s, NEW i \in Nat \ {0}, Len(s) \in Nat, i <= Len(s)
  PROVE  /\ OperatorAt(s, i) # 0 =>
              /\ OperatorAt(s, i) \in 1 .. 11
              /\ StartsAt(s, i, Operators[OperatorAt(s, i)])
         /\ s[i] \notin OpChars => OperatorAt(s, i) = 0
<1> DEFINE I == {k \in 1 .. Len(Operators) : StartsAt(s, i, Operators[k])}
<1>1. OperatorAt(s, i) = IF I # {} THEN Min(I) ELSE 0
  BY DEF OperatorAt, SelectInSeq
<1>2. Len(Operators) = 11
  BY DEF Operators
<1>3. ASSUME I # {} PROVE Min(I) \in I
  <2> HIDE DEF I
  <2>0. I \in SUBSET Nat
    BY DEF I
  <2>1. \E m \in I : \A q \in I : m <= q
    BY <2>0, <1>3, Smallest
  <2> QED BY <2>1 DEF Min
<1>4. ASSUME s[i] \notin OpChars PROVE I = {}
  <2>1. ASSUME NEW k \in 1 .. 11, StartsAt(s, i, Operators[k]) PROVE FALSE
    <3>1. Len(Operators[k]) \in 1 .. 4 /\ Operators[k][1] \in OpChars
      BY OperatorsAre
    <3>2. s[i + 1 - 1] = Operators[k][1]
      BY <2>1, <3>1 DEF StartsAt
    <3> QED BY <1>4, <3>1, <3>2
  <2> QED BY <1>2, <2>1
<1> QED BY <1>1, <1>2, <1>3, <1>4

\* A name ends in the text, and so does a variable.
LEMMA NameThere ==
  ASSUME NEW s, NEW i \in Nat \ {0}, Len(s) \in Nat
  PROVE  NameEnd(s, i) = i - 1 \/ NameEnd(s, i) \in i .. Len(s)
<1> DEFINE names == {j \in i .. Len(s) :
                       s[i] \in Letters /\ \A k \in i .. j : s[k] \in Letters \cup Digits}
<1>1. NameEnd(s, i) = IF names = {} THEN i - 1
                      ELSE CHOOSE j \in names : \A k \in names : k <= j
  BY DEF NameEnd
<1>2. names \in SUBSET (1 .. Len(s)) /\ \A j \in names : j \in i .. Len(s)
  OBVIOUS
<1>3. ASSUME names # {}
      PROVE  (CHOOSE j \in names : \A k \in names : k <= j) \in names
  <2> HIDE DEF names
  <2>1. \E j \in names : \A k \in names : k <= j
    BY <1>2, <1>3, Latest
  <2> QED BY <2>1
<1> HIDE DEF names
<1> QED BY <1>1, <1>2, <1>3

LEMMA VarThere ==
  ASSUME NEW s, NEW i \in Nat \ {0}, Len(s) \in Nat, i <= Len(s)
  PROVE  /\ VarEnd(s, i) # 0 => VarEnd(s, i) \in i + 1 .. Len(s) + 1
         /\ s[i] # "$" => VarEnd(s, i) = 0
<1> DEFINE braced == s[i + 1] = "{"
           from   == IF braced THEN i + 2 ELSE i + 1
           end    == NameEnd(s, from)
           there  == CASE end < from -> 0
                       [] end >= from /\ ~braced -> end + 1
                       [] end >= from /\ braced  ->
                            IF end < Len(s) /\ s[end + 1] = "}" THEN end + 2 ELSE 0
<1>1. VarEnd(s, i) = IF s[i] # "$" \/ i = Len(s) THEN 0 ELSE there
  BY DEF VarEnd
<1> HIDE DEF there, end, braced
<1>2. from \in Nat \ {0} /\ from >= i + 1
  OBVIOUS
<1>3. end = from - 1 \/ end \in from .. Len(s)
  <2> HIDE DEF from
  <2> QED BY <1>2, NameThere DEF end
<1>4. there = 0 \/ there \in i + 1 .. Len(s) + 1
  <2> HIDE DEF from
  <2>1. CASE end < from
    <3>1. ~ (end >= from)
      BY <1>2, <1>3, <2>1
    <3> QED BY <2>1, <3>1, Zenon DEF there
  <2>2. CASE end >= from /\ ~braced
    <3>1. end \in from .. Len(s)
      BY <1>2, <1>3, <2>2
    <3>2. there = end + 1
      BY <1>2, <2>2, <3>1 DEF there
    <3> QED BY <1>2, <3>1, <3>2
  <2>3. CASE end >= from /\ braced
    <3>1. end \in from .. Len(s)
      BY <1>2, <1>3, <2>3
    <3>2. there = IF end < Len(s) /\ s[end + 1] = "}" THEN end + 2 ELSE 0
      BY <1>2, <2>3, <3>1 DEF there
    <3>3. end < Len(s) => end + 2 \in i + 1 .. Len(s) + 1
      <4>1. PICK n \in Nat, e \in Nat : n = Len(s) /\ e = end
        BY <1>2, <3>1
      <4> QED BY <1>2, <3>1, <4>1
    <3> QED BY <3>2, <3>3
  <2> QED BY <1>2, <1>3, <2>1, <2>2, <2>3
<1> HIDE DEF there
<1> QED BY <1>1, <1>4

-------------------------------------------------------------------------------
(* Where double quotes close *)

\* The recursion of DoubleClose has a solution: it is built from the end of the text.
LEMMA DoubleCloseSolved ==
  ASSUME NEW n \in Nat, NEW s, Len(s) = n
  PROVE  \E f : \A j \in 1 .. n + 1 :
           f[j] = DoubleCloseFrom(s, f, j) /\ DoubleClose(s, j) = f[j]
<1> DEFINE D == 1 .. n + 1
           Solved(f, k) == \A j \in D : j > n + 1 - k => f[j] = DoubleCloseFrom(s, f, j)
           S == {k \in Nat : k <= n + 1 => \E f : f = [j \in D |-> f[j]] /\ Solved(f, k)}
           closes == CHOOSE f : f = [j \in D |-> DoubleCloseFrom(s, f, j)]
<1>1. ASSUME NEW f, NEW g, NEW j \in D, \A k \in D : k > j => f[k] = g[k]
      PROVE  DoubleCloseFrom(s, f, j) = DoubleCloseFrom(s, g, j)
  BY <1>1 DEF DoubleCloseFrom
<1>2. 0 \in S
  <2>1. Solved([j \in D |-> 0], 0)
    OBVIOUS
  <2> QED BY <2>1
<1>3. ASSUME NEW k \in Nat, k \in S PROVE k + 1 \in S
  <2> SUFFICES ASSUME k + 1 <= n + 1
               PROVE  \E f : f = [j \in D |-> f[j]] /\ Solved(f, k + 1)
    OBVIOUS
  <2> PICK f : f = [j \in D |-> f[j]] /\ Solved(f, k)
    BY <1>3
  <2> DEFINE h == [j \in D |-> IF j = n + 1 - k THEN DoubleCloseFrom(s, f, j) ELSE f[j]]
  <2>1. ASSUME NEW j \in D, j > n + 1 - (k + 1)
        PROVE  h[j] = DoubleCloseFrom(s, h, j)
    <3>1. \A i \in D : i > j => h[i] = f[i]
      BY <2>1
    <3>2. DoubleCloseFrom(s, h, j) = DoubleCloseFrom(s, f, j)
      <4> HIDE DEF h
      <4> QED BY <1>1, <3>1
    <3>3. h[j] = DoubleCloseFrom(s, f, j)
      BY <2>1
    <3> QED BY <3>2, <3>3
  <2>2. h = [j \in D |-> h[j]]
    OBVIOUS
  <2> HIDE DEF h
  <2> QED BY <2>1, <2>2
<1>4. n + 1 \in S
  <2> HIDE DEF S
  <2> QED BY <1>2, <1>3, Upward
<1>5. \E f : f = [j \in D |-> DoubleCloseFrom(s, f, j)]
  <2>1. PICK f : f = [j \in D |-> f[j]] /\ Solved(f, n + 1)
    BY <1>4
  <2>2. \A j \in D : f[j] = DoubleCloseFrom(s, f, j)
    BY <2>1
  <2> QED BY <2>1, <2>2
<1>6. closes = [j \in D |-> DoubleCloseFrom(s, closes, j)]
  BY <1>5
<1>7. \A i : DoubleClose(s, i) = closes[i]
  BY Zenon DEF DoubleClose
<1> HIDE DEF closes
<1> QED BY <1>6, <1>7

\* The quotes close at or after i, at the first quote that no backslash stands before.
LEMMA DoubleCloseThere ==
  ASSUME NEW n \in Nat, NEW s, Len(s) = n, NEW i \in 1 .. n + 1
  PROVE  /\ DoubleClose(s, i) \in {0} \cup (i .. n)
         /\ i <= n /\ s[i] = DoubleQuote => DoubleClose(s, i) = i
         /\ i <= n /\ s[i] \notin {DoubleQuote, "\\"} =>
              DoubleClose(s, i) = DoubleClose(s, i + 1)
<1>1. PICK f : \A j \in 1 .. n + 1 :
                 f[j] = DoubleCloseFrom(s, f, j) /\ DoubleClose(s, j) = f[j]
  BY DoubleCloseSolved
<1> DEFINE S == {j \in 1 .. n + 1 : f[j] \in {0} \cup (j .. n)}
<1>2. ASSUME NEW j \in 1 .. n + 1, \A k \in 1 .. n + 1 : k > j => k \in S PROVE j \in S
  <2>1. j <= n => j + 1 \in S
    BY <1>2
  <2>2. j < n => j + 2 \in S
    BY <1>2
  <2> QED BY <1>1, <2>1, <2>2 DEF DoubleCloseFrom
<1>3. \A j \in 1 .. n + 1 : j \in S
  <2>1. n + 1 \in Nat
    OBVIOUS
  <2> HIDE DEF S
  <2> QED BY <1>2, <2>1, Downward
<1> QED BY <1>1, <1>3 DEF DoubleCloseFrom

-------------------------------------------------------------------------------
(* Words *)

\* What each kind of character adds to a word.
WordRules(s, W, j) ==
  /\ EndsWord(s, j) => WordFrom(s, W, j) = [raw |-> <<>>, at |-> j]
  /\ ~EndsWord(s, j) /\ s[j] \in {"&", "*"} => WordFrom(s, W, j) = Bad
  /\ ~EndsWord(s, j) /\ s[j] = "$" /\ j < Len(s) /\ s[j + 1] = "(" =>
       WordFrom(s, W, j) = Bad
  /\ ~EndsWord(s, j) /\ s[j] = "'" =>
       WordFrom(s, W, j) =
         IF SingleClose(s, j + 1) = 0 THEN Bad
         ELSE Then(SubSeq(s, j, SingleClose(s, j + 1)), W[SingleClose(s, j + 1) + 1])
  /\ ~EndsWord(s, j) /\ s[j] = DoubleQuote =>
       WordFrom(s, W, j) =
         IF DoubleClose(s, j + 1) = 0 THEN Bad
         ELSE Then(SubSeq(s, j, DoubleClose(s, j + 1)), W[DoubleClose(s, j + 1) + 1])
  /\ ~EndsWord(s, j) /\ s[j] = "\\" /\ j < Len(s) =>
       WordFrom(s, W, j) = Then(<<s[j + 1]>>, W[j + 2])
  /\ /\ ~EndsWord(s, j) /\ s[j] \notin {"&", "*", "'", DoubleQuote}
     /\ ~ (s[j] = "$" /\ j < Len(s) /\ s[j + 1] = "(") /\ ~ (s[j] = "\\" /\ j < Len(s))
     => WordFrom(s, W, j) = Then(<<s[j]>>, W[j + 1])

LEMMA WordSteps ==
  ASSUME NEW n \in Nat, NEW s, Len(s) = n, NEW W, NEW j \in 1 .. n + 1
  PROVE  WordRules(s, W, j)
<1>0. DoubleQuote \notin {"&", "*", "$", "'", "\\"}
  BY Zenon DEF DoubleQuote
<1>1. ASSUME EndsWord(s, j) PROVE WordFrom(s, W, j) = [raw |-> <<>>, at |-> j]
  BY <1>1, Zenon DEF WordFrom
<1>2. ASSUME ~EndsWord(s, j), s[j] \in {"&", "*"} PROVE WordFrom(s, W, j) = Bad
  <2>1. s[j] # "$" /\ s[j] # "'" /\ s[j] # DoubleQuote /\ s[j] # "\\"
    BY <1>0, <1>2, Zenon
  <2> QED BY <1>2, <2>1, Zenon DEF WordFrom
<1>3. ASSUME ~EndsWord(s, j), s[j] = "$", j < n, s[j + 1] = "(" PROVE WordFrom(s, W, j) = Bad
  <2>1. s[j] \notin {"&", "*"} /\ s[j] # "'" /\ s[j] # DoubleQuote /\ s[j] # "\\"
    BY <1>0, <1>3, Zenon
  <2> QED BY <1>3, <2>1, Zenon DEF WordFrom
<1>4. ASSUME ~EndsWord(s, j), s[j] = "'"
      PROVE  WordFrom(s, W, j) =
                IF SingleClose(s, j + 1) = 0 THEN Bad
                ELSE Then(SubSeq(s, j, SingleClose(s, j + 1)), W[SingleClose(s, j + 1) + 1])
  <2>1. s[j] \notin {"&", "*"} /\ s[j] # "$" /\ s[j] # DoubleQuote /\ s[j] # "\\"
    BY <1>0, <1>4, Zenon
  <2> QED BY <1>4, <2>1, Zenon DEF WordFrom
<1>5. ASSUME ~EndsWord(s, j), s[j] = DoubleQuote
      PROVE  WordFrom(s, W, j) =
                IF DoubleClose(s, j + 1) = 0 THEN Bad
                ELSE Then(SubSeq(s, j, DoubleClose(s, j + 1)), W[DoubleClose(s, j + 1) + 1])
  <2>1. s[j] \notin {"&", "*"} /\ s[j] # "$" /\ s[j] # "'" /\ s[j] # "\\"
    BY <1>0, <1>5, Zenon
  <2> QED BY <1>5, <2>1, Zenon DEF WordFrom
<1>6. ASSUME ~EndsWord(s, j), s[j] = "\\", j < n
      PROVE  WordFrom(s, W, j) = Then(<<s[j + 1]>>, W[j + 2])
  <2>1. s[j] \notin {"&", "*"} /\ s[j] # "$" /\ s[j] # "'" /\ s[j] # DoubleQuote
    BY <1>0, <1>6, Zenon
  <2> QED BY <1>6, <2>1, Zenon DEF WordFrom
<1>7. ASSUME ~EndsWord(s, j), s[j] \notin {"&", "*", "'", DoubleQuote},
             ~ (s[j] = "$" /\ j < n /\ s[j + 1] = "("), ~ (s[j] = "\\" /\ j < n)
      PROVE  WordFrom(s, W, j) = Then(<<s[j]>>, W[j + 1])
  BY <1>7, Zenon DEF WordFrom
<1> QED BY <1>1, <1>2, <1>3, <1>4, <1>5, <1>6, <1>7, Zenon DEF WordRules

\* Where quotes close that are open at i.
LEMMA ClosesThere ==
  ASSUME NEW n \in Nat, NEW s, Len(s) = n, NEW i \in 1 .. n
  PROVE  /\ SingleClose(s, i + 1) \in {0} \cup (i + 1 .. n)
         /\ DoubleClose(s, i + 1) \in {0} \cup (i + 1 .. n)
<1>1. i + 1 \in Nat \ {0} /\ i + 1 \in 1 .. n + 1
  OBVIOUS
<1>2. SingleClose(s, i + 1) \in {0} \cup (i + 1 .. n)
  BY <1>1, NextIsThere DEF SingleClose
<1>3. DoubleClose(s, i + 1) \in {0} \cup (i + 1 .. n)
  BY <1>1, DoubleCloseThere
<1> QED BY <1>2, <1>3

\* What a word is from j on depends on later positions only.
LEMMA WordFromLater ==
  ASSUME NEW n \in Nat, NEW s, Len(s) = n, NEW j \in 1 .. n + 1, NEW f, NEW g,
         \A k \in 1 .. n + 1 : k > j => f[k] = g[k]
  PROVE  WordFrom(s, f, j) = WordFrom(s, g, j)
<1>0. WordRules(s, f, j) /\ WordRules(s, g, j)
  BY WordSteps
<1>1. CASE EndsWord(s, j)
  BY <1>0, <1>1 DEF WordRules
<1>2. CASE ~EndsWord(s, j)
  <2>1. j \in 1 .. n
    BY <1>2 DEF EndsWord
  <2>2. j + 1 \in 1 .. n + 1 /\ f[j + 1] = g[j + 1]
    BY <2>1
  <2>3. ASSUME j < n PROVE f[j + 2] = g[j + 2]
    BY <2>3
  <2>4. ASSUME NEW c \in {0} \cup (j + 1 .. n), c # 0 PROVE f[c + 1] = g[c + 1]
    BY <2>1, <2>4
  <2>5. /\ SingleClose(s, j + 1) # 0 =>
             f[SingleClose(s, j + 1) + 1] = g[SingleClose(s, j + 1) + 1]
        /\ DoubleClose(s, j + 1) # 0 =>
             f[DoubleClose(s, j + 1) + 1] = g[DoubleClose(s, j + 1) + 1]
    BY <2>1, <2>4, ClosesThere
  <2>6. CASE s[j] \in {"&", "*"}
    BY <1>0, <1>2, <2>6 DEF WordRules
  <2>7. CASE s[j] = "$" /\ j < n /\ s[j + 1] = "("
    BY <1>0, <1>2, <2>7 DEF WordRules
  <2>8. CASE s[j] = "'"
    BY <1>0, <1>2, <2>5, <2>8 DEF WordRules
  <2>9. CASE s[j] = DoubleQuote
    BY <1>0, <1>2, <2>5, <2>9 DEF WordRules
  <2>10. CASE s[j] = "\\" /\ j < n
    BY <1>0, <1>2, <2>3, <2>10 DEF WordRules
  <2>11. CASE /\ s[j] \notin {"&", "*", "'", DoubleQuote}
              /\ ~ (s[j] = "$" /\ j < n /\ s[j + 1] = "(") /\ ~ (s[j] = "\\" /\ j < n)
    BY <1>0, <1>2, <2>2, <2>11 DEF WordRules
  <2> QED BY <2>6, <2>7, <2>8, <2>9, <2>10, <2>11
<1> QED BY <1>1, <1>2
\* The recursion of LexWord has a solution: it is built from the end of the text.
LEMMA WordSolved ==
  ASSUME NEW n \in Nat, NEW s, Len(s) = n
  PROVE  \E f : \A j \in 1 .. n + 1 :
           f[j] = WordFrom(s, f, j) /\ LexWord(s, j) = f[j]
<1> DEFINE D == 1 .. n + 1
           Solved(f, k) == \A j \in D : j > n + 1 - k => f[j] = WordFrom(s, f, j)
           S == {k \in Nat : k <= n + 1 => \E f : f = [j \in D |-> f[j]] /\ Solved(f, k)}
           words == CHOOSE f : f = [j \in D |-> WordFrom(s, f, j)]
<1>1. ASSUME NEW f, NEW g, NEW j \in D, \A k \in D : k > j => f[k] = g[k]
      PROVE  WordFrom(s, f, j) = WordFrom(s, g, j)
  BY <1>1, WordFromLater
<1>2. 0 \in S
  <2>1. Solved([j \in D |-> 0], 0)
    OBVIOUS
  <2> QED BY <2>1
<1>3. ASSUME NEW k \in Nat, k \in S PROVE k + 1 \in S
  <2> SUFFICES ASSUME k + 1 <= n + 1
               PROVE  \E f : f = [j \in D |-> f[j]] /\ Solved(f, k + 1)
    OBVIOUS
  <2> PICK f : f = [j \in D |-> f[j]] /\ Solved(f, k)
    BY <1>3
  <2> DEFINE h == [j \in D |-> IF j = n + 1 - k THEN WordFrom(s, f, j) ELSE f[j]]
  <2>1. ASSUME NEW j \in D, j > n + 1 - (k + 1)
        PROVE  h[j] = WordFrom(s, h, j)
    <3>1. \A i \in D : i > j => h[i] = f[i]
      BY <2>1
    <3>2. WordFrom(s, h, j) = WordFrom(s, f, j)
      <4> HIDE DEF h
      <4> QED BY <1>1, <3>1
    <3>3. h[j] = WordFrom(s, f, j)
      BY <2>1
    <3> QED BY <3>2, <3>3
  <2>2. h = [j \in D |-> h[j]]
    OBVIOUS
  <2> HIDE DEF h
  <2> QED BY <2>1, <2>2
<1>4. n + 1 \in S
  <2> HIDE DEF S
  <2> QED BY <1>2, <1>3, Upward
<1>5. \E f : f = [j \in D |-> WordFrom(s, f, j)]
  <2>1. PICK f : f = [j \in D |-> f[j]] /\ Solved(f, n + 1)
    BY <1>4
  <2>2. \A j \in D : f[j] = WordFrom(s, f, j)
    BY <2>1
  <2> QED BY <2>1, <2>2
<1>6. words = [j \in D |-> WordFrom(s, words, j)]
  BY <1>5
<1>7. \A i : LexWord(s, i) = words[i]
  BY Zenon DEF LexWord
<1> HIDE DEF words
<1> QED BY <1>6, <1>7

\* A word that goes on at j ends where it does from a later position on.
GoesOn(s, f, j) ==
  \/ WordFrom(s, f, j) = Bad
  \/ \E k \in j + 1 .. Len(s) + 1 : \E part :
       f[k] # Bad /\ WordFrom(s, f, j) = [raw |-> part \o f[k].raw, at |-> f[k].at]

LEMMA WordGoesOn ==
  ASSUME NEW n \in Nat, NEW s, Len(s) = n, NEW j \in 1 .. n + 1, NEW f, ~EndsWord(s, j)
  PROVE  GoesOn(s, f, j)
<1>0. WordRules(s, f, j)
  BY WordSteps
<1>1. j \in 1 .. n
  BY DEF EndsWord
<1>2. ASSUME NEW k \in j + 1 .. n + 1, NEW part, WordFrom(s, f, j) = Then(part, f[k])
      PROVE  GoesOn(s, f, j)
  BY <1>2 DEF Then, GoesOn
<1>3. ASSUME NEW c \in {0} \cup (j + 1 .. n), NEW part,
             WordFrom(s, f, j) = IF c = 0 THEN Bad ELSE Then(part, f[c + 1])
      PROVE  GoesOn(s, f, j)
  <2>1. CASE c = 0
    BY <1>3, <2>1 DEF GoesOn
  <2>2. CASE c # 0
    <3>1. c + 1 \in j + 1 .. n + 1 /\ WordFrom(s, f, j) = Then(part, f[c + 1])
      BY <1>1, <1>3, <2>2
    <3> QED BY <1>2, <3>1
  <2> QED BY <2>1, <2>2
<1>4. CASE s[j] \in {"&", "*"} \/ (s[j] = "$" /\ j < n /\ s[j + 1] = "(")
  BY <1>0, <1>4 DEF WordRules, GoesOn
<1>5. CASE s[j] = "'"
  <2>1. SingleClose(s, j + 1) \in {0} \cup (j + 1 .. n)
    BY <1>1, ClosesThere
  <2> QED BY <1>0, <1>3, <1>5, <2>1 DEF WordRules
<1>6. CASE s[j] = DoubleQuote
  <2>1. DoubleClose(s, j + 1) \in {0} \cup (j + 1 .. n)
    BY <1>1, ClosesThere
  <2> QED BY <1>0, <1>3, <1>6, <2>1 DEF WordRules
<1>7. CASE s[j] = "\\" /\ j < n
  <2>1. j + 2 \in j + 1 .. n + 1
    BY <1>1, <1>7
  <2> QED BY <1>0, <1>2, <1>7, <2>1 DEF WordRules
<1>8. CASE /\ s[j] \notin {"&", "*", "'", DoubleQuote}
           /\ ~ (s[j] = "$" /\ j < n /\ s[j + 1] = "(") /\ ~ (s[j] = "\\" /\ j < n)
  <2>1. j + 1 \in j + 1 .. n + 1
    BY <1>1
  <2> QED BY <1>0, <1>2, <1>8, <2>1 DEF WordRules
<1> QED BY <1>4, <1>5, <1>6, <1>7, <1>8

\* A word ends in the text, and after its first character if it has one.
LEMMA LexWordThere ==
  ASSUME NEW n \in Nat, NEW s, Len(s) = n, NEW i \in 1 .. n + 1
  PROVE  LexWord(s, i) = Bad \/ LexWord(s, i).at \in
           (IF EndsWord(s, i) THEN {i} ELSE i + 1 .. n + 1)
<1>1. PICK f : \A j \in 1 .. n + 1 : f[j] = WordFrom(s, f, j) /\ LexWord(s, j) = f[j]
  BY WordSolved
<1> DEFINE S == {j \in 1 .. n + 1 : f[j] = Bad \/ f[j].at \in
                   (IF EndsWord(s, j) THEN {j} ELSE j + 1 .. n + 1)}
<1>2. ASSUME NEW j \in 1 .. n + 1, \A k \in 1 .. n + 1 : k > j => k \in S PROVE j \in S
  <2>0. f[j] = WordFrom(s, f, j) /\ WordRules(s, f, j)
    BY <1>1, WordSteps
  <2>1. CASE EndsWord(s, j)
    <3>1. f[j] = [raw |-> <<>>, at |-> j]
      BY <2>0, <2>1 DEF WordRules
    <3> QED BY <2>1, <3>1
  <2>2. CASE ~EndsWord(s, j) /\ f[j] # Bad
    <3>0. GoesOn(s, f, j) /\ WordFrom(s, f, j) # Bad
      BY <2>0, <2>2, WordGoesOn
    <3>1. PICK k \in j + 1 .. n + 1 : \E part :
            f[k] # Bad /\ WordFrom(s, f, j) = [raw |-> part \o f[k].raw, at |-> f[k].at]
      BY <3>0 DEF GoesOn
    <3>2. f[j].at = f[k].at /\ k \in 1 .. n + 1 /\ k > j
      BY <2>0, <3>1
    <3>3. f[k].at \in (IF EndsWord(s, k) THEN {k} ELSE k + 1 .. n + 1)
      BY <1>2, <3>1, <3>2
    <3>4. f[j].at \in j + 1 .. n + 1
      BY <3>2, <3>3
    <3> QED BY <2>2, <3>4
  <2> QED BY <2>1, <2>2
<1>3. \A j \in 1 .. n + 1 : j \in S
  <2>1. n + 1 \in Nat
    OBVIOUS
  <2> HIDE DEF S
  <2> QED BY <1>2, <2>1, Downward
<1> QED BY <1>1, <1>3

\* The rules for words of quoted texts.
LexRules(s, j) ==
  /\ EndsWord(s, j) => LexWord(s, j) = [raw |-> <<>>, at |-> j]
  /\ ~EndsWord(s, j) =>
       /\ s[j] = "'" /\ SingleClose(s, j + 1) # 0 =>
            LexWord(s, j) = Then(SubSeq(s, j, SingleClose(s, j + 1)),
                                 LexWord(s, SingleClose(s, j + 1) + 1))
       /\ s[j] = DoubleQuote /\ DoubleClose(s, j + 1) # 0 =>
            LexWord(s, j) = Then(SubSeq(s, j, DoubleClose(s, j + 1)),
                                 LexWord(s, DoubleClose(s, j + 1) + 1))
       /\ s[j] \notin {"&", "*", "'", DoubleQuote, "$", "\\"} =>
            LexWord(s, j) = Then(<<s[j]>>, LexWord(s, j + 1))

LEMMA LexWordIs ==
  ASSUME NEW n \in Nat, NEW s, Len(s) = n, NEW j \in 1 .. n + 1
  PROVE  LexRules(s, j)
<1>1. PICK f : \A k \in 1 .. n + 1 : f[k] = WordFrom(s, f, k) /\ LexWord(s, k) = f[k]
  BY WordSolved
<1>2. WordRules(s, f, j)
  BY WordSteps
<1>3. CASE EndsWord(s, j)
  BY <1>1, <1>2, <1>3 DEF WordRules, LexRules
<1>4. CASE ~EndsWord(s, j)
  <2>1. j \in 1 .. n
    BY <1>4 DEF EndsWord
  <2>2. ASSUME NEW c \in {0} \cup (j + 1 .. n), c # 0 PROVE f[c + 1] = LexWord(s, c + 1)
    BY <1>1, <2>1, <2>2
  <2>3. /\ SingleClose(s, j + 1) # 0 =>
             f[SingleClose(s, j + 1) + 1] = LexWord(s, SingleClose(s, j + 1) + 1)
        /\ DoubleClose(s, j + 1) # 0 =>
             f[DoubleClose(s, j + 1) + 1] = LexWord(s, DoubleClose(s, j + 1) + 1)
    BY <2>1, <2>2, ClosesThere
  <2>4. f[j + 1] = LexWord(s, j + 1) /\ LexWord(s, j) = WordFrom(s, f, j)
    BY <1>1, <2>1
  <2>5. s[j] = "'" /\ SingleClose(s, j + 1) # 0 =>
          LexWord(s, j) = Then(SubSeq(s, j, SingleClose(s, j + 1)),
                               LexWord(s, SingleClose(s, j + 1) + 1))
    BY <1>2, <1>4, <2>3, <2>4 DEF WordRules
  <2>6. s[j] = DoubleQuote /\ DoubleClose(s, j + 1) # 0 =>
          LexWord(s, j) = Then(SubSeq(s, j, DoubleClose(s, j + 1)),
                               LexWord(s, DoubleClose(s, j + 1) + 1))
    BY <1>2, <1>4, <2>3, <2>4 DEF WordRules
  <2>7. s[j] \notin {"&", "*", "'", DoubleQuote, "$", "\\"} =>
          LexWord(s, j) = Then(<<s[j]>>, LexWord(s, j + 1))
    BY <1>2, <1>4, <2>4 DEF WordRules
  <2> QED BY <1>4, <2>5, <2>6, <2>7, Zenon DEF LexRules
<1> QED BY <1>3, <1>4

\* A word that goes on after a part of it.
LEMMA ThenIs ==
  ASSUME NEW part, NEW raw, NEW at, at # 0
  PROVE  Then(part, [raw |-> raw, at |-> at]) = [raw |-> part \o raw, at |-> at]
BY DEF Then, Bad

-------------------------------------------------------------------------------
(* Tokens *)

\* What begins at a position of a text.
TokenRules(s, T, i) ==
  /\ i > Len(s) => TokensFrom(s, T, i) = <<>>
  /\ i <= Len(s) /\ s[i] \in Blanks => TokensFrom(s, T, i) = T[i + 1]
  /\ i <= Len(s) /\ s[i] = "#" => TokensFrom(s, T, i) = <<>>
  /\ i <= Len(s) /\ OperatorAt(s, i) # 0 =>
       TokensFrom(s, T, i) = Following(Token("op", Operators[OperatorAt(s, i)]),
                                       T[i + Len(Operators[OperatorAt(s, i)])])
  /\ OpensVariable(s, i) /\ VarEnd(s, i) = 0 =>
       TokensFrom(s, T, i) = Failed
  /\ /\ ~EndsWord(s, i)
     /\ ~ (OpensVariable(s, i) /\ VarEnd(s, i) = 0)
     => TokensFrom(s, T, i) =
          IF LexWord(s, i) = Bad THEN Failed
          ELSE Following(Token("word", LexWord(s, i).raw), T[LexWord(s, i).at])

LEMMA TokenSteps ==
  ASSUME NEW n \in Nat, NEW s, Len(s) = n, NEW T, NEW i \in 1 .. n + 1
  PROVE  TokenRules(s, T, i)
<1>0. i <= n => (OperatorAt(s, i) # 0 => s[i] \in OpChars)
  BY OperatorThere
<1>1. ASSUME i > n PROVE TokensFrom(s, T, i) = <<>>
  <2>1. ~ (i <= n) /\ ~ (i < n)
    BY <1>1
  <2> QED BY <1>1, <2>1, Zenon DEF TokensFrom, OpensVariable
<1>2. ASSUME i <= n, s[i] \in Blanks PROVE TokensFrom(s, T, i) = T[i + 1]
  <2>1. s[i] # "#" /\ s[i] \notin OpChars /\ s[i] # "$"
    BY <1>2 DEF Blanks, OpChars
  <2>2. ~ (i > n) /\ OperatorAt(s, i) = 0
    BY <1>0, <1>2, <2>1
  <2> QED BY <1>2, <2>1, <2>2, Zenon DEF TokensFrom, OpensVariable
<1>3. ASSUME i <= n, s[i] = "#" PROVE TokensFrom(s, T, i) = <<>>
  <2>1. ~ (i > n) /\ s[i] \notin Blanks /\ OperatorAt(s, i) = 0 /\ s[i] # "$"
    BY <1>0, <1>3 DEF Blanks, OpChars
  <2> QED BY <1>3, <2>1, Zenon DEF TokensFrom, OpensVariable
<1>4. ASSUME i <= n, OperatorAt(s, i) # 0
      PROVE  TokensFrom(s, T, i) = Following(Token("op", Operators[OperatorAt(s, i)]),
                                             T[i + Len(Operators[OperatorAt(s, i)])])
  <2>1. s[i] \in OpChars /\ ~ (i > n)
    BY <1>0, <1>4
  <2>2. s[i] \notin Blanks /\ s[i] # "#" /\ s[i] # "$"
    BY <2>1 DEF Blanks, OpChars
  <2> QED BY <1>4, <2>1, <2>2, Zenon DEF TokensFrom, OpensVariable
<1>5. ASSUME OpensVariable(s, i), VarEnd(s, i) = 0
      PROVE  TokensFrom(s, T, i) = Failed
  <2>0. s[i] = "$" /\ i < n
    BY <1>5, Zenon DEF OpensVariable
  <2>1. s[i] \notin Blanks /\ s[i] # "#" /\ s[i] \notin OpChars
    BY <2>0 DEF Blanks, OpChars
  <2>2. i <= n /\ ~ (i > n) /\ OperatorAt(s, i) = 0
    BY <1>0, <2>0, <2>1
  <2> QED BY <1>5, <2>1, <2>2, Zenon DEF TokensFrom
<1>6. ASSUME ~EndsWord(s, i),
             ~ (OpensVariable(s, i) /\ VarEnd(s, i) = 0)
      PROVE  TokensFrom(s, T, i) =
               IF LexWord(s, i) = Bad THEN Failed
               ELSE Following(Token("word", LexWord(s, i).raw), T[LexWord(s, i).at])
  <2>1. ~ (i > n) /\ i <= n
    BY <1>6 DEF EndsWord
  <2>2. s[i] \notin Blanks /\ s[i] # "#" /\ OperatorAt(s, i) = 0
    BY <1>6, <2>1, Zenon DEF EndsWord
  <2> QED BY <1>6, <2>1, <2>2, Zenon DEF TokensFrom
<1> QED BY <1>1, <1>2, <1>3, <1>4, <1>5, <1>6, Zenon DEF TokenRules

\* The tokens from i on depend on those from later positions only.
LEMMA TokensFromLater ==
  ASSUME NEW n \in Nat, NEW s, Len(s) = n, NEW i \in 1 .. n + 1, NEW f, NEW g,
         \A k \in 1 .. n + 1 : k > i => f[k] = g[k]
  PROVE  TokensFrom(s, f, i) = TokensFrom(s, g, i)
<1>0. TokenRules(s, f, i) /\ TokenRules(s, g, i)
  BY TokenSteps
<1>1. CASE i > n
  BY <1>0, <1>1 DEF TokenRules
<1>2. CASE i <= n /\ s[i] \in Blanks
  <2>1. f[i + 1] = g[i + 1]
    BY <1>2
  <2> QED BY <1>0, <1>2, <2>1 DEF TokenRules
<1>3. CASE i <= n /\ s[i] = "#"
  BY <1>0, <1>3 DEF TokenRules
<1>4. CASE i <= n /\ OperatorAt(s, i) # 0
  <2> DEFINE op == Operators[OperatorAt(s, i)]
  <2>1. StartsAt(s, i, op) /\ OperatorAt(s, i) \in 1 .. 11
    BY <1>4, OperatorThere
  <2>2. Len(op) \in 1 .. 4
    BY <2>1, OperatorsAre
  <2>3. i + Len(op) - 1 <= n
    <3> HIDE DEF op
    <3> QED BY <2>1 DEF StartsAt
  <2>4. f[i + Len(op)] = g[i + Len(op)]
    <3> HIDE DEF op
    <3>1. PICK m \in 1 .. 4 : m = Len(op)
      BY <2>2
    <3>2. i + m \in 1 .. n + 1 /\ i + m > i
      BY <2>3, <3>1
    <3> QED BY <3>1, <3>2
  <2> QED BY <1>0, <1>4, <2>4 DEF TokenRules
<1>5. CASE OpensVariable(s, i) /\ VarEnd(s, i) = 0
  BY <1>0, <1>5 DEF TokenRules
<1>6. CASE /\ ~EndsWord(s, i)
           /\ ~ (OpensVariable(s, i) /\ VarEnd(s, i) = 0)
  <2>1. LexWord(s, i) = Bad \/ LexWord(s, i).at \in i + 1 .. n + 1
    BY <1>6, LexWordThere
  <2>2. LexWord(s, i) # Bad => f[LexWord(s, i).at] = g[LexWord(s, i).at]
    BY <2>1
  <2>3. CASE LexWord(s, i) = Bad
    BY <1>0, <1>6, <2>3 DEF TokenRules
  <2>4. CASE LexWord(s, i) # Bad
    BY <1>0, <1>6, <2>2, <2>4 DEF TokenRules
  <2> QED BY <2>3, <2>4
<1>7. EndsWord(s, i) <=> i > n \/ (i <= n /\ (s[i] \in Blanks \cup {"#"} \/ OperatorAt(s, i) # 0))
  BY Zenon DEF EndsWord
<1> QED BY <1>1, <1>2, <1>3, <1>4, <1>5, <1>6, <1>7

\* The recursion of Tokens has a solution: it is built from the end of the text.
LEMMA TokensSolved ==
  ASSUME NEW n \in Nat, NEW s, Len(s) = n
  PROVE  \E f : (\A j \in 1 .. n + 1 : f[j] = TokensFrom(s, f, j)) /\ Tokens(s) = f[1]
<1> DEFINE D == 1 .. n + 1
           Solved(f, k) == \A j \in D : j > n + 1 - k => f[j] = TokensFrom(s, f, j)
           S == {k \in Nat : k <= n + 1 => \E f : f = [j \in D |-> f[j]] /\ Solved(f, k)}
           tokens == CHOOSE f : f = [j \in D |-> TokensFrom(s, f, j)]
<1>1. ASSUME NEW f, NEW g, NEW j \in D, \A k \in D : k > j => f[k] = g[k]
      PROVE  TokensFrom(s, f, j) = TokensFrom(s, g, j)
  BY <1>1, TokensFromLater
<1>2. 0 \in S
  <2>1. Solved([j \in D |-> 0], 0)
    OBVIOUS
  <2> QED BY <2>1
<1>3. ASSUME NEW k \in Nat, k \in S PROVE k + 1 \in S
  <2> SUFFICES ASSUME k + 1 <= n + 1
               PROVE  \E f : f = [j \in D |-> f[j]] /\ Solved(f, k + 1)
    OBVIOUS
  <2> PICK f : f = [j \in D |-> f[j]] /\ Solved(f, k)
    BY <1>3
  <2> DEFINE h == [j \in D |-> IF j = n + 1 - k THEN TokensFrom(s, f, j) ELSE f[j]]
  <2>1. ASSUME NEW j \in D, j > n + 1 - (k + 1)
        PROVE  h[j] = TokensFrom(s, h, j)
    <3>1. \A i \in D : i > j => h[i] = f[i]
      BY <2>1
    <3>2. TokensFrom(s, h, j) = TokensFrom(s, f, j)
      <4> HIDE DEF h
      <4> QED BY <1>1, <3>1
    <3>3. h[j] = TokensFrom(s, f, j)
      BY <2>1
    <3> QED BY <3>2, <3>3
  <2>2. h = [j \in D |-> h[j]]
    OBVIOUS
  <2> HIDE DEF h
  <2> QED BY <2>1, <2>2
<1>4. n + 1 \in S
  <2> HIDE DEF S
  <2> QED BY <1>2, <1>3, Upward
<1>5. \E f : f = [j \in D |-> TokensFrom(s, f, j)]
  <2>1. PICK f : f = [j \in D |-> f[j]] /\ Solved(f, n + 1)
    BY <1>4
  <2>2. \A j \in D : f[j] = TokensFrom(s, f, j)
    BY <2>1
  <2> QED BY <2>1, <2>2
<1>6. tokens = [j \in D |-> TokensFrom(s, tokens, j)]
  BY <1>5
<1>7. Tokens(s) = tokens[1]
  BY Zenon DEF Tokens
<1> HIDE DEF tokens
<1> QED BY <1>6, <1>7

-------------------------------------------------------------------------------
(* The text of a word *)

\* What each kind of character adds to the text of a word.
ExpandRules(s, E, i, q) ==
  /\ i > Len(s) => ExpandFrom(s, E, i, q) = <<>>
  /\ i <= Len(s) /\ VarEnd(s, i) # 0 =>
       ExpandFrom(s, E, i, q) = ValueOf(s, i, VarEnd(s, i)) \o E[VarEnd(s, i)][q]
  /\ i <= Len(s) /\ s[i] = DoubleQuote => ExpandFrom(s, E, i, q) = E[i + 1][~q]
  /\ i < Len(s) /\ s[i] = "\\" /\ q =>
       ExpandFrom(s, E, i, q) = <<s[i + 1]>> \o E[i + 2][q]
  /\ i <= Len(s) /\ s[i] = "'" /\ ~q =>
       ExpandFrom(s, E, i, q) = SubSeq(s, i + 1, SingleEnd(s, i + 1) - 1)
                                  \o E[SingleEnd(s, i + 1) + 1][q]
  /\ /\ i <= Len(s) /\ VarEnd(s, i) = 0 /\ s[i] # DoubleQuote
     /\ ~ (i < Len(s) /\ s[i] = "\\" /\ q) /\ ~ (s[i] = "'" /\ ~q)
     => ExpandFrom(s, E, i, q) = <<s[i]>> \o E[i + 1][q]

LEMMA ExpandSteps ==
  ASSUME NEW n \in Nat, NEW s, Len(s) = n, NEW E, NEW i \in 1 .. n + 2, NEW q \in BOOLEAN
  PROVE  ExpandRules(s, E, i, q)
<1>0. i <= n => (VarEnd(s, i) # 0 => s[i] = "$")
  BY VarThere
<1>1. ASSUME i > n PROVE ExpandFrom(s, E, i, q) = <<>>
  <2>1. ~ (i <= n) /\ ~ (i < n)
    BY <1>1
  <2> QED BY <1>1, <2>1, Zenon DEF ExpandFrom
<1>2. ASSUME i <= n, VarEnd(s, i) # 0
      PROVE  ExpandFrom(s, E, i, q) = ValueOf(s, i, VarEnd(s, i)) \o E[VarEnd(s, i)][q]
  <2>1. s[i] = "$" /\ ~ (i > n)
    BY <1>0, <1>2
  <2>2. s[i] # DoubleQuote /\ s[i] # "\\" /\ s[i] # "'"
    BY <2>1, Zenon DEF DoubleQuote
  <2> QED BY <1>2, <2>1, <2>2, Zenon DEF ExpandFrom
<1>3. ASSUME i <= n, s[i] = DoubleQuote PROVE ExpandFrom(s, E, i, q) = E[i + 1][~q]
  <2>1. s[i] # "$" /\ s[i] # "\\" /\ s[i] # "'"
    BY <1>3, Zenon DEF DoubleQuote
  <2>2. ~ (i > n) /\ VarEnd(s, i) = 0
    BY <1>0, <1>3, <2>1
  <2> QED BY <1>3, <2>1, <2>2, Zenon DEF ExpandFrom
<1>4. ASSUME i < n, s[i] = "\\", q PROVE ExpandFrom(s, E, i, q) = <<s[i + 1]>> \o E[i + 2][q]
  <2>1. s[i] # "$" /\ s[i] # DoubleQuote /\ s[i] # "'"
    BY <1>4, Zenon DEF DoubleQuote
  <2>2. i <= n /\ ~ (i > n) /\ VarEnd(s, i) = 0
    BY <1>0, <1>4, <2>1
  <2> QED BY <1>4, <2>1, <2>2, Zenon DEF ExpandFrom
<1>5. ASSUME i <= n, s[i] = "'", ~q
      PROVE  ExpandFrom(s, E, i, q) = SubSeq(s, i + 1, SingleEnd(s, i + 1) - 1)
                                        \o E[SingleEnd(s, i + 1) + 1][q]
  <2>1. s[i] # "$" /\ s[i] # DoubleQuote /\ s[i] # "\\"
    BY <1>5, Zenon DEF DoubleQuote
  <2>2. ~ (i > n) /\ VarEnd(s, i) = 0
    BY <1>0, <1>5, <2>1
  <2> QED BY <1>5, <2>1, <2>2, Zenon DEF ExpandFrom
<1>6. ASSUME i <= n, VarEnd(s, i) = 0, s[i] # DoubleQuote,
             ~ (i < n /\ s[i] = "\\" /\ q), ~ (s[i] = "'" /\ ~q)
      PROVE  ExpandFrom(s, E, i, q) = <<s[i]>> \o E[i + 1][q]
  <2>1. ~ (i > n)
    BY <1>6
  <2> QED BY <1>6, <2>1, Zenon DEF ExpandFrom
<1> QED BY <1>1, <1>2, <1>3, <1>4, <1>5, <1>6, Zenon DEF ExpandRules

\* What becomes of a text from i on depends on later positions only.
LEMMA ExpandFromLater ==
  ASSUME NEW n \in Nat, NEW s, Len(s) = n, NEW i \in 1 .. n + 2, NEW f, NEW g,
         NEW q \in BOOLEAN, \A k \in 1 .. n + 2 : k > i => f[k] = g[k]
  PROVE  ExpandFrom(s, f, i, q) = ExpandFrom(s, g, i, q)
<1>0. ExpandRules(s, f, i, q) /\ ExpandRules(s, g, i, q)
  BY ExpandSteps
<1>1. CASE i > n
  BY <1>0, <1>1, Zenon DEF ExpandRules
<1>2. CASE i <= n
  <2>1. f[i + 1] = g[i + 1] /\ f[n + 1 + 1] = g[n + 1 + 1]
    BY <1>2
  <2>2. ASSUME i < n PROVE f[i + 2] = g[i + 2]
    BY <2>2
  <2>3. VarEnd(s, i) # 0 => f[VarEnd(s, i)] = g[VarEnd(s, i)]
    <3>1. VarEnd(s, i) # 0 => VarEnd(s, i) \in i + 1 .. n + 1
      BY <1>2, VarThere
    <3> QED BY <3>1
  <2>4. f[SingleEnd(s, i + 1) + 1] = g[SingleEnd(s, i + 1) + 1]
    <3>1. SingleEnd(s, i + 1) \in i + 1 .. n + 1
      BY <1>2, ClosesThere DEF SingleEnd
    <3>2. ASSUME NEW c \in i + 1 .. n + 1 PROVE f[c + 1] = g[c + 1]
      BY <1>2, <3>2
    <3> QED BY <3>1, <3>2
  <2>5. CASE VarEnd(s, i) # 0
    BY <1>0, <1>2, <2>3, <2>5, Zenon DEF ExpandRules
  <2>6. CASE s[i] = DoubleQuote
    BY <1>0, <1>2, <2>1, <2>6, Zenon DEF ExpandRules
  <2>7. CASE i < n /\ s[i] = "\\" /\ q
    BY <1>0, <2>2, <2>7, Zenon DEF ExpandRules
  <2>8. CASE s[i] = "'" /\ ~q
    BY <1>0, <1>2, <2>4, <2>8, Zenon DEF ExpandRules
  <2>9. CASE /\ VarEnd(s, i) = 0 /\ s[i] # DoubleQuote
             /\ ~ (i < n /\ s[i] = "\\" /\ q) /\ ~ (s[i] = "'" /\ ~q)
    BY <1>0, <1>2, <2>1, <2>9, Zenon DEF ExpandRules
  <2> QED BY <2>5, <2>6, <2>7, <2>8, <2>9
<1> QED BY <1>1, <1>2

\* The recursion of Expand has a solution: it is built from the end of the text.
LEMMA ExpandSolved ==
  ASSUME NEW n \in Nat, NEW s, Len(s) = n
  PROVE  \E f : /\ \A j \in 1 .. n + 2, q \in BOOLEAN : f[j][q] = ExpandFrom(s, f, j, q)
                /\ Expand(s) = f[1][FALSE]
<1> DEFINE D == 1 .. n + 2
           Both(f, j) == [q \in BOOLEAN |-> ExpandFrom(s, f, j, q)]
           Solved(f, k) == \A j \in D : j > n + 2 - k => f[j] = Both(f, j)
           S == {k \in Nat : k <= n + 2 => \E f : f = [j \in D |-> f[j]] /\ Solved(f, k)}
           texts == CHOOSE f : f = [j \in D |-> Both(f, j)]
<1>1. ASSUME NEW f, NEW g, NEW j \in D, \A k \in D : k > j => f[k] = g[k]
      PROVE  Both(f, j) = Both(g, j)
  BY <1>1, ExpandFromLater
<1> HIDE DEF Both
<1>2. 0 \in S
  <2>1. Solved([j \in D |-> 0], 0)
    OBVIOUS
  <2> QED BY <2>1
<1>3. ASSUME NEW k \in Nat, k \in S PROVE k + 1 \in S
  <2> SUFFICES ASSUME k + 1 <= n + 2
               PROVE  \E f : f = [j \in D |-> f[j]] /\ Solved(f, k + 1)
    OBVIOUS
  <2> PICK f : f = [j \in D |-> f[j]] /\ Solved(f, k)
    BY <1>3
  <2> DEFINE h == [j \in D |-> IF j = n + 2 - k THEN Both(f, j) ELSE f[j]]
  <2>1. ASSUME NEW j \in D, j > n + 2 - (k + 1)
        PROVE  h[j] = Both(h, j)
    <3>1. \A i \in D : i > j => h[i] = f[i]
      BY <2>1
    <3>2. Both(h, j) = Both(f, j)
      <4> HIDE DEF h
      <4> QED BY <1>1, <3>1
    <3>3. h[j] = Both(f, j)
      BY <2>1
    <3> QED BY <3>2, <3>3
  <2>2. h = [j \in D |-> h[j]]
    OBVIOUS
  <2> HIDE DEF h
  <2> QED BY <2>1, <2>2
<1>4. n + 2 \in S
  <2> HIDE DEF S
  <2> QED BY <1>2, <1>3, Upward
<1>5. \E f : f = [j \in D |-> Both(f, j)]
  <2>1. PICK f : f = [j \in D |-> f[j]] /\ Solved(f, n + 2)
    BY <1>4
  <2>2. \A j \in D : f[j] = Both(f, j)
    BY <2>1
  <2> QED BY <2>1, <2>2
<1>6. texts = [j \in D |-> Both(texts, j)]
  BY <1>5
<1>7. Expand(s) = texts[1][FALSE]
  BY Zenon DEF Expand, Both
<1> HIDE DEF texts
<1>8. \A j \in D : texts[j] = Both(texts, j)
  BY <1>6
<1>9. ASSUME NEW j \in D, NEW q \in BOOLEAN PROVE texts[j][q] = ExpandFrom(s, texts, j, q)
  BY <1>8, Zenon DEF Both
<1> QED BY <1>7, <1>9

-------------------------------------------------------------------------------
(* Quoted texts *)

\* One step of FlattenSeq.
FlattenStep(parts, f, i) == IF i = 1 THEN parts[i] ELSE f[i - 1] \o parts[i]

LEMMA FlattenStepIs ==
  ASSUME NEW parts, NEW f, NEW i, i # 1
  PROVE  FlattenStep(parts, f, i) = f[i - 1] \o parts[i]
BY Zenon DEF FlattenStep

\* What lies where in a concatenation.
LEMMA Concat ==
  ASSUME NEW A, NEW u \in Seq(A), NEW v \in Seq(A), NEW w, w = u \o v
  PROVE  /\ w \in Seq(A) /\ Len(w) = Len(u) + Len(v) /\ Len(u) <= Len(w)
         /\ \A i \in 1 .. Len(u) : w[i] = u[i]
         /\ \A d \in 1 .. Len(v) : w[Len(u) + d] = v[d]
<1>1. PICK l \in Nat, p \in Nat : l = Len(u) /\ p = Len(v)
  BY LenProperties
<1>2. w \in Seq(A) /\ Len(w) = l + p /\
      \A i \in 1 .. l + p : w[i] = IF i <= l THEN u[i] ELSE v[i - l]
  BY <1>1, ConcatProperties
<1>3. \A i \in 1 .. l : i \in 1 .. l + p /\ i <= l
  OBVIOUS
<1>4. \A d \in 1 .. p : l + d \in 1 .. l + p /\ ~ (l + d <= l) /\ l + d - l = d
  OBVIOUS
<1> QED BY <1>1, <1>2, <1>3, <1>4

\* The k-th of n parts ends in flat at pos[k].
PartsEnd(n, parts, flat, pos) ==
  /\ pos \in [0 .. n -> Nat] /\ pos[0] = 0 /\ pos[n] = Len(flat)
  /\ \A k \in 1 .. n : pos[k] = pos[k - 1] + Len(parts[k])
  /\ \A k \in 1 .. n : \A d \in 1 .. Len(parts[k]) : flat[pos[k - 1] + d] = parts[k][d]

\* FlattenSeq is what its steps give.
FlattenSteps(parts, f) ==
  /\ f[1] = parts[1]
  /\ \A i \in 1 .. Len(parts) - 1 : f[i + 1] = f[i] \o parts[i + 1]
  /\ FlattenSeq(parts) = f[Len(parts)]

LEMMA FlattenSolved ==
  ASSUME NEW A, NEW n \in Nat, n > 0, NEW parts \in [1 .. n -> Seq(A)]
  PROVE  \E f : FlattenSteps(parts, f) /\ \A i \in 1 .. n : f[i] \in Seq(A)
<1> DEFINE Solved(f, k) == \A i \in 1 .. n : i <= k => f[i] = FlattenStep(parts, f, i)
           flatten == CHOOSE f : f = [i \in 1 .. Len(parts) |-> FlattenStep(parts, f, i)]
<1>0. Len(parts) = n /\ n > 0
  OBVIOUS
<1>1. \E f : f = [i \in 1 .. n |-> FlattenStep(parts, f, i)]
  <2> DEFINE S == {k \in Nat : k <= n => \E f : f = [i \in 1 .. n |-> f[i]] /\ Solved(f, k)}
  <2>1. 0 \in S
    <3>1. Solved([i \in 1 .. n |-> 0], 0)
      OBVIOUS
    <3> QED BY <3>1
  <2>2. ASSUME NEW k \in Nat, k \in S PROVE k + 1 \in S
    <3> SUFFICES ASSUME k + 1 <= n
                 PROVE  \E f : f = [i \in 1 .. n |-> f[i]] /\ Solved(f, k + 1)
      OBVIOUS
    <3> PICK f : f = [i \in 1 .. n |-> f[i]] /\ Solved(f, k)
      BY <2>2
    <3> DEFINE h == [i \in 1 .. n |-> IF i = k + 1 THEN FlattenStep(parts, f, i) ELSE f[i]]
    <3>1. ASSUME NEW i \in 1 .. n, i <= k + 1 PROVE h[i] = FlattenStep(parts, h, i)
      <4>1. i # 1 => h[i - 1] = f[i - 1]
        BY <3>1
      <4>2. h[i] = FlattenStep(parts, f, i)
        BY <2>2, <3>1
      <4> HIDE DEF h
      <4> QED BY <4>1, <4>2 DEF FlattenStep
    <3>2. h = [i \in 1 .. n |-> h[i]]
      OBVIOUS
    <3> HIDE DEF h
    <3> QED BY <3>1, <3>2
  <2>3. n \in S
    <3> HIDE DEF S
    <3> QED BY <2>1, <2>2, Upward
  <2>4. PICK f : f = [i \in 1 .. n |-> f[i]] /\ Solved(f, n)
    BY <2>3
  <2>5. \A i \in 1 .. n : f[i] = FlattenStep(parts, f, i)
    BY <2>4
  <2> QED BY <2>4, <2>5
<1>2. flatten = [i \in 1 .. n |-> FlattenStep(parts, flatten, i)]
  BY <1>0, <1>1
<1>3. FlattenSeq(parts) = flatten[n]
  <2>0. Len(parts) # 0
    BY <1>0
  <2>1. FlattenSeq(parts) = flatten[Len(parts)]
    BY <2>0, Zenon DEF FlattenSeq, FlattenStep
  <2> QED BY <1>0, <2>1
<1> HIDE DEF flatten
<1>4. flatten[1] = parts[1] /\ \A i \in 1 .. n - 1 : flatten[i + 1] = flatten[i] \o parts[i + 1]
  <2>1. \A i \in 1 .. n : flatten[i] = FlattenStep(parts, flatten, i)
    BY <1>2
  <2>2. flatten[1] = parts[1]
    BY <1>0, <2>1 DEF FlattenStep
  <2>3. ASSUME NEW i \in 1 .. n - 1 PROVE flatten[i + 1] = flatten[i] \o parts[i + 1]
    <3>1. PICK j \in 1 .. n : j = i + 1
      OBVIOUS
    <3>2. j # 1 /\ j - 1 = i
      BY <3>1
    <3>3. flatten[j] = flatten[j - 1] \o parts[j]
      BY <2>1, <3>2, FlattenStepIs
    <3> QED BY <3>1, <3>2, <3>3
  <2> QED BY <2>2, <2>3
<1>5. \A i \in 1 .. n : flatten[i] \in Seq(A)
  <2> DEFINE S == {k \in Nat : k + 1 <= n => flatten[k + 1] \in Seq(A)}
  <2>1. 0 \in S
    BY <1>0, <1>4
  <2>2. ASSUME NEW k \in Nat, k \in S PROVE k + 1 \in S
    <3> SUFFICES ASSUME k + 2 <= n PROVE flatten[k + 2] \in Seq(A)
      OBVIOUS
    <3>1. flatten[k + 1] \in Seq(A) /\ parts[k + 2] \in Seq(A)
      BY <2>2
    <3>2. flatten[k + 2] = flatten[k + 1] \o parts[k + 2]
      <4>1. k + 1 \in 1 .. n - 1 /\ k + 1 + 1 = k + 2
        OBVIOUS
      <4> QED BY <1>4, <4>1
    <3> QED BY <3>1, <3>2
  <2>3. \A k \in Nat : k \in S
    <3> HIDE DEF S
    <3> QED BY <2>1, <2>2, Upward
  <2>4. ASSUME NEW i \in 1 .. n PROVE flatten[i] \in Seq(A)
    <3>0. i - 1 \in Nat /\ i - 1 + 1 = i
      OBVIOUS
    <3>1. i - 1 \in S
      <4> HIDE DEF S
      <4> QED BY <2>3, <3>0
    <3> QED BY <3>0, <3>1
  <2> QED BY <2>4
<1>6. FlattenSteps(parts, flatten)
  BY <1>0, <1>3, <1>4 DEF FlattenSteps
<1> QED BY <1>5, <1>6

\* Where each part of a sequence of sequences ends in their concatenation.
LEMMA Flattened ==
  ASSUME NEW A, NEW n \in Nat, NEW parts \in [1 .. n -> Seq(A)]
  PROVE  /\ FlattenSeq(parts) \in Seq(A)
         /\ \E pos : PartsEnd(n, parts, FlattenSeq(parts), pos)
<1>1. Len(parts) = n
  OBVIOUS
<1>2. CASE n = 0
  <2>1. FlattenSeq(parts) = parts /\ parts = <<>>
    BY <1>1, <1>2 DEF FlattenSeq
  <2> DEFINE pos == [k \in 0 .. n |-> 0]
  <2>2. pos \in [0 .. n -> Nat] /\ pos[0] = 0 /\ pos[n] = 0
    BY <1>2
  <2>3. 1 .. n = {} /\ Len(<<>>) = 0 /\ <<>> \in Seq(A)
    BY <1>2
  <2> HIDE DEF pos
  <2>4. PartsEnd(n, parts, FlattenSeq(parts), pos)
    BY <2>1, <2>2, <2>3 DEF PartsEnd
  <2> QED BY <2>1, <2>3, <2>4
<1>3. CASE n > 0
  <2>1. PICK flatten : FlattenSteps(parts, flatten) /\ \A i \in 1 .. n : flatten[i] \in Seq(A)
    BY <1>3, FlattenSolved
  <2>3. FlattenSeq(parts) = flatten[n]
    BY <1>1, <2>1 DEF FlattenSteps
  <2>4. flatten[1] = parts[1] /\ \A i \in 1 .. n - 1 : flatten[i + 1] = flatten[i] \o parts[i + 1]
    BY <1>1, <2>1 DEF FlattenSteps
  <2>5. \A i \in 1 .. n : flatten[i] \in Seq(A)
    BY <2>1
  <2>6. \A k \in 1 .. n : \A i \in 1 .. Len(flatten[k]) :
          Len(flatten[k]) <= Len(flatten[n]) /\ flatten[n][i] = flatten[k][i]
    <3> DEFINE S == {k \in 1 .. n : Len(flatten[k]) <= Len(flatten[n]) /\
                       \A i \in 1 .. Len(flatten[k]) : flatten[n][i] = flatten[k][i]}
    <3>1. ASSUME NEW k \in 1 .. n, \A j \in 1 .. n : j > k => j \in S PROVE k \in S
      <4>1. CASE k = n
        BY <2>5, <4>1
      <4>2. CASE k < n
        <5>1. k + 1 \in S
          BY <3>1, <4>2
        <5>2. flatten[k + 1] = flatten[k] \o parts[k + 1]
          <6>1. k \in 1 .. n - 1
            BY <4>2
          <6> QED BY <2>4, <6>1
        <5>3. flatten[k] \in Seq(A) /\ parts[k + 1] \in Seq(A)
          BY <2>5, <4>2
        <5>4. /\ Len(flatten[k]) <= Len(flatten[k + 1])
              /\ \A i \in 1 .. Len(flatten[k]) : flatten[k + 1][i] = flatten[k][i]
          <6>1. PICK u, v, w : u = flatten[k] /\ v = parts[k + 1] /\ w = flatten[k + 1]
            OBVIOUS
          <6>2. u \in Seq(A) /\ v \in Seq(A) /\ w = u \o v
            BY <5>2, <5>3, <6>1
          <6>3. Len(u) <= Len(w) /\ \A i \in 1 .. Len(u) : w[i] = u[i]
            BY <6>2, Concat
          <6> QED BY <6>1, <6>3
        <5>5. Len(flatten[k]) \in Nat /\ Len(flatten[k + 1]) \in Nat /\ Len(flatten[n]) \in Nat
          BY <2>5, <4>2
        <5> QED BY <5>1, <5>4, <5>5
      <4> QED BY <4>1, <4>2
    <3> HIDE DEF S
    <3>2. \A k \in 1 .. n : k \in S
      BY <3>1, Downward
    <3> QED BY <3>2 DEF S
  <2> DEFINE pos == [k \in 0 .. n |-> IF k = 0 THEN 0 ELSE Len(flatten[k])]
  <2>7. pos \in [0 .. n -> Nat] /\ pos[0] = 0 /\ pos[n] = Len(FlattenSeq(parts))
    BY <1>3, <2>3, <2>5
  <2>8. ASSUME NEW k \in 1 .. n
        PROVE  /\ pos[k] = pos[k - 1] + Len(parts[k])
               /\ \A d \in 1 .. Len(parts[k]) :
                    FlattenSeq(parts)[pos[k - 1] + d] = parts[k][d]
    <3>1. CASE k = 1
      <4>1. pos[k] = Len(flatten[1]) /\ pos[k - 1] = 0 /\ flatten[1] = parts[1]
        BY <1>3, <2>4, <3>1
      <4>2. Len(parts[1]) \in Nat
        BY <1>3
      <4>3. \A i \in 1 .. Len(flatten[1]) : flatten[n][i] = flatten[1][i]
        <5>1. 1 \in 1 .. n
          BY <1>3
        <5> QED BY <2>6, <5>1, Zenon
      <4> HIDE DEF pos
      <4> QED BY <2>3, <3>1, <4>1, <4>2, <4>3
    <3>2. CASE k > 1
      <4>1. flatten[k] = flatten[k - 1] \o parts[k]
        <5>1. k - 1 \in 1 .. n - 1 /\ k - 1 + 1 = k
          BY <3>2
        <5> QED BY <2>4, <5>1
      <4>0. pos[k - 1] = Len(flatten[k - 1])
        BY <3>2
      <4>2. flatten[k - 1] \in Seq(A) /\ parts[k] \in Seq(A) /\ pos[k] = Len(flatten[k])
        BY <2>5, <3>2
      <4>3. \A i \in 1 .. Len(flatten[k]) : flatten[n][i] = flatten[k][i]
        BY <2>6
      <4> HIDE DEF pos
      <4>4. /\ Len(flatten[k]) = Len(flatten[k - 1]) + Len(parts[k])
            /\ \A d \in 1 .. Len(parts[k]) : flatten[k][Len(flatten[k - 1]) + d] = parts[k][d]
        BY <4>1, <4>2, Concat
      <4>5. pos[k] = pos[k - 1] + Len(parts[k])
        BY <4>0, <4>2, <4>4
      <4>6. ASSUME NEW d \in 1 .. Len(parts[k])
            PROVE  flatten[n][pos[k - 1] + d] = parts[k][d]
        <5>1. PICK l \in Nat, p \in Nat : l = Len(flatten[k - 1]) /\ p = Len(parts[k])
          BY <4>2, LenProperties
        <5>2. l + d \in 1 .. Len(flatten[k])
          BY <4>4, <5>1
        <5>3. flatten[n][l + d] = flatten[k][l + d]
          BY <4>3, <5>2
        <5> QED BY <4>0, <4>4, <5>1, <5>3
      <4> QED BY <2>3, <4>5, <4>6, Zenon
    <3> HIDE DEF pos
    <3> QED BY <3>1, <3>2
  <2> HIDE DEF pos
  <2>9. FlattenSeq(parts) \in Seq(A)
    BY <1>3, <2>3, <2>5
  <2>10. PartsEnd(n, parts, FlattenSeq(parts), pos)
    BY <2>7, <2>8, Zenon DEF PartsEnd
  <2> QED BY <2>9, <2>10, Zenon
<1>4. n = 0 \/ n > 0
  OBVIOUS
<1> QED BY <1>2, <1>3, <1>4, Zenon

\* The text s, in quotes, lies in y: the quotes open before pos[0] + 1, and the k-th
\* character of s, or what stands for it, ends at pos[k].
Laid(s, y, pos) ==
  /\ pos \in [0 .. Len(s) -> Nat \ {0}]
  /\ pos[Len(s)] + 1 <= Len(y)
  /\ y[pos[0]] = "'" /\ y[pos[Len(s)] + 1] = "'"
  /\ \A k \in 1 .. Len(s) : s[k] # "'" => pos[k] = pos[k - 1] + 1 /\ y[pos[k]] = s[k]
  /\ \A k \in 1 .. Len(s) : s[k] = "'" =>
       /\ pos[k] = pos[k - 1] + 5
       /\ y[pos[k - 1] + 1] = "'" /\ y[pos[k - 1] + 2] = DoubleQuote
       /\ y[pos[k - 1] + 3] = "'" /\ y[pos[k - 1] + 4] = DoubleQuote
       /\ y[pos[k - 1] + 5] = "'"

\* Quote lays out a text that is not plain.
LEMMA QuoteLays ==
  ASSUME NEW C, NEW s \in Seq(C), ~NeedsNoQuotes(s)
  PROVE  /\ Quote(s) \in Seq(C \cup {"'", DoubleQuote})
         /\ \E pos : /\ Laid(s, Quote(s), pos)
                     /\ pos[0] = 1 /\ Len(Quote(s)) = pos[Len(s)] + 1
<1> PICK n \in Nat : n = Len(s)
  BY LenProperties
<1> DEFINE A     == C \cup {"'", DoubleQuote}
           parts == [i \in 1 .. n |-> InQuotes(s[i])]
           F     == FlattenSeq(parts)
<1>1. ASSUME NEW k \in 1 .. n
      PROVE  /\ parts[k] \in Seq(A)
             /\ s[k] # "'" => parts[k] = <<s[k]>> /\ Len(parts[k]) = 1
             /\ s[k] = "'" => /\ parts[k] = <<"'", DoubleQuote, "'", DoubleQuote, "'">>
                              /\ Len(parts[k]) = 5
  <2>1. s[k] \in A /\ "'" \in A /\ DoubleQuote \in A
    BY ElementOfSeq
  <2> HIDE DEF A
  <2>2. CASE s[k] # "'"
    <3>1. parts[k] = <<s[k]>>
      BY <2>2 DEF InQuotes
    <3> HIDE DEF parts
    <3> QED BY <2>1, <2>2, <3>1
  <2>3. CASE s[k] = "'"
    <3>1. parts[k] = <<"'", DoubleQuote, "'", DoubleQuote, "'">>
      BY <2>3 DEF InQuotes
    <3> HIDE DEF parts
    <3>2. <<"'", DoubleQuote, "'", DoubleQuote, "'">> \in Seq(A)
      BY <2>1
    <3>3. Len(<<"'", DoubleQuote, "'", DoubleQuote, "'">>) = 5
      OBVIOUS
    <3> QED BY <2>3, <3>1, <3>2, <3>3, Zenon
  <2> QED BY <2>2, <2>3
<1>2. parts \in [1 .. n -> Seq(A)]
  BY <1>1
<1> HIDE DEF parts
<1>3. F \in Seq(A) /\ \E pos : PartsEnd(n, parts, F, pos)
  <2> HIDE DEF A
  <2> QED BY <1>2, Flattened DEF F
<1> HIDE DEF F
<1>4. PICK end \in [0 .. n -> Nat] :
              /\ end[0] = 0 /\ end[n] = Len(F)
              /\ \A k \in 1 .. n : end[k] = end[k - 1] + Len(parts[k])
              /\ \A k \in 1 .. n : \A d \in 1 .. Len(parts[k]) :
                   F[end[k - 1] + d] = parts[k][d]
  BY <1>3 DEF PartsEnd
<1>5. Quote(s) = <<"'">> \o F \o <<"'">>
  BY DEF Quote, F, parts
<1> DEFINE u == <<"'">> \o F
           q == Quote(s)
           pos == [k \in 0 .. n |-> end[k] + 1]
<1>6. <<"'">> \in Seq(A) /\ Len(<<"'">>) = 1 /\ <<"'">>[1] = "'"
  OBVIOUS
<1>7. /\ u \in Seq(A) /\ Len(u) = Len(F) + 1 /\ u[1] = "'"
      /\ \A i \in 1 .. Len(F) : u[i + 1] = F[i]
  BY <1>3, <1>6, Concat
<1>8. /\ q \in Seq(A) /\ Len(q) = Len(F) + 2 /\ q[1] = "'" /\ q[Len(F) + 2] = "'"
      /\ \A i \in 1 .. Len(F) : q[i + 1] = F[i]
  <2> HIDE DEF u
  <2>1. PICK l \in Nat : l = Len(F)
    BY <1>3, LenProperties
  <2>2. q = u \o <<"'">>
    BY <1>5 DEF u
  <2> HIDE DEF q
  <2>3. /\ q \in Seq(A) /\ Len(q) = Len(u) + 1
        /\ \A i \in 1 .. Len(u) : q[i] = u[i]
        /\ \A d \in 1 .. 1 : q[Len(u) + d] = <<"'">>[d]
    BY <1>6, <1>7, <2>2, Concat
  <2>4. q[l + 2] = "'"
    BY <1>6, <1>7, <2>1, <2>3
  <2>5. \A i \in 1 .. l : i + 1 \in 1 .. Len(u)
    BY <1>7, <2>1
  <2> QED BY <1>7, <2>1, <2>3, <2>4, <2>5
<1>9. \A k \in 0 .. n : end[k] <= Len(F)
  <2> DEFINE S == {i \in 1 .. n + 1 : end[i - 1] <= Len(F)}
  <2>1. ASSUME NEW i \in 1 .. n + 1, \A j \in 1 .. n + 1 : j > i => j \in S PROVE i \in S
    <3>1. CASE i = n + 1
      BY <1>4, <3>1
    <3>2. CASE i < n + 1
      <4>0. i \in 1 .. n /\ i + 1 \in 1 .. n + 1 /\ i + 1 > i
        BY <3>2
      <4>1. i + 1 \in S
        <5> HIDE DEF S
        <5> QED BY <2>1, <4>0
      <4>2. Len(parts[i]) \in Nat /\ end[i] = end[i - 1] + Len(parts[i])
        BY <1>1, <1>4, <4>0
      <4>3. end[i] <= Len(F)
        BY <4>0, <4>1
      <4>4. PICK a \in Nat, b \in Nat, l \in Nat : a = end[i - 1] /\ b = end[i] /\ l = Len(F)
        <5>1. Len(F) \in Nat
          BY <1>3, LenProperties
        <5>2. i \in 0 .. n /\ i - 1 \in 0 .. n
          BY <4>0
        <5> QED BY <5>1, <5>2
      <4> QED BY <4>2, <4>3, <4>4
    <3> QED BY <3>1, <3>2
  <2>2. \A i \in 1 .. n + 1 : i \in S
    <3>1. n + 1 \in Nat
      OBVIOUS
    <3> HIDE DEF S
    <3> QED BY <2>1, <3>1, Downward
  <2>3. ASSUME NEW k \in 0 .. n PROVE end[k] <= Len(F)
    <3>0. k + 1 \in 1 .. n + 1 /\ k + 1 - 1 = k
      OBVIOUS
    <3>1. k + 1 \in S
      <4> HIDE DEF S
      <4> QED BY <2>2, <3>0
    <3> QED BY <3>0, <3>1
  <2> QED BY <2>3
<1>10. PICK l \in Nat : l = Len(F)
  BY <1>3, LenProperties
<1> HIDE DEF q
<1>11. pos \in [0 .. n -> Nat \ {0}] /\ \A k \in 0 .. n : pos[k] = end[k] + 1
  OBVIOUS
<1>12. pos[0] = 1 /\ pos[n] = l + 1 /\ Len(q) = pos[n] + 1
  BY <1>4, <1>8, <1>10
<1>13. ASSUME NEW k \in 1 .. n, NEW d \in 1 .. Len(parts[k])
       PROVE  /\ pos[k] = pos[k - 1] + Len(parts[k])
              /\ q[pos[k - 1] + d] = parts[k][d]
  <2>1. PICK a \in Nat, b \in Nat, p \in Nat :
          a = end[k - 1] /\ b = end[k] /\ p = Len(parts[k])
    <3>1. k - 1 \in 0 .. n /\ k \in 0 .. n /\ Len(parts[k]) \in Nat
      BY <1>1
    <3> QED BY <3>1
  <2>2. b = a + p /\ b <= l /\ F[a + d] = parts[k][d] /\ pos[k - 1] = a + 1
    BY <1>4, <1>9, <1>10, <2>1
  <2>3. a + d \in 1 .. l
    <3>1. d \in 1 .. p
      BY <2>1
    <3>2. a + p <= l
      BY <2>2
    <3> HIDE DEF parts
    <3> QED BY <3>1, <3>2
  <2>4. q[a + d + 1] = F[a + d]
    BY <1>8, <1>10, <2>3
  <2>5. pos[k] = b + 1
    BY <2>1
  <2> HIDE DEF pos
  <2>6. pos[k] = pos[k - 1] + p
    BY <2>2, <2>5
  <2>7. pos[k - 1] + d = a + d + 1
    BY <2>2
  <2>8. q[pos[k - 1] + d] = parts[k][d]
    BY <2>2, <2>4, <2>7
  <2> QED BY <2>1, <2>6, <2>8
<1> HIDE DEF pos
<1>14. ASSUME NEW k \in 1 .. n, s[k] # "'"
       PROVE  pos[k] = pos[k - 1] + 1 /\ q[pos[k]] = s[k]
  <2>1. parts[k] = <<s[k]>> /\ Len(parts[k]) = 1 /\ 1 \in 1 .. 1
    BY <1>1, <1>14
  <2>2. pos[k] = pos[k - 1] + 1 /\ q[pos[k - 1] + 1] = parts[k][1]
    BY <1>13, <2>1
  <2>3. parts[k][1] = s[k]
    BY <2>1
  <2> QED BY <2>2, <2>3
<1>15. ASSUME NEW k \in 1 .. n, s[k] = "'"
       PROVE  /\ pos[k] = pos[k - 1] + 5
              /\ q[pos[k - 1] + 1] = "'" /\ q[pos[k - 1] + 2] = DoubleQuote
              /\ q[pos[k - 1] + 3] = "'" /\ q[pos[k - 1] + 4] = DoubleQuote
              /\ q[pos[k - 1] + 5] = "'"
  <2>0. Len(parts[k]) = 5 /\ 1 \in 1 .. 5
    BY <1>1, <1>15
  <2>1. pos[k] = pos[k - 1] + 5
    BY <1>13, <2>0
  <2>2. \A d \in 1 .. 5 : q[pos[k - 1] + d] = parts[k][d]
    BY <1>1, <1>13, <1>15
  <2>3. /\ parts[k][1] = "'" /\ parts[k][2] = DoubleQuote /\ parts[k][3] = "'"
        /\ parts[k][4] = DoubleQuote /\ parts[k][5] = "'"
    BY <1>1, <1>15
  <2> QED BY <2>1, <2>2, <2>3
<1>16. Laid(s, q, pos)
  <2>1. pos \in [0 .. n -> Nat \ {0}] /\ pos[n] + 1 <= Len(q)
    BY <1>8, <1>10, <1>11, <1>12
  <2>2. q[pos[0]] = "'" /\ q[pos[n] + 1] = "'"
    BY <1>8, <1>10, <1>12
  <2> QED BY <1>14, <1>15, <2>1, <2>2 DEF Laid
<1> QED BY <1>8, <1>12, <1>16 DEF q

NoQuote(s, k, m) == \A i \in k + 1 .. m : s[i] # "'"
Straight(s, y, pos, k, m) ==
  \A d \in 0 .. m - k : pos[k + d] = pos[k] + d /\ (d > 0 => y[pos[k] + d] = s[k + d])

\* As long as no quote comes, the characters of a text follow each other.
LEMMA Stretch ==
  ASSUME NEW n \in Nat, NEW s, Len(s) = n, NEW y, NEW pos, Laid(s, y, pos),
         NEW k \in 0 .. n, NEW m \in k .. n, NoQuote(s, k, m)
  PROVE  Straight(s, y, pos, k, m)
<1> DEFINE S == {d \in Nat : d <= m - k =>
                   pos[k + d] = pos[k] + d /\ (d > 0 => y[pos[k] + d] = s[k + d])}
<1>0. pos[k] \in Nat
  BY DEF Laid
<1>1. 0 \in S
  BY <1>0
<1>2. ASSUME NEW d \in Nat, d \in S PROVE d + 1 \in S
  <2> SUFFICES ASSUME d + 1 <= m - k
               PROVE  pos[k + (d + 1)] = pos[k] + (d + 1) /\ y[pos[k] + (d + 1)] = s[k + (d + 1)]
    OBVIOUS
  <2>1. pos[k + d] = pos[k] + d
    BY <1>2
  <2>2. PICK j \in 1 .. n : j = k + d + 1
    OBVIOUS
  <2>3. s[j] # "'" /\ j - 1 = k + d
    <3>1. j \in k + 1 .. m /\ j - 1 = k + d
      BY <2>2
    <3> QED BY <3>1 DEF NoQuote
  <2>4. pos[j] = pos[j - 1] + 1 /\ y[pos[j]] = s[j]
    BY <2>3 DEF Laid
  <2>5. pos[j] = pos[k] + (d + 1) /\ k + (d + 1) = j
    BY <1>0, <2>1, <2>2, <2>3, <2>4
  <2> QED BY <2>4, <2>5
<1>3. \A d \in Nat : d \in S
  <2> HIDE DEF S
  <2> QED BY <1>1, <1>2, Upward
<1>4. ASSUME NEW d \in 0 .. m - k
      PROVE  pos[k + d] = pos[k] + d /\ (d > 0 => y[pos[k] + d] = s[k + d])
  <2>1. d \in S
    <3> HIDE DEF S
    <3> QED BY <1>3
  <2> QED BY <2>1
<1> QED BY <1>4 DEF Straight

\* The text ends in y after each of its characters.
LEMMA LaidThere ==
  ASSUME NEW n \in Nat, NEW s, Len(s) = n, NEW y, NEW pos, Laid(s, y, pos), NEW k \in 0 .. n
  PROVE  pos[k] \in 1 .. pos[n] /\ pos[n] \in Nat /\ pos[n] + 1 <= Len(y)
<1>0. \A i \in 0 .. n : pos[i] \in Nat \ {0}
  BY DEF Laid
<1> DEFINE S == {i \in 1 .. n + 1 : pos[i - 1] <= pos[n]}
<1>1. ASSUME NEW i \in 1 .. n + 1, \A j \in 1 .. n + 1 : j > i => j \in S PROVE i \in S
  <2>1. CASE i = n + 1
    BY <1>0, <2>1
  <2>2. CASE i < n + 1
    <3>1. i \in 1 .. n /\ i + 1 \in 1 .. n + 1 /\ i + 1 > i
      BY <2>2
    <3>2. i + 1 \in S
      <4> HIDE DEF S
      <4> QED BY <1>1, <3>1
    <3>3. pos[i] <= pos[n]
      BY <3>1, <3>2
    <3>4. pos[i] = pos[i - 1] + 1 \/ pos[i] = pos[i - 1] + 5
      BY <3>1 DEF Laid
    <3>5. pos[i] \in Nat /\ pos[i - 1] \in Nat /\ pos[n] \in Nat
      BY <1>0, <3>1
    <3> QED BY <3>3, <3>4, <3>5
  <2> QED BY <2>1, <2>2
<1>2. n + 1 \in Nat /\ k + 1 \in 1 .. n + 1 /\ k + 1 - 1 = k
  OBVIOUS
<1>3. k + 1 \in S
  <2> HIDE DEF S
  <2> QED BY <1>1, <1>2, Downward
<1>4. pos[k] \in 1 .. pos[n]
  BY <1>0, <1>2, <1>3
<1> HIDE DEF S
<1> QED BY <1>0, <1>4 DEF Laid

\* The quotes that open before the character k + 1 close before the next quote of the
\* text or after the text, and nothing but the text is between.
OpenClose(s, y, pos, k, m) ==
  /\ m \in k .. Len(s) /\ (m < Len(s) => s[m + 1] = "'")
  /\ SingleClose(y, pos[k] + 1) = pos[m] + 1 /\ y[pos[m] + 1] = "'"
  /\ pos[m] = pos[k] + (m - k)
  /\ \A d \in 1 .. m - k : y[pos[k] + d] = s[k + d]

LEMMA NextClose ==
  ASSUME NEW n \in Nat, NEW s, Len(s) = n, NEW z \in Nat, NEW y, Len(y) = z, NEW pos,
         Laid(s, y, pos), NEW k \in 0 .. n
  PROVE  \E m \in k .. n : OpenClose(s, y, pos, k, m)
<1> DEFINE quotes == {j \in k + 1 .. n : s[j] = "'"} \cup {n + 1}
<1>1. quotes \in SUBSET Nat /\ quotes # {}
  OBVIOUS
<1>2. PICK j \in quotes : \A i \in quotes : j <= i
  <2> HIDE DEF quotes
  <2> QED BY <1>1, Smallest
<1>3. PICK m \in k .. n : j = m + 1
  BY <1>2
<1>4. ASSUME NEW i \in k + 1 .. m PROVE s[i] # "'"
  BY <1>2, <1>3, <1>4
<1>5. \A d \in 0 .. m - k :
        pos[k + d] = pos[k] + d /\ (d > 0 => y[pos[k] + d] = s[k + d])
  <2> HIDE DEF quotes
  <2>1. NoQuote(s, k, m)
    BY <1>4 DEF NoQuote
  <2>2. Straight(s, y, pos, k, m)
    BY <2>1, Stretch
  <2> QED BY <2>2 DEF Straight
<1>6. m < n => s[m + 1] = "'"
  BY <1>2, <1>3
<1>7. pos[m] = pos[k] + (m - k)
  <2>1. m - k \in 0 .. m - k /\ k + (m - k) = m
    OBVIOUS
  <2> QED BY <1>5, <2>1
<1>8. \A d \in 1 .. m - k : y[pos[k] + d] = s[k + d]
  <2>1. \A d \in 1 .. m - k : d \in 0 .. m - k /\ d > 0
    OBVIOUS
  <2> QED BY <1>5, <2>1
<1>9. y[pos[m] + 1] = "'"
  <2>1. CASE m = n
    BY <2>1 DEF Laid
  <2>2. CASE m < n
    <3>1. m + 1 \in 1 .. n /\ m + 1 - 1 = m
      BY <2>2
    <3> QED BY <1>6, <2>2, <3>1 DEF Laid
  <2> QED BY <2>1, <2>2
<1>10. SingleClose(y, pos[k] + 1) = pos[m] + 1
  <2>0. pos[k] \in Nat /\ pos[m] \in Nat /\ pos[n] \in Nat
    BY DEF Laid
  <2>1. PICK a \in Nat, b \in Nat, c \in Nat : a = pos[k] /\ b = pos[m] /\ c = pos[n]
    BY <2>0
  <2>2. b <= c /\ c + 1 <= z /\ b = a + (m - k)
    <3>1. m \in 0 .. n
      OBVIOUS
    <3>2. pos[m] \in 1 .. pos[n]
      BY <3>1, LaidThere
    <3>3. pos[n] + 1 <= z
      BY DEF Laid
    <3> QED BY <1>7, <2>1, <3>2, <3>3
  <2>3. b + 1 \in a + 1 .. z /\ a + 1 \in Nat \ {0}
    BY <2>2
  <2>4. ASSUME NEW i \in a + 1 .. (b + 1) - 1 PROVE y[i] # "'"
    <3>1. PICK d \in 1 .. m - k : i = a + d
      <4>1. i - a \in 1 .. m - k /\ i = a + (i - a)
        BY <2>2
      <4> QED BY <4>1
    <3>2. y[i] = s[k + d] /\ k + d \in k + 1 .. m
      BY <1>8, <2>1, <3>1
    <3> QED BY <1>4, <3>2
  <2>5. y[b + 1] = "'"
    BY <1>9, <2>1
  <2>6. NextIs(y, a + 1, "'") = b + 1
    BY <2>3, <2>4, <2>5, NextIsThere
  <2> QED BY <2>1, <2>6 DEF SingleClose
<1> QED BY <1>6, <1>7, <1>8, <1>9, <1>10 DEF OpenClose

\* No word ends before one of these characters.
LEMMA WordWithin ==
  ASSUME NEW z \in Nat, NEW y, Len(y) = z, NEW p \in 1 .. z,
         y[p] \in {"'", "a", "=", "/", DoubleQuote}
  PROVE  ~EndsWord(y, p)
<1>1. DoubleQuote \notin OpChars /\ DoubleQuote \notin Blanks /\ DoubleQuote # "#"
  BY Zenon DEF DoubleQuote, OpChars, Blanks
<1>2. y[p] \notin OpChars /\ y[p] \notin Blanks /\ y[p] # "#"
  BY <1>1 DEF OpChars, Blanks
<1>3. OperatorAt(y, p) = 0
  BY <1>2, OperatorThere
<1> QED BY <1>2, <1>3 DEF EndsWord

Opens(s, k) == k = 0 \/ s[k] = "'"

\* A position at which single quotes open.
LEMMA OpensThere ==
  ASSUME NEW n \in Nat, NEW s, Len(s) = n, NEW z \in Nat, NEW y, Len(y) = z, NEW pos,
         Laid(s, y, pos), NEW k \in 0 .. n, Opens(s, k)
  PROVE  pos[k] \in 1 .. z /\ y[pos[k]] = "'"
<1>1. pos[k] \in 1 .. pos[n] /\ pos[n] \in Nat /\ pos[n] + 1 <= z
  BY LaidThere
<1>2. CASE k = 0
  BY <1>1, <1>2 DEF Laid
<1>3. CASE k # 0
  <2>1. k \in 1 .. n /\ s[k] = "'"
    BY <1>3 DEF Opens
  <2>2. pos[k] = pos[k - 1] + 5 /\ y[pos[k - 1] + 5] = "'"
    BY <2>1 DEF Laid
  <2> QED BY <1>1, <2>2
<1> QED BY <1>2, <1>3

\* What stands for a quote of the text, from where the single quotes close before it.
QuoteAt(y, pos, m, c) ==
  /\ c = pos[m] + 1 /\ c + 4 <= Len(y) /\ pos[m + 1] = c + 4
  /\ y[c] = "'" /\ y[c + 1] = DoubleQuote /\ y[c + 2] = "'"
  /\ y[c + 3] = DoubleQuote /\ y[c + 4] = "'"

LEMMA QuoteThere ==
  ASSUME NEW n \in Nat, NEW s, Len(s) = n, NEW z \in Nat, NEW y, Len(y) = z, NEW pos,
         Laid(s, y, pos), NEW m \in 0 .. n, m < n, s[m + 1] = "'"
  PROVE  \E c \in 1 .. z : QuoteAt(y, pos, m, c)
<1>1. PICK j \in 1 .. n : j = m + 1
  OBVIOUS
<1>2. j \in 0 .. n /\ m = j - 1 /\ s[j] = "'"
  BY <1>1
<1>3. /\ pos[j] = pos[j - 1] + 5
      /\ y[pos[j - 1] + 1] = "'" /\ y[pos[j - 1] + 2] = DoubleQuote
      /\ y[pos[j - 1] + 3] = "'" /\ y[pos[j - 1] + 4] = DoubleQuote
      /\ y[pos[j - 1] + 5] = "'"
  BY <1>2 DEF Laid
<1>4. pos[j] \in 1 .. pos[n] /\ pos[m] \in 1 .. pos[n] /\ pos[n] \in Nat /\ pos[n] + 1 <= z
  BY <1>2, LaidThere
<1>5. PICK c \in 1 .. z : c = pos[m] + 1
  BY <1>4
<1>6. c + 4 <= z /\ pos[m + 1] = c + 4
  <2>1. PICK p \in Nat, r \in Nat, l \in Nat : p = pos[m] /\ r = pos[j] /\ l = pos[n]
    BY <1>4
  <2>2. r = p + 5 /\ c = p + 1 /\ r <= l /\ l + 1 <= z
    BY <1>2, <1>3, <1>4, <1>5, <2>1
  <2>3. c + 4 <= z /\ r = c + 4
    BY <2>2
  <2> QED BY <1>1, <2>1, <2>3
<1>7. /\ y[c] = "'" /\ y[c + 1] = DoubleQuote /\ y[c + 2] = "'"
      /\ y[c + 3] = DoubleQuote /\ y[c + 4] = "'"
  <2>1. PICK p \in Nat : p = pos[m]
    BY <1>4
  <2>2. c = p + 1 /\ c + 1 = p + 2 /\ c + 2 = p + 3 /\ c + 3 = p + 4 /\ c + 4 = p + 5
    <3>1. c = p + 1
      BY <1>5, <2>1
    <3> QED BY <3>1
  <2> QED BY <1>2, <1>3, <2>1, <2>2
<1> QED BY <1>5, <1>6, <1>7 DEF QuoteAt

\* A quoted text is one word.
LEMMA QuotedWord ==
  ASSUME NEW A, NEW y \in Seq(A), NEW z \in Nat, Len(y) = z, NEW n \in Nat, NEW s,
         Len(s) = n, NEW pos, Laid(s, y, pos), EndsWord(y, pos[n] + 2)
  PROVE  LexWord(y, pos[0]) = [raw |-> SubSeq(y, pos[0], pos[n] + 1), at |-> pos[n] + 2]
<1>1. PICK e \in 1 .. z : e = pos[n] + 1
  <2>1. pos[n] \in Nat /\ pos[n] + 1 <= z
    BY DEF Laid
  <2> QED BY <2>1
<1>2. ASSUME NEW i \in 1 .. z + 1 PROVE SubSeq(y, i, e) \in Seq(A)
  <2>1. \A j \in i .. e : y[j] \in A
    BY ElementOfSeq
  <2> QED BY <2>1, SubSeqProperties
<1> DEFINE Whole(i) == LexWord(y, i) = [raw |-> SubSeq(y, i, e), at |-> e + 1]
           S == {j \in 1 .. n + 1 : Opens(s, j - 1) => Whole(pos[j - 1])}
<1>3. ASSUME NEW k \in 0 .. n, Opens(s, k),
             \A m \in 0 .. n : m > k /\ Opens(s, m) => Whole(pos[m])
      PROVE  Whole(pos[k])
  <2>1. pos[k] \in 1 .. z /\ y[pos[k]] = "'"
    BY <1>3, OpensThere
  <2>2. PICK p \in 1 .. z : p = pos[k]
    BY <2>1
  <2>3. PICK m \in k .. n : OpenClose(s, y, pos, k, m)
    BY NextClose
  <2>4. PICK c \in p + 1 .. e : c = pos[m] + 1 /\ SingleClose(y, p + 1) = c
    <3>1. m \in 0 .. n /\ pos[m] \in 1 .. pos[n]
      BY <2>3, LaidThere
    <3>2. pos[m] = p + (m - k) /\ SingleClose(y, p + 1) = pos[m] + 1
      BY <2>2, <2>3 DEF OpenClose
    <3>3. pos[m] + 1 \in p + 1 .. e
      <4>1. PICK b \in Nat, l \in Nat : b = pos[m] /\ l = pos[n]
        BY <3>1 DEF Laid
      <4> QED BY <1>1, <3>1, <3>2, <4>1
    <3> QED BY <3>2, <3>3
  <2>5. LexWord(y, p) = Then(SubSeq(y, p, c), LexWord(y, c + 1))
    <3>1. ~EndsWord(y, p) /\ y[p] = "'"
      BY <2>1, <2>2, WordWithin
    <3>2. p \in 1 .. z + 1 /\ c # 0
      BY <2>4
    <3>3. LexRules(y, p)
      BY <3>2, LexWordIs
    <3> QED BY <2>4, <3>1, <3>2, <3>3 DEF LexRules
  <2>6. CASE m = n
    <3>0. pos[n] \in Nat
      BY DEF Laid
    <3>1. c = e /\ c + 1 = pos[n] + 2 /\ c + 1 \in 1 .. z + 1
      BY <1>1, <2>4, <2>6, <3>0
    <3>2. LexWord(y, c + 1) = [raw |-> <<>>, at |-> c + 1]
      <4>1. EndsWord(y, c + 1) /\ LexRules(y, c + 1)
        BY <3>1, LexWordIs
      <4> QED BY <4>1 DEF LexRules
    <3>3. SubSeq(y, p, c) \o <<>> = SubSeq(y, p, c)
      BY <1>2, <3>1, ConcatEmptySeq
    <3>4. LexWord(y, p) = [raw |-> SubSeq(y, p, c), at |-> c + 1]
      <4>1. c + 1 # 0
        OBVIOUS
      <4>2. Then(SubSeq(y, p, c), [raw |-> <<>>, at |-> c + 1])
              = [raw |-> SubSeq(y, p, c) \o <<>>, at |-> c + 1]
        BY <4>1, ThenIs
      <4> QED BY <2>5, <3>2, <3>3, <4>2
    <3> QED BY <2>2, <3>1, <3>4
  <2>7. CASE m < n
    <3>1. s[m + 1] = "'" /\ m \in 0 .. n /\ m + 1 \in 0 .. n /\ Opens(s, m + 1)
      BY <2>3, <2>7 DEF OpenClose, Opens
    <3>2. /\ c + 4 <= z /\ pos[m + 1] = c + 4
          /\ y[c] = "'" /\ y[c + 1] = DoubleQuote /\ y[c + 2] = "'"
          /\ y[c + 3] = DoubleQuote /\ y[c + 4] = "'"
      <4>1. PICK a \in 1 .. z : QuoteAt(y, pos, m, a)
        BY <2>7, <3>1, QuoteThere
      <4>2. a = c
        BY <2>4, <4>1 DEF QuoteAt
      <4> QED BY <4>1, <4>2 DEF QuoteAt
    <3>3. DoubleClose(y, c + 2) = c + 3
      <4>1. c + 2 \in 1 .. z + 1 /\ c + 3 \in 1 .. z + 1 /\ c + 2 <= z /\ c + 3 <= z
            /\ c + 2 + 1 = c + 3
        BY <3>2
      <4>2. DoubleClose(y, c + 2) = DoubleClose(y, c + 3)
        <5>1. y[c + 2] \notin {DoubleQuote, "\\"}
          BY <3>2, Zenon DEF DoubleQuote
        <5> QED BY <4>1, <5>1, DoubleCloseThere
      <4>3. DoubleClose(y, c + 3) = c + 3
        BY <3>2, <4>1, DoubleCloseThere
      <4> QED BY <4>2, <4>3
    <3>4. LexWord(y, c + 1) = Then(SubSeq(y, c + 1, c + 3), LexWord(y, c + 4))
      <4>1. c + 1 \in 1 .. z + 1 /\ c + 1 \in 1 .. z /\ c + 1 + 1 = c + 2 /\ c + 3 + 1 = c + 4
            /\ c + 3 # 0
        BY <3>2
      <4>2. ~EndsWord(y, c + 1)
        BY <3>2, <4>1, WordWithin
      <4>3. LexRules(y, c + 1)
        BY <4>1, LexWordIs
      <4> QED BY <3>2, <3>3, <4>1, <4>2, <4>3 DEF LexRules
    <3>5. LexWord(y, c + 4) = [raw |-> SubSeq(y, c + 4, e), at |-> e + 1]
      <4>1. m + 1 > k
        OBVIOUS
      <4> QED BY <1>3, <3>1, <3>2, <4>1
    <3>6. c + 4 <= e
      <4>1. pos[m + 1] \in 1 .. pos[n]
        BY <3>1, LaidThere
      <4>2. pos[n] \in Nat
        BY DEF Laid
      <4> QED BY <1>1, <3>2, <4>1, <4>2
    <3>7. SubSeq(y, c + 1, c + 3) \o SubSeq(y, c + 4, e) = SubSeq(y, c + 1, e)
      <4>1. c + 1 \in 1 .. z + 1 /\ c + 3 \in c + 1 - 1 .. z /\ e \in c + 3 .. z /\ c + 3 + 1 = c + 4
        BY <3>6
      <4> QED BY <4>1, ConcatAdjacentSubSeq
    <3>8. SubSeq(y, p, c) \o SubSeq(y, c + 1, e) = SubSeq(y, p, e)
      <4>1. p \in 1 .. z + 1 /\ c \in p - 1 .. z /\ e \in c .. z
        BY <3>6
      <4> QED BY <4>1, ConcatAdjacentSubSeq
    <3>9. LexWord(y, c + 1) = [raw |-> SubSeq(y, c + 1, e), at |-> e + 1]
      <4>1. Then(SubSeq(y, c + 1, c + 3), [raw |-> SubSeq(y, c + 4, e), at |-> e + 1])
              = [raw |-> SubSeq(y, c + 1, c + 3) \o SubSeq(y, c + 4, e), at |-> e + 1]
        <5>1. e + 1 # 0
          OBVIOUS
        <5> QED BY <5>1, ThenIs
      <4> QED BY <3>4, <3>5, <3>7, <4>1
    <3>10. LexWord(y, p) = [raw |-> SubSeq(y, p, e), at |-> e + 1]
      <4>1. Then(SubSeq(y, p, c), [raw |-> SubSeq(y, c + 1, e), at |-> e + 1])
              = [raw |-> SubSeq(y, p, c) \o SubSeq(y, c + 1, e), at |-> e + 1]
        <5>1. e + 1 # 0
          OBVIOUS
        <5> QED BY <5>1, ThenIs
      <4> QED BY <2>5, <3>8, <3>9, <4>1
    <3> QED BY <2>2, <3>10
  <2> QED BY <2>6, <2>7
<1>4. ASSUME NEW j \in 1 .. n + 1, \A i \in 1 .. n + 1 : i > j => i \in S PROVE j \in S
  <2> SUFFICES ASSUME Opens(s, j - 1) PROVE Whole(pos[j - 1])
    OBVIOUS
  <2>1. ASSUME NEW m \in 0 .. n, m > j - 1, Opens(s, m) PROVE Whole(pos[m])
    <3>1. m + 1 \in 1 .. n + 1 /\ m + 1 > j /\ m + 1 - 1 = m
      BY <2>1
    <3>2. m + 1 \in S
      <4> HIDE DEF S
      <4> QED BY <1>4, <3>1
    <3> HIDE DEF Whole
    <3> QED BY <2>1, <3>1, <3>2
  <2>2. j - 1 \in 0 .. n
    OBVIOUS
  <2> HIDE DEF Whole
  <2> QED BY <1>3, <2>1, <2>2
<1>5. 1 \in S
  <2>1. n + 1 \in Nat /\ 1 \in 1 .. n + 1
    OBVIOUS
  <2> HIDE DEF S
  <2> QED BY <1>4, <2>1, Downward
<1>6. LexWord(y, pos[0]) = [raw |-> SubSeq(y, pos[0], e), at |-> e + 1]
  <2>1. 1 - 1 = 0 /\ Opens(s, 0)
    BY DEF Opens
  <2> QED BY <1>5, <2>1
<1>7. e + 1 = pos[n] + 2
  <2>1. pos[n] \in Nat
    BY DEF Laid
  <2> QED BY <1>1, <2>1
<1> QED BY <1>1, <1>6, <1>7

\* A quoted text stands for itself.
LEMMA QuotedExpands ==
  ASSUME NEW C, NEW n \in Nat, NEW s \in Seq(C), Len(s) = n, NEW z \in Nat, NEW y, Len(y) = z,
         NEW pos, Laid(s, y, pos), pos[0] = 1, z = pos[n] + 1
  PROVE  Expand(y) = s
<1>1. PICK f : /\ \A i \in 1 .. z + 2, q \in BOOLEAN : f[i][q] = ExpandFrom(y, f, i, q)
               /\ Expand(y) = f[1][FALSE]
  BY ExpandSolved
<1>2. ASSUME NEW i \in 1 .. z + 2, NEW q \in BOOLEAN
      PROVE  ExpandRules(y, f, i, q) /\ f[i][q] = ExpandFrom(y, f, i, q)
  BY <1>1, ExpandSteps
<1>3. ASSUME NEW a \in 1 .. n + 1, NEW b \in 0 .. n PROVE SubSeq(s, a, b) \in Seq(C)
  <2>1. \A i \in a .. b : s[i] \in C
    BY ElementOfSeq
  <2> QED BY <2>1, SubSeqProperties
<1> DEFINE Rest(k) == f[pos[k]][FALSE] = SubSeq(s, k + 1, n)
           S == {j \in 1 .. n + 1 : Opens(s, j - 1) => Rest(j - 1)}
<1>4. ASSUME NEW k \in 0 .. n, Opens(s, k), \A m \in 0 .. n : m > k /\ Opens(s, m) => Rest(m)
      PROVE  Rest(k)
  <2>1. pos[k] \in 1 .. z /\ y[pos[k]] = "'"
    BY <1>4, OpensThere
  <2>2. PICK p \in 1 .. z : p = pos[k]
    BY <2>1
  <2>3. PICK m \in k .. n : OpenClose(s, y, pos, k, m)
    BY NextClose
  <2>4. PICK c \in p + 1 .. z : c = pos[m] + 1 /\ SingleClose(y, p + 1) = c /\ c = p + (m - k) + 1
    <3>1. m \in 0 .. n /\ pos[m] \in 1 .. pos[n] /\ pos[n] \in Nat
      BY <2>3, LaidThere
    <3>2. pos[m] = p + (m - k) /\ SingleClose(y, p + 1) = pos[m] + 1
      BY <2>2, <2>3 DEF OpenClose
    <3>3. pos[m] + 1 \in p + 1 .. z
      <4>1. PICK b \in Nat, l \in Nat : b = pos[m] /\ l = pos[n]
        BY <3>1
      <4> QED BY <3>1, <3>2, <4>1
    <3>4. pos[m] + 1 = p + (m - k) + 1
      BY <3>2
    <3> QED BY <3>2, <3>3, <3>4
  <2>5. SubSeq(y, p + 1, c - 1) = SubSeq(s, k + 1, m)
    <3>1. PICK l \in Nat : l = m - k
      OBVIOUS
    <3>2. \A d \in 1 .. l : y[p + d] = s[k + d] /\ s[k + d] \in C
      <4>1. \A d \in 1 .. l : k + d \in 1 .. n
        BY <3>1
      <4> QED BY <2>2, <2>3, <3>1, <4>1, ElementOfSeq DEF OpenClose
    <3>3. \A i \in p + 1 .. c - 1 : y[i] \in C
      <4> TAKE i \in p + 1 .. c - 1
      <4>1. i - p \in 1 .. l /\ p + (i - p) = i
        BY <2>4, <3>1
      <4> QED BY <3>2, <4>1
    <3>4. /\ SubSeq(y, p + 1, c - 1) \in Seq(C)
          /\ Len(SubSeq(y, p + 1, c - 1)) = l
          /\ \A d \in 1 .. l : SubSeq(y, p + 1, c - 1)[d] = y[p + d]
      <4>1. p + 1 \in Int /\ c - 1 \in Int /\ c - 1 - (p + 1) + 1 = l
        BY <2>4, <3>1
      <4>2. /\ SubSeq(y, p + 1, c - 1) \in Seq(C)
            /\ Len(SubSeq(y, p + 1, c - 1)) =
                 IF p + 1 <= c - 1 THEN c - 1 - (p + 1) + 1 ELSE 0
            /\ \A i \in 1 .. c - 1 - (p + 1) + 1 :
                 SubSeq(y, p + 1, c - 1)[i] = y[p + 1 + i - 1]
        BY <3>3, <4>1, SubSeqProperties
      <4>3. Len(SubSeq(y, p + 1, c - 1)) = l
        <5>1. IF p + 1 <= c - 1 THEN l = c - 1 - (p + 1) + 1 ELSE l = 0
          BY <2>4, <3>1
        <5> QED BY <4>2, <5>1
      <4>4. \A d \in 1 .. l : p + 1 + d - 1 = p + d
        OBVIOUS
      <4> QED BY <4>1, <4>2, <4>3, <4>4
    <3>5. /\ SubSeq(s, k + 1, m) \in Seq(C)
          /\ Len(SubSeq(s, k + 1, m)) = l
          /\ \A d \in 1 .. l : SubSeq(s, k + 1, m)[d] = s[k + d]
      <4>1. k + 1 \in Int /\ m \in Int /\ m - (k + 1) + 1 = l
        BY <3>1
      <4>2. \A i \in k + 1 .. m : s[i] \in C
        BY ElementOfSeq
      <4>3. /\ SubSeq(s, k + 1, m) \in Seq(C)
            /\ Len(SubSeq(s, k + 1, m)) = IF k + 1 <= m THEN m - (k + 1) + 1 ELSE 0
            /\ \A i \in 1 .. m - (k + 1) + 1 : SubSeq(s, k + 1, m)[i] = s[k + 1 + i - 1]
        BY <4>1, <4>2, SubSeqProperties
      <4>4. Len(SubSeq(s, k + 1, m)) = l
        BY <3>1, <4>3
      <4>5. \A d \in 1 .. l : k + 1 + d - 1 = k + d
        OBVIOUS
      <4> QED BY <4>1, <4>3, <4>4, <4>5
    <3> QED BY <3>2, <3>4, <3>5, SeqEqual
  <2>6. f[p][FALSE] = SubSeq(s, k + 1, m) \o f[c + 1][FALSE]
    <3>1. p \in 1 .. z + 2 /\ FALSE \in BOOLEAN /\ p <= z /\ c # 0
      BY <2>4
    <3>2. ExpandRules(y, f, p, FALSE) /\ f[p][FALSE] = ExpandFrom(y, f, p, FALSE)
      BY <1>2, <3>1
    <3>3. SingleEnd(y, p + 1) = c
      BY <2>4, <3>1 DEF SingleEnd
    <3> QED BY <2>1, <2>2, <2>5, <3>1, <3>2, <3>3 DEF ExpandRules
  <2>7. CASE m = n
    <3>1. c + 1 \in 1 .. z + 2 /\ c + 1 > z
      <4>1. pos[n] \in Nat
        BY LaidThere
      <4> QED BY <2>4, <2>7, <4>1
    <3>2. f[c + 1][FALSE] = <<>>
      <4>1. ExpandRules(y, f, c + 1, FALSE) /\ f[c + 1][FALSE] = ExpandFrom(y, f, c + 1, FALSE)
        BY <1>2, <3>1
      <4> QED BY <3>1, <4>1 DEF ExpandRules
    <3>3. SubSeq(s, k + 1, n) \o <<>> = SubSeq(s, k + 1, n)
      <4>1. SubSeq(s, k + 1, n) \in Seq(C)
        BY <1>3
      <4> QED BY <4>1, ConcatEmptySeq
    <3> QED BY <2>2, <2>6, <2>7, <3>2, <3>3
  <2>8. CASE m < n
    <3>1. s[m + 1] = "'" /\ m \in 0 .. n /\ m + 1 \in 0 .. n /\ Opens(s, m + 1)
      BY <2>3, <2>8 DEF OpenClose, Opens
    <3>2. /\ c + 4 <= z /\ pos[m + 1] = c + 4
          /\ y[c] = "'" /\ y[c + 1] = DoubleQuote /\ y[c + 2] = "'"
          /\ y[c + 3] = DoubleQuote /\ y[c + 4] = "'"
      <4>1. PICK a \in 1 .. z : QuoteAt(y, pos, m, a)
        BY <2>8, <3>1, QuoteThere
      <4>2. a = c
        BY <2>4, <4>1 DEF QuoteAt
      <4> QED BY <4>1, <4>2 DEF QuoteAt
    <3>3. f[c + 1][FALSE] = f[c + 2][TRUE]
      <4>1. c + 1 \in 1 .. z + 2 /\ c + 1 <= z /\ c + 1 + 1 = c + 2 /\ (~FALSE) = TRUE
        BY <3>2
      <4>2. ExpandRules(y, f, c + 1, FALSE) /\ f[c + 1][FALSE] = ExpandFrom(y, f, c + 1, FALSE)
        BY <1>2, <4>1
      <4> QED BY <3>2, <4>1, <4>2 DEF ExpandRules
    <3>4. f[c + 2][TRUE] = <<"'">> \o f[c + 3][TRUE]
      <4>1. c + 2 \in 1 .. z + 2 /\ c + 2 <= z /\ c + 2 + 1 = c + 3 /\ c + 2 \in 1 .. z
        BY <3>2
      <4>2. ExpandRules(y, f, c + 2, TRUE) /\ f[c + 2][TRUE] = ExpandFrom(y, f, c + 2, TRUE)
        BY <1>2, <4>1
      <4>3. y[c + 2] # DoubleQuote /\ y[c + 2] # "\\" /\ y[c + 2] # "$"
        BY <3>2, Zenon DEF DoubleQuote
      <4>4. VarEnd(y, c + 2) = 0
        BY <4>1, <4>3, VarThere
      <4> QED BY <3>2, <4>1, <4>2, <4>3, <4>4 DEF ExpandRules
    <3>5. f[c + 3][TRUE] = f[c + 4][FALSE]
      <4>1. c + 3 \in 1 .. z + 2 /\ c + 3 <= z /\ c + 3 + 1 = c + 4 /\ (~TRUE) = FALSE
        BY <3>2
      <4>2. ExpandRules(y, f, c + 3, TRUE) /\ f[c + 3][TRUE] = ExpandFrom(y, f, c + 3, TRUE)
        BY <1>2, <4>1
      <4> QED BY <3>2, <4>1, <4>2 DEF ExpandRules
    <3>6. f[c + 4][FALSE] = SubSeq(s, m + 2, n)
      <4>1. m + 1 > k /\ m + 1 + 1 = m + 2
        OBVIOUS
      <4> QED BY <1>4, <3>1, <3>2, <4>1
    <3>7. <<"'">> \o SubSeq(s, m + 2, n) = SubSeq(s, m + 1, n)
      <4>1. m + 1 \in 1 .. n /\ n \in m + 1 .. n /\ m + 1 + 1 = m + 2
        BY <2>8
      <4> QED BY <3>1, <4>1, SubSeqRecursiveFirst
    <3>8. SubSeq(s, k + 1, m) \o SubSeq(s, m + 1, n) = SubSeq(s, k + 1, n)
      <4>1. k + 1 \in 1 .. n + 1 /\ m \in k + 1 - 1 .. n /\ n \in m .. n
        OBVIOUS
      <4> QED BY <4>1, ConcatAdjacentSubSeq
    <3>9. f[c + 1][FALSE] = SubSeq(s, m + 1, n)
      BY <3>3, <3>4, <3>5, <3>6, <3>7
    <3>10. f[p][FALSE] = SubSeq(s, k + 1, n)
      <4> HIDE DEF Rest
      <4> QED BY <2>6, <3>8, <3>9, Zenon
    <3> QED BY <2>2, <3>10
  <2>9. m = n \/ m < n
    OBVIOUS
  <2> HIDE DEF Rest
  <2> QED BY <2>7, <2>8, <2>9
<1>5. ASSUME NEW j \in 1 .. n + 1, \A i \in 1 .. n + 1 : i > j => i \in S PROVE j \in S
  <2> SUFFICES ASSUME Opens(s, j - 1) PROVE Rest(j - 1)
    OBVIOUS
  <2>1. ASSUME NEW m \in 0 .. n, m > j - 1, Opens(s, m) PROVE Rest(m)
    <3>1. m + 1 \in 1 .. n + 1 /\ m + 1 > j /\ m + 1 - 1 = m
      BY <2>1
    <3>2. m + 1 \in S
      <4> HIDE DEF S
      <4> QED BY <1>5, <3>1
    <3> HIDE DEF Rest
    <3> QED BY <2>1, <3>1, <3>2
  <2>2. j - 1 \in 0 .. n
    OBVIOUS
  <2> HIDE DEF Rest
  <2> QED BY <1>4, <2>1, <2>2
<1>6. 1 \in S
  <2>1. n + 1 \in Nat /\ 1 \in 1 .. n + 1
    OBVIOUS
  <2> HIDE DEF S
  <2> QED BY <1>5, <2>1, Downward
<1>7. f[1][FALSE] = SubSeq(s, 1, n)
  <2>1. 1 - 1 = 0 /\ 0 + 1 = 1 /\ Opens(s, 0)
    BY DEF Opens
  <2> QED BY <1>6, <2>1
<1> QED BY <1>1, <1>7, SubSeqFull

-------------------------------------------------------------------------------
(* A quoted text in a command line *)

InLine(q) == <<"a", " ">> \o q \o <<"|", "a">>

Around(x, q) ==
  /\ Len(x) = Len(q) + 4
  /\ x[1] = "a" /\ x[2] = " " /\ x[Len(q) + 3] = "|" /\ x[Len(q) + 4] = "a"
  /\ \A d \in 1 .. Len(q) : x[d + 2] = q[d]

LEMMA AroundIs ==
  ASSUME NEW A, NEW q \in Seq(A)
  PROVE  InLine(q) \in Seq(A \cup {"a", " ", "|"}) /\ Around(InLine(q), q)
<1> DEFINE B    == A \cup {"a", " ", "|"}
           head == <<"a", " ">>
           tail == <<"|", "a">>
<1>1. /\ head \in Seq(B) /\ Len(head) = 2 /\ head[1] = "a" /\ head[2] = " "
      /\ tail \in Seq(B) /\ Len(tail) = 2 /\ tail[1] = "|" /\ tail[2] = "a"
  OBVIOUS
<1>2. q \in Seq(B)
  <2>1. q \in [1 .. Len(q) -> A] /\ A \subseteq B /\ Len(q) \in Nat
    BY LenProperties
  <2>2. q \in [1 .. Len(q) -> B]
    <3> HIDE DEF B
    <3> QED BY <2>1
  <2> HIDE DEF B
  <2> QED BY <2>1, <2>2
<1> HIDE DEF B, head, tail
<1>3. PICK m \in Nat : m = Len(q)
  OBVIOUS
<1>4. PICK front : front = head \o q
  OBVIOUS
<1>5. /\ front \in Seq(B) /\ Len(front) = 2 + m
      /\ \A i \in 1 .. 2 : front[i] = head[i]
      /\ \A d \in 1 .. m : front[2 + d] = q[d]
  <2>1. /\ front \in Seq(B) /\ Len(front) = Len(head) + Len(q)
        /\ \A i \in 1 .. Len(head) : front[i] = head[i]
        /\ \A d \in 1 .. Len(q) : front[Len(head) + d] = q[d]
    <3>1. head \in Seq(B) /\ q \in Seq(B)
      BY <1>1, <1>2
    <3> QED BY <1>4, <3>1, Concat
  <2> QED BY <1>1, <1>3, <2>1
<1>6. PICK x : x = front \o tail
  OBVIOUS
<1>7. /\ x \in Seq(B) /\ Len(x) = 2 + m + 2
      /\ \A i \in 1 .. 2 + m : x[i] = front[i]
      /\ \A d \in 1 .. 2 : x[2 + m + d] = tail[d]
  <2>1. /\ x \in Seq(B) /\ Len(x) = Len(front) + Len(tail)
        /\ \A i \in 1 .. Len(front) : x[i] = front[i]
        /\ \A d \in 1 .. Len(tail) : x[Len(front) + d] = tail[d]
    <3>1. front \in Seq(B) /\ tail \in Seq(B)
      BY <1>1, <1>5
    <3> QED BY <1>6, <3>1, Concat
  <2> QED BY <1>1, <1>5, <2>1
<1>8. InLine(q) = x
  BY <1>4, <1>6, Zenon DEF InLine, head, tail
<1>9. Len(x) = m + 4 /\ x[1] = "a" /\ x[2] = " " /\ x[m + 3] = "|" /\ x[m + 4] = "a"
  <2>1. /\ 2 + m + 2 = m + 4 /\ 2 + m + 1 = m + 3 /\ 1 \in 1 .. 2 + m /\ 2 \in 1 .. 2 + m
        /\ 1 \in 1 .. 2 /\ 2 \in 1 .. 2
    OBVIOUS
  <2> QED BY <1>1, <1>5, <1>7, <2>1
<1>10. \A d \in 1 .. m : x[d + 2] = q[d]
  <2>1. \A d \in 1 .. m : 2 + d \in 1 .. 2 + m /\ d + 2 = 2 + d
    OBVIOUS
  <2> QED BY <1>5, <1>7, <2>1
<1> QED BY <1>3, <1>7, <1>8, <1>9, <1>10 DEF Around, B

\* The part of the line that is q.
LEMMA PartIs ==
  ASSUME NEW A, NEW x \in Seq(A), NEW B, NEW q \in Seq(B), NEW m \in Nat, Len(q) = m,
         Around(x, q)
  PROVE  SubSeq(x, 3, m + 2) = q
<1>1. Len(x) = m + 4 /\ \A d \in 1 .. m : x[d + 2] = q[d]
  BY DEF Around
<1>2. /\ SubSeq(x, 3, m + 2) \in Seq(A) /\ Len(SubSeq(x, 3, m + 2)) = m
      /\ \A d \in 1 .. m : SubSeq(x, 3, m + 2)[d] = x[d + 2]
  <2>1. \A i \in 3 .. m + 2 : x[i] \in A
    BY <1>1, ElementOfSeq
  <2>2. m + 2 - 3 + 1 = m /\ m + 2 \in Int /\ 3 \in Int /\ \A d \in 1 .. m : 3 + d - 1 = d + 2
    OBVIOUS
  <2>3. /\ SubSeq(x, 3, m + 2) \in Seq(A)
        /\ Len(SubSeq(x, 3, m + 2)) = IF 3 <= m + 2 THEN m + 2 - 3 + 1 ELSE 0
        /\ \A i \in 1 .. m + 2 - 3 + 1 : SubSeq(x, 3, m + 2)[i] = x[3 + i - 1]
    BY <2>1, <2>2, SubSeqProperties
  <2>4. IF 3 <= m + 2 THEN m = m + 2 - 3 + 1 ELSE m = 0
    OBVIOUS
  <2> QED BY <2>2, <2>3, <2>4
<1> QED BY <1>1, <1>2, SeqEqual

\* A text that is laid out in q is laid out in the line.
LEMMA LaidInLine ==
  ASSUME NEW x, NEW q, NEW m \in Nat, Len(q) = m, Around(x, q), NEW n \in Nat,
         NEW s, Len(s) = n, NEW pos, Laid(s, q, pos)
  PROVE  Laid(s, x, [k \in 0 .. n |-> pos[k] + 2])
<1> DEFINE moved == [k \in 0 .. n |-> pos[k] + 2]
<1>1. /\ pos \in [0 .. n -> Nat \ {0}] /\ pos[n] + 1 <= m
      /\ q[pos[0]] = "'" /\ q[pos[n] + 1] = "'"
  BY DEF Laid
<1>2. Len(x) = m + 4 /\ \A d \in 1 .. m : x[d + 2] = q[d]
  BY DEF Around
<1>3. \A k \in 0 .. n : pos[k] \in Nat \ {0} /\ moved[k] = pos[k] + 2
  BY <1>1
<1>4. \A k \in 0 .. n : pos[k] \in 1 .. pos[n]
  BY LaidThere
<1>5. moved \in [0 .. n -> Nat \ {0}] /\ moved[n] + 1 <= Len(x)
  <2>1. PICK l \in Nat : l = pos[n]
    BY <1>1
  <2>2. l + 2 + 1 <= m + 4
    BY <1>1, <2>1
  <2>3. moved[n] + 1 = l + 2 + 1
    BY <1>3, <2>1
  <2>4. moved[n] + 1 <= Len(x)
    <3> HIDE DEF moved
    <3> QED BY <1>2, <2>2, <2>3
  <2>5. moved \in [0 .. n -> Nat \ {0}]
    BY <1>3
  <2> QED BY <2>4, <2>5
<1>6. x[moved[0]] = "'" /\ x[moved[n] + 1] = "'"
  <2>1. PICK a \in Nat \ {0}, l \in Nat : a = pos[0] /\ l = pos[n] /\ a <= l
    BY <1>3, <1>4
  <2>2. a \in 1 .. m /\ l + 1 \in 1 .. m /\ l + 1 + 2 = l + 2 + 1
    BY <1>1, <2>1
  <2>3. moved[0] = a + 2 /\ moved[n] + 1 = l + 1 + 2
    BY <1>3, <2>1, <2>2
  <2>4. q[a] = "'" /\ q[l + 1] = "'"
    BY <1>1, <2>1
  <2> HIDE DEF moved
  <2> QED BY <1>2, <2>2, <2>3, <2>4
<1>7. ASSUME NEW k \in 1 .. n
      PROVE  /\ k - 1 \in 0 .. n /\ k \in 0 .. n
             /\ moved[k] = pos[k] + 2 /\ moved[k - 1] = pos[k - 1] + 2
             /\ pos[k] \in Nat \ {0} /\ pos[k] <= m /\ pos[k - 1] \in Nat \ {0}
  BY <1>1, <1>3, <1>4
<1> HIDE DEF moved
<1>8. ASSUME NEW k \in 1 .. n, s[k] # "'"
      PROVE  moved[k] = moved[k - 1] + 1 /\ x[moved[k]] = s[k]
  <2>1. pos[k] = pos[k - 1] + 1 /\ q[pos[k]] = s[k]
    BY <1>8 DEF Laid
  <2>2. PICK p \in Nat, e \in Nat : p = pos[k - 1] /\ e = pos[k] /\ e <= m /\ e # 0
    BY <1>7
  <2>3. x[e + 2] = q[e] /\ e = p + 1 /\ e + 2 = p + 2 + 1
    <3>1. e \in 1 .. m /\ e = p + 1 /\ e + 2 = p + 2 + 1
      BY <2>1, <2>2
    <3> QED BY <1>2, <3>1
  <2>4. moved[k] = e + 2 /\ moved[k - 1] = p + 2
    BY <1>7, <2>2
  <2> QED BY <2>1, <2>2, <2>3, <2>4
<1>9. ASSUME NEW k \in 1 .. n, s[k] = "'"
      PROVE  /\ moved[k] = moved[k - 1] + 5
             /\ x[moved[k - 1] + 1] = "'" /\ x[moved[k - 1] + 2] = DoubleQuote
             /\ x[moved[k - 1] + 3] = "'" /\ x[moved[k - 1] + 4] = DoubleQuote
             /\ x[moved[k - 1] + 5] = "'"
  <2>1. /\ pos[k] = pos[k - 1] + 5
        /\ q[pos[k - 1] + 1] = "'" /\ q[pos[k - 1] + 2] = DoubleQuote
        /\ q[pos[k - 1] + 3] = "'" /\ q[pos[k - 1] + 4] = DoubleQuote
        /\ q[pos[k - 1] + 5] = "'"
    BY <1>9 DEF Laid
  <2>2. PICK p \in Nat : p = pos[k - 1] /\ p + 5 <= m
    BY <1>7, <2>1
  <2>3. ASSUME NEW d \in 1 .. 5 PROVE x[p + 2 + d] = q[p + d]
    <3>1. p + d \in 1 .. m /\ p + d + 2 = p + 2 + d
      <4>1. p + 5 <= m
        BY <2>2
      <4>2. d <= 5 /\ d >= 1
        OBVIOUS
      <4> QED BY <4>1, <4>2
    <3> QED BY <1>2, <3>1
  <2>4. moved[k] = moved[k - 1] + 5 /\ moved[k - 1] = p + 2
    <3>1. pos[k] + 2 = p + 2 + 5
      BY <2>1, <2>2
    <3> QED BY <1>7, <2>2, <3>1
  <2>5. /\ q[p + 1] = "'" /\ q[p + 2] = DoubleQuote
        /\ q[p + 3] = "'" /\ q[p + 4] = DoubleQuote /\ q[p + 5] = "'"
    BY <2>1, <2>2
  <2>6. /\ x[p + 2 + 1] = q[p + 1] /\ x[p + 2 + 2] = q[p + 2] /\ x[p + 2 + 3] = q[p + 3]
        /\ x[p + 2 + 4] = q[p + 4] /\ x[p + 2 + 5] = q[p + 5]
    BY <2>3
  <2> QED BY <2>4, <2>5, <2>6
<1> QED BY <1>5, <1>6, <1>8, <1>9 DEF Laid, moved

\* What the operators look like that begin with a digit or a bar.
LEMMA LongOperators ==
  \A k \in 1 .. 11 :
    /\ Operators[k][1] \in Digits => Len(Operators[k]) > 1 /\ Operators[k][2] = ">"
    /\ k # 10 /\ Operators[k][1] = "|" => Len(Operators[k]) > 1 /\ Operators[k][2] = "|"
<1> DEFINE Ok(k) ==
      /\ Operators[k][1] \in Digits => Len(Operators[k]) > 1 /\ Operators[k][2] = ">"
      /\ k # 10 /\ Operators[k][1] = "|" => Len(Operators[k]) > 1 /\ Operators[k][2] = "|"
<1>1. Ok(1) /\ Ok(2) /\ Ok(3) /\ Ok(4)
  BY DEF Operators, Digits
<1>2. Ok(5) /\ Ok(6) /\ Ok(7) /\ Ok(8)
  BY DEF Operators, Digits
<1>3. Ok(9) /\ Ok(10) /\ Ok(11)
  BY DEF Operators, Digits
<1> HIDE DEF Ok
<1>4. \A k \in 1 .. 11 : Ok(k)
  BY <1>1, <1>2, <1>3
<1> QED BY <1>4 DEF Ok

\* A digit is no operator if no > follows it, and a bar is one if no other bar does.
LEMMA OperatorBefore ==
  ASSUME NEW s, NEW n \in Nat, Len(s) = n, NEW i \in 1 .. n - 1
  PROVE  /\ s[i] \in Digits /\ s[i + 1] # ">" => OperatorAt(s, i) = 0
         /\ s[i] = "|" /\ s[i + 1] # "|" => OperatorAt(s, i) = 10
<1> DEFINE I == {k \in 1 .. Len(Operators) : StartsAt(s, i, Operators[k])}
<1>1. OperatorAt(s, i) = IF I # {} THEN Min(I) ELSE 0
  BY DEF OperatorAt, SelectInSeq
<1>2. Len(Operators) = 11 /\ Operators[10] = <<"|">>
  BY DEF Operators
<1>3. ASSUME NEW k \in 1 .. 11, StartsAt(s, i, Operators[k])
      PROVE  s[i] = Operators[k][1] /\ (Len(Operators[k]) > 1 => s[i + 1] = Operators[k][2])
  <2>1. PICK l \in 1 .. 4 : l = Len(Operators[k])
    BY OperatorsAre
  <2>2. \A d \in 1 .. l : s[i + d - 1] = Operators[k][d]
    BY <1>3, <2>1 DEF StartsAt
  <2>3. s[i + 1 - 1] = Operators[k][1] /\ (l > 1 => s[i + 2 - 1] = Operators[k][2])
    BY <2>1, <2>2
  <2>4. i + 1 - 1 = i /\ i + 2 - 1 = i + 1
    OBVIOUS
  <2> QED BY <2>1, <2>3, <2>4
<1>4. ASSUME s[i] \in Digits, s[i + 1] # ">" PROVE OperatorAt(s, i) = 0
  <2>1. I = {}
    BY <1>2, <1>3, <1>4, LongOperators
  <2> QED BY <1>1, <2>1
<1>5. ASSUME s[i] = "|", s[i + 1] # "|" PROVE OperatorAt(s, i) = 10
  <2>1. \A k \in I : k = 10
    BY <1>2, <1>3, <1>5, LongOperators
  <2>2. StartsAt(s, i, Operators[10])
    BY <1>2, <1>5 DEF StartsAt
  <2>3. I = {10}
    BY <1>2, <2>1, <2>2
  <2>4. Min({10}) = 10
    BY DEF Min
  <2> HIDE DEF I
  <2> QED BY <1>1, <2>3, <2>4
<1> QED BY <1>4, <1>5

\* A character that needs no quotes is an ordinary one.
LEMMA SafeIs ==
  ASSUME NEW c, Safe(c)
  PROVE  /\ c \notin Blanks /\ c \notin {"#", "&", "*", "'", "$", "\\"} /\ c # DoubleQuote
         /\ c # ">" /\ (c \in OpChars => c \in Digits)
<1>1. c \in {"a", "1", "2", "=", "/"}
  BY DEF Safe, Letters, Digits
<1>2. c # DoubleQuote
  BY <1>1, Zenon DEF DoubleQuote
<1> QED BY <1>1, <1>2 DEF Blanks, OpChars, Digits

\* A text that needs no quotes is a word of the line.
LEMMA SafeWord ==
  ASSUME NEW A, NEW x \in Seq(A), NEW B, NEW s \in Seq(B), NEW m \in Nat, Len(s) = m,
         NeedsNoQuotes(s), Around(x, s)
  PROVE  /\ ~EndsWord(x, 3) /\ ~OpensVariable(x, 3) /\ m > 0
         /\ LexWord(x, 3) = [raw |-> s, at |-> m + 3]
<1>1. Len(x) = m + 4 /\ x[m + 3] = "|" /\ x[m + 4] = "a" /\ \A d \in 1 .. m : x[d + 2] = s[d]
  BY DEF Around
<1>2. m > 0 /\ \A d \in 1 .. m : Safe(s[d])
  <2>1. m # 0
    BY DEF NeedsNoQuotes
  <2> QED BY <2>1 DEF NeedsNoQuotes
<1>3. ASSUME NEW d \in 1 .. m PROVE x[d + 2] = s[d] /\ Safe(x[d + 2]) /\ x[d + 3] # ">"
  <2>1. x[d + 2] = s[d] /\ Safe(x[d + 2])
    BY <1>1, <1>2
  <2>2. CASE d = m
    <3>1. x[d + 3] = "|"
      BY <1>1, <2>2
    <3> QED BY <2>1, <3>1
  <2>3. CASE d # m
    <3>1. d + 1 \in 1 .. m /\ d + 1 + 2 = d + 3
      BY <2>3
    <3>2. Safe(x[d + 3])
      BY <1>1, <1>2, <3>1
    <3> QED BY <2>1, <3>2, SafeIs
  <2> QED BY <2>2, <2>3
<1>4. ASSUME NEW d \in 1 .. m PROVE ~EndsWord(x, d + 2)
  <2>1. d + 2 \in 1 .. m + 4 - 1 /\ d + 2 + 1 = d + 3 /\ d + 2 <= m + 4 /\ d + 2 \in Nat \ {0}
    OBVIOUS
  <2>2. OperatorAt(x, d + 2) = 0
    <3>1. CASE x[d + 2] \in OpChars
      <4>1. x[d + 2] \in Digits /\ x[d + 2 + 1] # ">"
        BY <1>3, <2>1, <3>1, SafeIs
      <4>2. m + 4 \in Nat
        OBVIOUS
      <4> QED BY <1>1, <2>1, <4>1, <4>2, OperatorBefore
    <3>2. CASE x[d + 2] \notin OpChars
      <4>1. Len(x) \in Nat /\ d + 2 <= Len(x)
        BY <1>1, <2>1
      <4> QED BY <2>1, <3>2, <4>1, OperatorThere
    <3> QED BY <3>1, <3>2
  <2>3. x[d + 2] \notin Blanks \cup {"#"}
    BY <1>3, SafeIs
  <2> QED BY <1>1, <2>1, <2>2, <2>3 DEF EndsWord
<1>5. EndsWord(x, m + 3)
  <2>1. m + 3 \in 1 .. m + 4 - 1 /\ m + 4 \in Nat /\ m + 3 + 1 = m + 4 /\ m + 3 <= m + 4
    OBVIOUS
  <2>2. OperatorAt(x, m + 3) = 10
    BY <1>1, <2>1, OperatorBefore
  <2> QED BY <1>1, <2>1, <2>2 DEF EndsWord
<1> DEFINE Whole(d) == LexWord(x, d + 2) = [raw |-> SubSeq(s, d, m), at |-> m + 3]
           S == {d \in 1 .. m + 1 : Whole(d)}
<1>6. Whole(m + 1)
  <2>1. m + 1 + 2 = m + 3 /\ m + 3 \in 1 .. m + 4 + 1 /\ m + 4 \in Nat
    OBVIOUS
  <2>2. LexRules(x, m + 3)
    BY <1>1, <2>1, LexWordIs
  <2>3. SubSeq(s, m + 1, m) = <<>>
    BY SubSeqEmpty
  <2> QED BY <1>5, <2>1, <2>2, <2>3 DEF LexRules
<1>7. ASSUME NEW d \in 1 .. m, Whole(d + 1) PROVE Whole(d)
  <2>1. d + 2 \in 1 .. m + 4 + 1 /\ m + 4 \in Nat /\ d + 2 + 1 = d + 1 + 2
    OBVIOUS
  <2>2. LexRules(x, d + 2)
    BY <1>1, <2>1, LexWordIs
  <2>3. x[d + 2] \notin {"&", "*", "'", DoubleQuote, "$", "\\"}
    BY <1>3, SafeIs
  <2>4. LexWord(x, d + 2) = Then(<<s[d]>>, LexWord(x, d + 1 + 2))
    BY <1>3, <1>4, <2>1, <2>2, <2>3 DEF LexRules
  <2>5. Then(<<s[d]>>, LexWord(x, d + 1 + 2))
          = [raw |-> <<s[d]>> \o SubSeq(s, d + 1, m), at |-> m + 3]
    <3>1. PICK raw, at, part : raw = SubSeq(s, d + 1, m) /\ at = m + 3 /\ part = <<s[d]>>
      OBVIOUS
    <3>2. at # 0
      BY <3>1
    <3>3. LexWord(x, d + 1 + 2) = [raw |-> raw, at |-> at]
      BY <1>7, <3>1
    <3>4. Then(part, [raw |-> raw, at |-> at]) = [raw |-> part \o raw, at |-> at]
      BY <3>2, ThenIs
    <3> HIDE DEF Whole, S
    <3> QED BY <3>1, <3>3, <3>4, Zenon
  <2>6. <<s[d]>> \o SubSeq(s, d + 1, m) = SubSeq(s, d, m)
    BY SubSeqRecursiveFirst
  <2> QED BY <2>4, <2>5, <2>6
<1>8. ASSUME NEW d \in 1 .. m + 1, \A e \in 1 .. m + 1 : e > d => e \in S PROVE d \in S
  <2>1. CASE d = m + 1
    <3> HIDE DEF Whole
    <3> QED BY <1>6, <2>1
  <2>2. CASE d # m + 1
    <3>1. d \in 1 .. m /\ d + 1 \in S
      <4> HIDE DEF S
      <4> QED BY <1>8, <2>2
    <3> HIDE DEF Whole
    <3> QED BY <1>7, <3>1
  <2> QED BY <2>1, <2>2
<1>9. 1 \in S
  <2>1. m + 1 \in Nat /\ 1 \in 1 .. m + 1
    OBVIOUS
  <2> HIDE DEF S
  <2> QED BY <1>8, <2>1, Downward
<1>10. LexWord(x, 3) = [raw |-> s, at |-> m + 3]
  <2>1. 1 + 2 = 3
    OBVIOUS
  <2> QED BY <1>9, <2>1, SubSeqFull
<1>11. ~OpensVariable(x, 3) /\ ~EndsWord(x, 3)
  <2>1. 1 \in 1 .. m /\ 1 + 2 = 3
    BY <1>2
  <2>2. x[3] # "$"
    BY <1>3, <2>1, SafeIs
  <2>3. ~EndsWord(x, 3)
    BY <1>4, <2>1
  <2> QED BY <2>2, <2>3, Zenon DEF OpensVariable
<1> HIDE DEF S
<1> QED BY <1>2, <1>10, <1>11

\* It stands for itself.
LEMMA SafeExpands ==
  ASSUME NEW B, NEW s \in Seq(B), NEW m \in Nat, Len(s) = m, NeedsNoQuotes(s)
  PROVE  Expand(s) = s
<1>1. PICK f : /\ \A i \in 1 .. m + 2, q \in BOOLEAN : f[i][q] = ExpandFrom(s, f, i, q)
               /\ Expand(s) = f[1][FALSE]
  BY ExpandSolved
<1>2. ASSUME NEW i \in 1 .. m + 2
      PROVE  ExpandRules(s, f, i, FALSE) /\ f[i][FALSE] = ExpandFrom(s, f, i, FALSE)
  BY <1>1, ExpandSteps
<1> DEFINE Rest(d) == f[d][FALSE] = SubSeq(s, d, m)
           S == {d \in 1 .. m + 1 : Rest(d)}
<1>3. Rest(m + 1)
  <2>1. m + 1 \in 1 .. m + 2 /\ m + 1 > m
    OBVIOUS
  <2>2. SubSeq(s, m + 1, m) = <<>>
    BY SubSeqEmpty
  <2>3. f[m + 1][FALSE] = <<>>
    BY <1>2, <2>1 DEF ExpandRules
  <2> QED BY <2>2, <2>3
<1>4. ASSUME NEW d \in 1 .. m, Rest(d + 1) PROVE Rest(d)
  <2>1. d \in 1 .. m + 2 /\ d <= m /\ d \in Nat \ {0}
    OBVIOUS
  <2>2. Safe(s[d])
    BY DEF NeedsNoQuotes
  <2>3. s[d] # "$" /\ s[d] # DoubleQuote /\ s[d] # "\\" /\ s[d] # "'"
    BY <2>2, SafeIs
  <2>4. VarEnd(s, d) = 0
    BY <2>1, <2>3, VarThere
  <2>5. ExpandRules(s, f, d, FALSE) /\ f[d][FALSE] = ExpandFrom(s, f, d, FALSE)
    BY <1>2, <2>1
  <2>6. f[d][FALSE] = <<s[d]>> \o f[d + 1][FALSE]
    BY <2>1, <2>3, <2>4, <2>5 DEF ExpandRules
  <2>7. <<s[d]>> \o SubSeq(s, d + 1, m) = SubSeq(s, d, m)
    BY SubSeqRecursiveFirst
  <2> QED BY <1>4, <2>6, <2>7
<1>5. ASSUME NEW d \in 1 .. m + 1, \A e \in 1 .. m + 1 : e > d => e \in S PROVE d \in S
  <2>1. CASE d = m + 1
    <3> HIDE DEF Rest
    <3> QED BY <1>3, <2>1
  <2>2. CASE d # m + 1
    <3>1. d \in 1 .. m /\ d + 1 \in S
      <4> HIDE DEF S
      <4> QED BY <1>5, <2>2
    <3> HIDE DEF Rest
    <3> QED BY <1>4, <3>1
  <2> QED BY <2>1, <2>2
<1>6. 1 \in S
  <2>1. m + 1 \in Nat /\ 1 \in 1 .. m + 1
    OBVIOUS
  <2> HIDE DEF S
  <2> QED BY <1>5, <2>1, Downward
<1>7. f[1][FALSE] = SubSeq(s, 1, m)
  BY <1>6
<1> QED BY <1>1, <1>7, SubSeqFull

\* The text q of the line x, which has m characters, is a word that stands for s.
WordInLine(x, q, m, s) ==
  /\ Len(q) = m /\ m > 0 /\ Around(x, q) /\ Expand(q) = s
  /\ ~EndsWord(x, 3) /\ ~OpensVariable(x, 3) /\ LexWord(x, 3) = [raw |-> q, at |-> m + 3]

\* A text that needs quotes is a word of the line when it has them.
LEMMA QuotedInLine ==
  ASSUME NEW C, NEW s \in Seq(C), ~NeedsNoQuotes(s), NEW m \in Nat, Len(Quote(s)) = m
  PROVE  WordInLine(InLine(Quote(s)), Quote(s), m, s)
<1> DEFINE D == C \cup {"'", DoubleQuote}
           E == D \cup {"a", " ", "|"}
<1>1. PICK n \in Nat : Len(s) = n
  OBVIOUS
<1>2. PICK q \in Seq(D) : q = Quote(s) /\ \E pos : Laid(s, q, pos) /\ pos[0] = 1 /\ m = pos[n] + 1
  BY <1>1, QuoteLays
<1>3. PICK pos : Laid(s, q, pos) /\ pos[0] = 1 /\ m = pos[n] + 1
  BY <1>2
<1>4. PICK x \in Seq(E) : x = InLine(q) /\ Around(x, q)
  BY AroundIs
<1> HIDE DEF E, D
<1>5. Len(q) = m
  BY <1>2
<1>6. Expand(q) = s
  BY <1>1, <1>3, <1>5, QuotedExpands
<1>7. PICK moved : moved = [k \in 0 .. n |-> pos[k] + 2]
  OBVIOUS
<1>8. Laid(s, x, moved)
  BY <1>1, <1>3, <1>4, <1>5, <1>7, LaidInLine
<1>9. PICK l \in Nat : l = pos[n] /\ m = l + 1
  BY <1>1, <1>3 DEF Laid
<1>10. moved[0] = 3 /\ moved[n] = m + 1
  BY <1>3, <1>7, <1>9
<1>11. Len(x) = m + 4 /\ x[m + 3] = "|" /\ x[m + 4] = "a"
  BY <1>4, <1>5 DEF Around
<1>12. EndsWord(x, m + 3)
  <2>1. m + 3 \in 1 .. m + 4 - 1 /\ m + 4 \in Nat /\ m + 3 + 1 = m + 4 /\ m + 3 <= m + 4
    OBVIOUS
  <2>2. OperatorAt(x, m + 3) = 10
    BY <1>11, <2>1, OperatorBefore
  <2> QED BY <1>11, <2>1, <2>2 DEF EndsWord
<1>13. LexWord(x, 3) = [raw |-> q, at |-> m + 3]
  <2>1. m + 1 + 2 = m + 3 /\ m + 1 + 1 = m + 2 /\ m + 4 \in Nat
    OBVIOUS
  <2>2. LexWord(x, 3) = [raw |-> SubSeq(x, 3, m + 2), at |-> m + 3]
    <3>1. EndsWord(x, moved[n] + 2)
      BY <1>10, <1>12, <2>1
    <3>2. LexWord(x, moved[0]) = [raw |-> SubSeq(x, moved[0], moved[n] + 1), at |-> moved[n] + 2]
      <4>1. PICK z \in Nat : z = Len(x)
        BY <1>11
      <4> QED BY <1>1, <1>8, <3>1, <4>1, QuotedWord
    <3> QED BY <1>10, <2>1, <3>2
  <2>3. SubSeq(x, 3, m + 2) = q
    BY <1>4, <1>5, PartIs
  <2> QED BY <2>2, <2>3
<1>14. x[3] = "'"
  BY <1>8, <1>10 DEF Laid
<1>15. ~EndsWord(x, 3) /\ ~OpensVariable(x, 3)
  <2>1. x[3] \notin Blanks \cup {"#"} /\ x[3] \notin OpChars /\ x[3] # "$"
    BY <1>14 DEF Blanks, OpChars
  <2>2. 3 <= Len(x) /\ Len(x) \in Nat /\ ~ (3 > Len(x))
    BY <1>11
  <2>3. OperatorAt(x, 3) = 0
    BY <2>1, <2>2, OperatorThere
  <2> QED BY <2>1, <2>2, <2>3, Zenon DEF EndsWord, OpensVariable
<1>16. m > 0
  BY <1>9
<1> QED BY <1>2, <1>4, <1>5, <1>6, <1>13, <1>15, <1>16 DEF WordInLine

\* So is one that needs none.
LEMMA SafeInLine ==
  ASSUME NEW C, NEW s \in Seq(C), NeedsNoQuotes(s), NEW m \in Nat, Len(Quote(s)) = m
  PROVE  WordInLine(InLine(Quote(s)), Quote(s), m, s)
<1>1. Quote(s) = s
  BY DEF Quote
<1>2. InLine(s) \in Seq(C \cup {"a", " ", "|"}) /\ Around(InLine(s), s)
  BY AroundIs
<1>3. Expand(s) = s
  BY <1>1, SafeExpands
<1>4. /\ ~EndsWord(InLine(s), 3) /\ ~OpensVariable(InLine(s), 3) /\ m > 0
      /\ LexWord(InLine(s), 3) = [raw |-> s, at |-> m + 3]
  BY <1>1, <1>2, SafeWord
<1> QED BY <1>1, <1>2, <1>3, <1>4 DEF WordInLine

\* An a before the end of a word is a word.
LEMMA LetterWord ==
  ASSUME NEW n \in Nat, NEW x, Len(x) = n, NEW i \in 1 .. n, x[i] = "a", EndsWord(x, i + 1)
  PROVE  /\ ~EndsWord(x, i) /\ ~OpensVariable(x, i)
         /\ LexWord(x, i) = [raw |-> <<"a">>, at |-> i + 1]
<1>1. x[i] \notin Blanks \cup {"#"} /\ x[i] \notin OpChars
      /\ x[i] \notin {"&", "*", "'", "$", "\\"}
  BY DEF Blanks, OpChars
<1>2. x[i] # DoubleQuote
  BY Zenon DEF DoubleQuote
<1>3. OperatorAt(x, i) = 0
  BY <1>1, OperatorThere
<1>4. ~EndsWord(x, i) /\ ~OpensVariable(x, i)
  BY <1>1, <1>3 DEF EndsWord, OpensVariable
<1>5. LexRules(x, i) /\ LexRules(x, i + 1)
  <2>1. i \in 1 .. n + 1 /\ i + 1 \in 1 .. n + 1
    OBVIOUS
  <2> QED BY <2>1, LexWordIs
<1>6. LexWord(x, i + 1) = [raw |-> <<>>, at |-> i + 1]
  BY <1>5 DEF LexRules
<1>7. LexWord(x, i) = Then(<<x[i]>>, LexWord(x, i + 1))
  BY <1>1, <1>2, <1>4, <1>5 DEF LexRules
<1>8. LexWord(x, i) = [raw |-> <<x[i]>> \o <<>>, at |-> i + 1]
  <2>1. i + 1 # 0
    OBVIOUS
  <2> QED BY <1>6, <1>7, <2>1, ThenIs
<1>9. <<"a">> \o <<>> = <<"a">>
  OBVIOUS
<1> QED BY <1>4, <1>8, <1>9

LineTokens(q) ==
  <<Token("word", <<"a">>), Token("word", q), Token("op", Bar), Token("word", <<"a">>)>>

\* A token before others, none of which stands for a failure.
LEMMA FollowingIs ==
  ASSUME NEW token, NEW rest, rest = <<>> \/ rest[1].kind # "error"
  PROVE  Following(token, rest) = <<token>> \o rest
<1>1. Failed # <<>> /\ Failed[1].kind = "error"
  BY DEF Failed, Token
<1> QED BY <1>1 DEF Following

\* Sequences with one element more.
Prepends(a, b, c, d) ==
  /\ <<a>> \o <<b>> = <<a, b>>
  /\ <<a>> \o <<b, c>> = <<a, b, c>>
  /\ <<a>> \o <<b, c, d>> = <<a, b, c, d>>

LEMMA Prepended ==
  ASSUME NEW a, NEW b, NEW c, NEW d
  PROVE  Prepends(a, b, c, d)
<1> DEFINE D == {a, b, c, d}
<1>1. ASSUME NEW e \in D, NEW r \in Seq(D), NEW w \in Seq(D), NEW l \in Nat, Len(r) = l,
             Len(w) = l + 1, w[1] = e, \A i \in 1 .. l : w[i + 1] = r[i]
      PROVE  <<e>> \o r = w
  <2>1. <<e>> \in Seq(D) /\ Len(<<e>>) = 1 /\ <<e>>[1] = e
    OBVIOUS
  <2> HIDE DEF D
  <2>2. PICK u : u = <<e>> \o r
    OBVIOUS
  <2>3. /\ u \in Seq(D) /\ Len(u) = Len(<<e>>) + Len(r)
        /\ \A i \in 1 .. Len(<<e>>) : u[i] = <<e>>[i]
        /\ \A i \in 1 .. Len(r) : u[Len(<<e>>) + i] = r[i]
    BY <2>1, <2>2, Concat
  <2>4. u \in Seq(D) /\ Len(u) = l + 1 /\ u[1] = e /\ \A i \in 1 .. l : u[i + 1] = r[i]
    <3>1. \A i \in 1 .. l : 1 + i = i + 1
      OBVIOUS
    <3> QED BY <1>1, <2>1, <2>3, <3>1
  <2>5. \A j \in 1 .. l + 1 : u[j] = w[j]
    <3> TAKE j \in 1 .. l + 1
    <3>1. j = 1 \/ (j - 1 \in 1 .. l /\ j - 1 + 1 = j)
      OBVIOUS
    <3> QED BY <1>1, <2>4, <3>1
  <2>6. u = w
    BY <1>1, <2>4, <2>5, SeqEqual
  <2> QED BY <2>2, <2>6
<1>2. <<a>> \o <<b>> = <<a, b>>
  <2>1. /\ a \in D /\ <<b>> \in Seq(D) /\ <<a, b>> \in Seq(D) /\ Len(<<b>>) = 1
        /\ Len(<<a, b>>) = 1 + 1 /\ <<a, b>>[1] = a
        /\ \A i \in 1 .. 1 : <<a, b>>[i + 1] = <<b>>[i]
    OBVIOUS
  <2> HIDE DEF D
  <2> QED BY <1>1, <2>1
<1>3. <<a>> \o <<b, c>> = <<a, b, c>>
  <2>1. /\ a \in D /\ <<b, c>> \in Seq(D) /\ <<a, b, c>> \in Seq(D) /\ Len(<<b, c>>) = 2
        /\ Len(<<a, b, c>>) = 2 + 1 /\ <<a, b, c>>[1] = a
        /\ \A i \in 1 .. 2 : <<a, b, c>>[i + 1] = <<b, c>>[i]
    OBVIOUS
  <2> HIDE DEF D
  <2> QED BY <1>1, <2>1
<1>4. <<a>> \o <<b, c, d>> = <<a, b, c, d>>
  <2>1. /\ a \in D /\ <<b, c, d>> \in Seq(D) /\ <<a, b, c, d>> \in Seq(D)
        /\ Len(<<b, c, d>>) = 3 /\ Len(<<a, b, c, d>>) = 3 + 1 /\ <<a, b, c, d>>[1] = a
        /\ \A i \in 1 .. 3 : <<a, b, c, d>>[i + 1] = <<b, c, d>>[i]
    OBVIOUS
  <2> HIDE DEF D
  <2>2. PICK r, w : r = <<b, c, d>> /\ w = <<a, b, c, d>>
    OBVIOUS
  <2>3. /\ a \in D /\ r \in Seq(D) /\ w \in Seq(D) /\ Len(r) = 3 /\ Len(w) = 3 + 1
        /\ w[1] = a /\ \A i \in 1 .. 3 : w[i + 1] = r[i]
    BY <2>1, <2>2
  <2>4. <<a>> \o r = w
    BY <1>1, <2>3
  <2> QED BY <2>2, <2>4
<1> QED BY <1>2, <1>3, <1>4, Zenon DEF Prepends

LEMMA TokensAre ==
  ASSUME NEW m \in Nat, NEW q, NEW x, NEW s, WordInLine(x, q, m, s)
  PROVE  Tokens(x) = LineTokens(q)
<1>1. /\ Len(x) = m + 4 /\ m > 0
      /\ x[1] = "a" /\ x[2] = " " /\ x[m + 3] = "|" /\ x[m + 4] = "a"
  BY DEF WordInLine, Around
<1>2. PICK n \in Nat : n = m + 4 /\ Len(x) = n
  <2>1. PICK n \in Nat : n = m + 4
    OBVIOUS
  <2> QED BY <1>1, <2>1
<1>3. PICK T : (\A j \in 1 .. n + 1 : T[j] = TokensFrom(x, T, j)) /\ Tokens(x) = T[1]
  BY <1>1, <1>2, TokensSolved
<1>4. ASSUME NEW j \in 1 .. n + 1 PROVE TokenRules(x, T, j) /\ T[j] = TokensFrom(x, T, j)
  BY <1>1, <1>2, <1>3, TokenSteps
<1>5. /\ 1 \in 1 .. n /\ 2 \in 1 .. n /\ 3 \in 1 .. n /\ m + 3 \in 1 .. n - 1 /\ m + 4 \in 1 .. n
      /\ m + 5 \in 1 .. n + 1 /\ m + 5 > n /\ m + 3 + 1 = m + 4 /\ m + 4 + 1 = m + 5
  <2>1. m > 0
    BY <1>1
  <2>2. n = m + 4
    BY <1>2
  <2> QED BY <2>1, <2>2
<1> DEFINE a    == Token("word", <<"a">>)
           word == Token("word", q)
           bar  == Token("op", Bar)
<1>6. a.kind = "word" /\ word.kind = "word" /\ bar.kind = "op"
  BY DEF Token
<1> HIDE DEF a, word, bar
<1>7. T[m + 5] = <<>>
  BY <1>1, <1>2, <1>4, <1>5 DEF TokenRules
<1>8. T[m + 4] = <<a>>
  <2>1. EndsWord(x, m + 5)
    BY <1>1, <1>2, <1>5 DEF EndsWord
  <2>2. /\ ~EndsWord(x, m + 4) /\ ~OpensVariable(x, m + 4)
        /\ LexWord(x, m + 4) = [raw |-> <<"a">>, at |-> m + 5]
    BY <1>1, <1>2, <1>5, <2>1, LetterWord
  <2>3. LexWord(x, m + 4) # Bad
    BY <2>2 DEF Bad
  <2>4. T[m + 4] = Following(a, T[m + 5])
    <3>1. TokenRules(x, T, m + 4) /\ T[m + 4] = TokensFrom(x, T, m + 4)
      BY <1>4, <1>5
    <3>2. T[m + 4] = Following(Token("word", LexWord(x, m + 4).raw), T[LexWord(x, m + 4).at])
      BY <2>2, <2>3, <3>1, Zenon DEF TokenRules
    <3>3. LexWord(x, m + 4).raw = <<"a">> /\ LexWord(x, m + 4).at = m + 5
      BY <2>2
    <3> QED BY <3>2, <3>3, Zenon DEF a
  <2>5. Following(a, <<>>) = <<a>> \o <<>>
    BY FollowingIs
  <2>6. <<a>> \o <<>> = <<a>>
    OBVIOUS
  <2> QED BY <1>7, <2>4, <2>5, <2>6
<1>9. T[m + 3] = <<bar, a>>
  <2>1. x[m + 3 + 1] # "|"
    BY <1>1, <1>5
  <2>2. OperatorAt(x, m + 3) = 10
    BY <1>1, <1>2, <1>5, <2>1, OperatorBefore
  <2>3. Operators[10] = Bar /\ Len(Operators[10]) = 1
    BY DEF Operators, Bar
  <2>4. T[m + 3] = Following(bar, T[m + 4])
    <3>1. m + 3 <= Len(x) /\ m + 3 \in 1 .. n + 1
      BY <1>2, <1>5
    <3>2. TokenRules(x, T, m + 3) /\ T[m + 3] = TokensFrom(x, T, m + 3)
      BY <1>4, <3>1
    <3>3. OperatorAt(x, m + 3) # 0
      BY <2>2
    <3>4. T[m + 3] = Following(Token("op", Operators[10]), T[m + 3 + Len(Operators[10])])
      BY <2>2, <3>1, <3>2, <3>3 DEF TokenRules
    <3> QED BY <1>5, <2>3, <3>4 DEF bar
  <2>5. Following(bar, <<a>>) = <<bar>> \o <<a>>
    <3>1. <<a>>[1].kind # "error"
      BY <1>6
    <3> QED BY <3>1, FollowingIs
  <2>6. <<bar>> \o <<a>> = <<bar, a>>
    <3>1. Prepends(bar, a, a, a)
      BY Prepended
    <3> QED BY <3>1 DEF Prepends
  <2> QED BY <1>8, <2>4, <2>5, <2>6
<1>10. T[3] = <<word, bar, a>>
  <2>1. /\ ~EndsWord(x, 3) /\ ~OpensVariable(x, 3)
        /\ LexWord(x, 3) = [raw |-> q, at |-> m + 3]
    BY DEF WordInLine
  <2>2. LexWord(x, 3) # Bad
    <3>1. m + 3 # 0
      OBVIOUS
    <3> QED BY <2>1, <3>1 DEF Bad
  <2>3. T[3] = Following(word, T[m + 3])
    <3>1. TokenRules(x, T, 3) /\ T[3] = TokensFrom(x, T, 3)
      BY <1>4, <1>5
    <3>2. T[3] = Following(Token("word", LexWord(x, 3).raw), T[LexWord(x, 3).at])
      BY <2>1, <2>2, <3>1, Zenon DEF TokenRules
    <3>3. LexWord(x, 3).raw = q /\ LexWord(x, 3).at = m + 3
      BY <2>1
    <3> QED BY <3>2, <3>3, Zenon DEF word
  <2>4. Following(word, <<bar, a>>) = <<word>> \o <<bar, a>>
    <3>1. <<bar, a>>[1].kind # "error"
      BY <1>6
    <3> QED BY <3>1, FollowingIs
  <2>5. <<word>> \o <<bar, a>> = <<word, bar, a>>
    <3>1. Prepends(word, bar, a, a)
      BY Prepended
    <3> QED BY <3>1 DEF Prepends
  <2> QED BY <1>9, <2>3, <2>4, <2>5
<1>11. T[2] = T[3]
  <2>1. 2 <= Len(x) /\ 2 \in 1 .. n + 1 /\ 2 + 1 = 3
    BY <1>2, <1>5
  <2>2. x[2] \in Blanks
    BY <1>1 DEF Blanks
  <2> QED BY <1>4, <2>1, <2>2 DEF TokenRules
<1>12. T[1] = <<a, word, bar, a>>
  <2>1. EndsWord(x, 2)
    <3>1. x[2] \in Blanks \cup {"#"}
      BY <1>1 DEF Blanks
    <3>2. 2 <= Len(x)
      BY <1>2, <1>5
    <3> QED BY <3>1, <3>2 DEF EndsWord
  <2>2. /\ ~EndsWord(x, 1) /\ ~OpensVariable(x, 1)
        /\ LexWord(x, 1) = [raw |-> <<"a">>, at |-> 2]
    <3>1. 1 + 1 = 2
      OBVIOUS
    <3> QED BY <1>1, <1>2, <1>5, <2>1, <3>1, LetterWord
  <2>3. LexWord(x, 1) # Bad
    BY <2>2 DEF Bad
  <2>4. T[1] = Following(a, T[2])
    BY <1>4, <1>5, <2>2, <2>3 DEF TokenRules, a
  <2>5. Following(a, <<word, bar, a>>) = <<a>> \o <<word, bar, a>>
    <3>1. <<word, bar, a>>[1].kind # "error"
      BY <1>6
    <3> QED BY <3>1, FollowingIs
  <2>6. <<a>> \o <<word, bar, a>> = <<a, word, bar, a>>
    <3>1. Prepends(a, word, bar, a)
      BY Prepended
    <3> QED BY <3>1 DEF Prepends
  <2> QED BY <1>10, <1>11, <2>4, <2>5, <2>6
<1> QED BY <1>3, <1>12 DEF LineTokens, a, word, bar

-------------------------------------------------------------------------------
(* What the tokens are parsed to *)

\* Sets with one, two or three numbers in their order.
Orders(a, b, c) ==
  /\ Len(InOrder({a})) = 1 /\ InOrder({a})[1] = a
  /\ Len(InOrder({a, b})) = 2 /\ InOrder({a, b})[1] = a /\ InOrder({a, b})[2] = b
  /\ Len(InOrder({a, b, c})) = 3 /\ InOrder({a, b, c})[1] = a
  /\ InOrder({a, b, c})[2] = b /\ InOrder({a, b, c})[3] = c

\* The k-th number of a set is the one up to which there are k.
UpTo(S, i) == Cardinality({j \in S : j <= i})

LEMMA KthIs ==
  ASSUME NEW S, NEW k, k \in 1 .. Cardinality(S), NEW i \in S, UpTo(S, i) = k,
         \A e \in S : UpTo(S, e) = k => e = i
  PROVE  InOrder(S)[k] = i
<1>1. InOrder(S)[k] = CHOOSE e \in S : UpTo(S, e) = k
  BY DEF InOrder, UpTo
<1> QED BY <1>1

LEMMA Ordered ==
  ASSUME NEW a \in Nat, NEW b \in Nat, NEW c \in Nat, a < b, b < c
  PROVE  Orders(a, b, c)
<1>1. /\ IsFiniteSet({}) /\ Cardinality({}) = 0
      /\ IsFiniteSet({a}) /\ Cardinality({a}) = 1
  BY FS_EmptySet, FS_Singleton
<1>2. IsFiniteSet({a, b}) /\ Cardinality({a, b}) = 2
  <2>1. b \notin {a} /\ {a} \cup {b} = {a, b}
    OBVIOUS
  <2> QED BY <1>1, <2>1, FS_AddElement
<1>3. Cardinality({a, b, c}) = 3
  <2>1. c \notin {a, b} /\ {a, b} \cup {c} = {a, b, c}
    OBVIOUS
  <2> QED BY <1>2, <2>1, FS_AddElement
<1>4. ASSUME NEW S, NEW n \in Nat, Cardinality(S) = n PROVE Len(InOrder(S)) = n
  BY <1>4 DEF InOrder
<1>5. Len(InOrder({a})) = 1 /\ Len(InOrder({a, b})) = 2 /\ Len(InOrder({a, b, c})) = 3
  <2>1. Len(InOrder({a})) = 1
    BY <1>1, <1>4
  <2>2. Len(InOrder({a, b})) = 2
    BY <1>2, <1>4
  <2>3. Len(InOrder({a, b, c})) = 3
    BY <1>3, <1>4
  <2> QED BY <2>1, <2>2, <2>3
<1>6. InOrder({a})[1] = a
  <2>1. {j \in {a} : j <= a} = {a}
    OBVIOUS
  <2>2. UpTo({a}, a) = 1 /\ 1 \in 1 .. Cardinality({a})
    BY <1>1, <2>1 DEF UpTo
  <2> QED BY <2>2, KthIs
<1>7. InOrder({a, b})[1] = a /\ InOrder({a, b})[2] = b
  <2>1. PICK S : S = {a, b}
    OBVIOUS
  <2>2. {j \in S : j <= a} = {a} /\ {j \in S : j <= b} = {a, b}
    BY <2>1
  <2>3. /\ UpTo(S, a) = 1 /\ UpTo(S, b) = 2
        /\ Cardinality(S) = 2 /\ a \in S /\ b \in S /\ \A e \in S : e = a \/ e = b
    BY <1>1, <1>2, <2>1, <2>2 DEF UpTo
  <2>4. InOrder(S)[1] = a
    <3>1. \A e \in S : UpTo(S, e) = 1 => e = a
      BY <2>3
    <3>2. 1 \in 1 .. Cardinality(S)
      BY <2>3
    <3> QED BY <2>3, <3>1, <3>2, KthIs
  <2>5. InOrder(S)[2] = b
    <3>1. \A e \in S : UpTo(S, e) = 2 => e = b
      BY <2>3
    <3>2. 2 \in 1 .. Cardinality(S)
      BY <2>3
    <3> QED BY <2>3, <3>1, <3>2, KthIs
  <2> QED BY <2>1, <2>4, <2>5
<1>8. /\ InOrder({a, b, c})[1] = a /\ InOrder({a, b, c})[2] = b
      /\ InOrder({a, b, c})[3] = c
  <2>1. PICK S : S = {a, b, c}
    OBVIOUS
  <2>2. /\ {j \in S : j <= a} = {a} /\ {j \in S : j <= b} = {a, b}
        /\ {j \in S : j <= c} = {a, b, c}
    BY <2>1
  <2>3. /\ UpTo(S, a) = 1 /\ UpTo(S, b) = 2
        /\ UpTo(S, c) = 3 /\ Cardinality(S) = 3
        /\ a \in S /\ b \in S /\ c \in S /\ \A e \in S : e = a \/ e = b \/ e = c
    BY <1>1, <1>2, <1>3, <2>1, <2>2 DEF UpTo
  <2>4. InOrder(S)[1] = a
    <3>1. \A e \in S : UpTo(S, e) = 1 => e = a
      BY <2>3
    <3>2. 1 \in 1 .. Cardinality(S)
      BY <2>3
    <3> QED BY <2>3, <3>1, <3>2, KthIs
  <2>5. InOrder(S)[2] = b
    <3>1. \A e \in S : UpTo(S, e) = 2 => e = b
      BY <2>3
    <3>2. 2 \in 1 .. Cardinality(S)
      BY <2>3
    <3> QED BY <2>3, <3>1, <3>2, KthIs
  <2>6. InOrder(S)[3] = c
    <3>1. \A e \in S : UpTo(S, e) = 3 => e = c
      BY <2>3
    <3>2. 3 \in 1 .. Cardinality(S)
      BY <2>3
    <3> QED BY <2>3, <3>1, <3>2, KthIs
  <2> QED BY <2>1, <2>4, <2>5, <2>6
<1> QED BY <1>5, <1>6, <1>7, <1>8 DEF Orders

\* Tokens without an operator of raws are one part.
LEMMA NoCuts ==
  ASSUME NEW D, NEW ts \in Seq(D), NEW raws, NEW n \in Nat, Len(ts) = n,
         \A i \in 1 .. n : ~IsOp(ts[i], raws)
  PROVE  Split(ts, raws) = <<ts>>
<1> DEFINE cuts == {0, Len(ts) + 1} \cup {i \in 1 .. Len(ts) : IsOp(ts[i], raws)}
           at   == InOrder(cuts)
<1>1. Split(ts, raws) = [k \in 1 .. Len(at) - 1 |-> SubSeq(ts, at[k] + 1, at[k + 1] - 1)]
  BY Zenon DEF Split, Cuts
<1>2. cuts = {0, n + 1}
  OBVIOUS
<1>3. Len(at) = 2 /\ at[1] = 0 /\ at[2] = n + 1
  <2>1. 0 < n + 1 /\ n + 1 < n + 2 /\ n + 1 \in Nat /\ n + 2 \in Nat
    OBVIOUS
  <2>2. Orders(0, n + 1, n + 2)
    BY <2>1, Ordered
  <2> HIDE DEF cuts
  <2> QED BY <1>2, <2>2 DEF Orders
<1> HIDE DEF at
<1>4. Split(ts, raws) = [k \in 1 .. 1 |-> SubSeq(ts, at[k] + 1, at[k + 1] - 1)]
  BY <1>1, <1>3
<1>5. SubSeq(ts, at[1] + 1, at[1 + 1] - 1) = ts
  <2>1. at[1] + 1 = 1 /\ at[1 + 1] - 1 = n
    BY <1>3
  <2> QED BY <2>1, SubSeqFull
<1>6. Split(ts, raws) = [k \in 1 .. 1 |-> ts]
  BY <1>4, <1>5
<1> QED BY <1>6

\* Tokens of a command of words alone.
LEMMA CommandOfWords ==
  ASSUME NEW D, NEW ts \in Seq(D), NEW n \in {1, 2}, Len(ts) = n,
         \A i \in 1 .. n : ts[i].kind = "word", ~Assigns(ts[1].raw)
  PROVE  Command(ts) = [assignments |-> <<>>, argv |-> ts, redirects |-> <<>>]
<1> DEFINE target == {i \in 2 .. Len(ts) : NeedsTarget(ts[i - 1])}
           words  == {i \in 1 .. Len(ts) : ts[i].kind = "word"} \ target
           prefix == {i \in words : Prefix(ts, i)}
<1>1. Command(ts) =
        [assignments |-> Chosen(ts, prefix), argv |-> Chosen(ts, words \ prefix),
         redirects   |-> Chosen(ts, (1 .. Len(ts)) \ words)]
  BY Zenon DEF Command
<1>2. target = {}
  <2>1. \A i \in 2 .. n : i - 1 \in 1 .. n
    OBVIOUS
  <2> QED BY <2>1 DEF NeedsTarget, IsRedirect
<1>3. words = 1 .. n
  <2> HIDE DEF target
  <2> QED BY <1>2
<1> HIDE DEF words
<1>4. prefix = {}
  <2>1. \A i \in 1 .. n : 1 \in 1 .. i
    OBVIOUS
  <2> QED BY <1>3, <2>1 DEF Prefix
<1> HIDE DEF prefix
<1>5. Chosen(ts, {}) = <<>>
  BY FS_EmptySet DEF Chosen
<1>6. Chosen(ts, 1 .. n) = ts
  <2>1. Orders(1, 2, 3)
    BY Ordered
  <2>2. Len(InOrder(1 .. n)) = n /\ \A k \in 1 .. n : InOrder(1 .. n)[k] = k
    <3>1. CASE n = 1
      <4>1. 1 .. n = {1}
        BY <3>1
      <4> QED BY <2>1, <3>1, <4>1 DEF Orders
    <3>2. CASE n = 2
      <4>1. 1 .. n = {1, 2}
        BY <3>2
      <4> QED BY <2>1, <3>2, <4>1 DEF Orders
    <3> QED BY <3>1, <3>2
  <2>3. Cardinality(1 .. n) = n
    BY FS_Interval
  <2>4. Chosen(ts, 1 .. n) = [k \in 1 .. n |-> ts[k]]
    BY <2>2, <2>3 DEF Chosen
  <2> QED BY <2>4
<1>7. words \ prefix = 1 .. n /\ (1 .. Len(ts)) \ words = {}
  BY <1>3, <1>4
<1> QED BY <1>1, <1>4, <1>5, <1>6, <1>7, Zenon

\* What the line is parsed to: two commands of words, with a pipe between them.
LineParsed(q) ==
  LET a  == Token("word", <<"a">>)
      ts == LineTokens(q)
      Stage(words) == [assignments |-> <<>>, argv |-> words, redirects |-> <<>>]
  IN  /\ ~Rejected(ts)
      /\ Parsed(ts) = <<[pipelines |-> << <<Stage(<<a, ts[2]>>), Stage(<<a>>)>> >>,
                         ops |-> <<>>]>>

LEMMA LineIsParsed ==
  ASSUME NEW q
  PROVE  LineParsed(q)
<1> DEFINE a    == Token("word", <<"a">>)
           word == Token("word", q)
           bar  == Token("op", Bar)
           D    == {a, word, bar}
<1>1. /\ a.kind = "word" /\ a.raw = <<"a">> /\ word.kind = "word"
      /\ bar.kind = "op" /\ bar.raw = Bar
  BY DEF Token
<1> HIDE DEF a, word, bar
<1>2. PICK ts : ts = <<a, word, bar, a>>
  OBVIOUS
<1>3. /\ ts \in Seq(D) /\ Len(ts) = 4
      /\ ts[1] = a /\ ts[2] = word /\ ts[3] = bar /\ ts[4] = a
  BY <1>2
<1>4. LineTokens(q) = ts
  BY <1>2, Zenon DEF LineTokens, a, word, bar
<1>5. Bar # Semicolon /\ Bar \notin Links /\ Bar \in Separator
  BY DEF Bar, Semicolon, Links, Separator
<1>6. ~Assigns(a.raw)
  <2>0. PICK w : w = <<"a">>
    OBVIOUS
  <2>1. w = <<"a">> /\ Len(w) = 1 /\ Len(w) \in Nat /\ 1 \in Nat \ {0}
    BY <2>0
  <2>2. NameEnd(w, 1) = 1 - 1 \/ NameEnd(w, 1) \in 1 .. Len(w)
    BY <2>1, NameThere
  <2>3. ~ (NameEnd(w, 1) > 0 /\ NameEnd(w, 1) < Len(w))
    BY <2>1, <2>2
  <2> QED BY <1>1, <2>1, <2>3 DEF Assigns
<1>7. \A i \in 1 .. 4 : i = 1 \/ i = 2 \/ i = 3 \/ i = 4
  OBVIOUS
<1> HIDE DEF D
<1>8. ASSUME NEW raws, Bar \notin raws PROVE Split(ts, raws) = <<ts>>
  <2>1. \A i \in 1 .. 4 : ~IsOp(ts[i], raws)
    BY <1>1, <1>3, <1>7, <1>8 DEF IsOp
  <2> QED BY <1>3, <2>1, NoCuts
<1>9. Split(ts, {Bar}) = <<<<a, word>>, <<a>>>>
  <2> DEFINE cuts == {0, Len(ts) + 1} \cup {i \in 1 .. Len(ts) : IsOp(ts[i], {Bar})}
             at   == InOrder(cuts)
  <2>1. Split(ts, {Bar}) = [k \in 1 .. Len(at) - 1 |-> SubSeq(ts, at[k] + 1, at[k + 1] - 1)]
    BY Zenon DEF Split, Cuts
  <2>2. {i \in 1 .. 4 : IsOp(ts[i], {Bar})} = {3}
    BY <1>1, <1>3, <1>7 DEF IsOp
  <2>3. cuts = {0, 3, 5}
    <3>1. cuts = {0, 4 + 1} \cup {i \in 1 .. 4 : IsOp(ts[i], {Bar})}
      BY <1>3
    <3> HIDE DEF cuts
    <3>2. cuts = {0, 5} \cup {3}
      BY <2>2, <3>1
    <3> QED BY <3>2
  <2>4. Len(at) = 3 /\ at[1] = 0 /\ at[2] = 3 /\ at[3] = 5
    <3>1. Orders(0, 3, 5)
      BY Ordered
    <3> HIDE DEF cuts
    <3> QED BY <2>3, <3>1 DEF Orders
  <2> HIDE DEF at
  <2>5. Split(ts, {Bar}) = [k \in 1 .. 2 |-> SubSeq(ts, at[k] + 1, at[k + 1] - 1)]
    BY <2>1, <2>4
  <2>6. SubSeq(ts, 1, 2) = <<a, word>> /\ SubSeq(ts, 4, 4) = <<a>>
    <3>1. \A i \in 1 .. 4 : ts[i] \in D
      BY <1>3, ElementOfSeq
    <3>2. PICK u : u = SubSeq(ts, 1, 2)
      OBVIOUS
    <3>3. u \in Seq(D) /\ Len(u) = 2 /\ u[1] = a /\ u[2] = word
      <4>1. /\ u \in Seq(D) /\ Len(u) = IF 1 <= 2 THEN 2 - 1 + 1 ELSE 0
            /\ \A i \in 1 .. 2 - 1 + 1 : u[i] = ts[1 + i - 1]
        BY <3>1, <3>2, SubSeqProperties
      <4>2. u[1] = ts[1 + 1 - 1] /\ u[2] = ts[1 + 2 - 1]
        BY <4>1
      <4> QED BY <1>3, <4>1, <4>2
    <3>4. PICK v : v = SubSeq(ts, 4, 4)
      OBVIOUS
    <3>5. v \in Seq(D) /\ Len(v) = 1 /\ v[1] = a
      <4>1. /\ v \in Seq(D) /\ Len(v) = IF 4 <= 4 THEN 4 - 4 + 1 ELSE 0
            /\ \A i \in 1 .. 4 - 4 + 1 : v[i] = ts[4 + i - 1]
        BY <3>1, <3>4, SubSeqProperties
      <4>2. v[1] = ts[4 + 1 - 1]
        BY <4>1
      <4> QED BY <1>3, <4>1, <4>2
    <3>6. u = <<a, word>>
      BY <3>3
    <3>7. v = <<a>>
      BY <3>5
    <3> QED BY <3>2, <3>4, <3>6, <3>7
  <2>7. SubSeq(ts, at[1] + 1, at[1 + 1] - 1) = <<a, word>>
        /\ SubSeq(ts, at[2] + 1, at[2 + 1] - 1) = <<a>>
    BY <2>4, <2>6
  <2>8. PICK u, v : u = <<a, word>> /\ v = <<a>>
    OBVIOUS
  <2>9. Split(ts, {Bar}) = <<u, v>>
    <3>1. PICK f : f = [k \in 1 .. 2 |-> SubSeq(ts, at[k] + 1, at[k + 1] - 1)]
      OBVIOUS
    <3>2. f[1] = u /\ f[2] = v
      BY <2>7, <2>8, <3>1
    <3>3. f = [k \in 1 .. 2 |-> f[k]]
      BY <3>1
    <3>4. f = <<u, v>>
      BY <3>2, <3>3
    <3> QED BY <2>5, <3>1, <3>4
  <2> QED BY <2>8, <2>9
<1> DEFINE Stage(words) == [assignments |-> <<>>, argv |-> words, redirects |-> <<>>]
<1>10. Command(<<a, word>>) = Stage(<<a, word>>)
  <2>1. PICK l \in Seq(D) : l = <<a, word>> /\ Len(l) = 2 /\ l[1] = a /\ l[2] = word
    <3>1. <<a, word>> \in Seq(D)
      BY DEF D
    <3> QED BY <3>1
  <2>2. \A i \in 1 .. 2 : l[i].kind = "word"
    BY <1>1, <2>1
  <2>3. ~Assigns(l[1].raw)
    BY <1>6, <2>1
  <2> QED BY <2>1, <2>2, <2>3, CommandOfWords
<1>11. Command(<<a>>) = Stage(<<a>>)
  <2>1. PICK l \in Seq(D) : l = <<a>> /\ Len(l) = 1 /\ l[1] = a
    <3>1. <<a>> \in Seq(D)
      BY DEF D
    <3> QED BY <3>1
  <2>2. \A i \in 1 .. 1 : l[i].kind = "word"
    BY <1>1, <2>1
  <2>3. ~Assigns(l[1].raw)
    BY <1>6, <2>1
  <2> QED BY <2>1, <2>2, <2>3, CommandOfWords
<1>12. PipelineOf(ts) = <<Stage(<<a, word>>), Stage(<<a>>)>>
  <2>1. PICK parts : parts = Split(ts, {Bar})
    OBVIOUS
  <2>2. Len(parts) = 2 /\ parts[1] = <<a, word>> /\ parts[2] = <<a>>
    BY <1>9, <2>1
  <2>3. PipelineOf(ts) = [k \in 1 .. Len(parts) |-> Command(parts[k])]
    BY <2>1 DEF PipelineOf
  <2>4. Command(parts[1]) = Stage(<<a, word>>) /\ Command(parts[2]) = Stage(<<a>>)
    BY <1>10, <1>11, <2>2
  <2> HIDE DEF Stage
  <2>5. PipelineOf(ts) = [k \in 1 .. 2 |-> Command(parts[k])]
    BY <2>2, <2>3
  <2> QED BY <2>4, <2>5
<1> HIDE DEF Stage
<1>13. AndOr(ts) = [pipelines |-> <<PipelineOf(ts)>>, ops |-> <<>>]
  <2>1. Split(ts, Links) = <<ts>>
    BY <1>5, <1>8
  <2>2. {i \in 1 .. Len(ts) : IsOp(ts[i], Links)} = {}
    BY <1>1, <1>3, <1>5, <1>7 DEF IsOp
  <2>3. Chosen(ts, {}) = <<>>
    BY FS_EmptySet DEF Chosen
  <2>4. PICK parts : parts = Split(ts, Links) /\ Len(parts) = 1 /\ parts[1] = ts
    BY <2>1
  <2>5. AndOr(ts) = [pipelines |-> [k \in 1 .. Len(parts) |-> PipelineOf(parts[k])],
                     ops |-> Chosen(ts, {i \in 1 .. Len(ts) : IsOp(ts[i], Links)})]
    BY <2>4, Zenon DEF AndOr
  <2>6. [k \in 1 .. 1 |-> PipelineOf(parts[k])] = <<PipelineOf(ts)>>
    BY <2>4
  <2> QED BY <2>2, <2>3, <2>4, <2>5, <2>6
<1>14. Parsed(ts) = <<AndOr(ts)>>
  <2>1. PICK lists : lists = Split(ts, {Semicolon}) /\ Len(lists) = 1 /\ lists[1] = ts
    BY <1>5, <1>8
  <2>2. Parsed(ts) = [k \in 1 .. Len(lists) |-> AndOr(lists[k])]
    <3>1. ~ (Len(lists) > 1)
      BY <2>1
    <3> QED BY <2>1, <3>1, Zenon DEF Parsed
  <2>3. [k \in 1 .. 1 |-> AndOr(lists[k])] = <<AndOr(ts)>>
    BY <2>1
  <2> QED BY <2>1, <2>2, <2>3
<1>15. ~Rejected(ts)
  <2>1. ts # <<>> /\ ts # Failed
    <3>1. Len(Failed) = 1 /\ Len(<<>>) = 0
      BY DEF Failed
    <3> QED BY <1>3, <3>1
  <2>2. \A i \in 1 .. Len(ts) : ~NeedsTarget(ts[i])
    BY <1>1, <1>3, <1>5, <1>7 DEF NeedsTarget, IsRedirect
  <2>3. PICK parts : /\ parts = Split(ts, {Semicolon} \cup Links)
                     /\ Len(parts) = 1 /\ parts[1] = ts
    BY <1>5, <1>8
  <2>4. Len(Split(ts, {Bar})) = 2
    BY <1>9
  <2>5. ASSUME NEW k \in 1 .. Len(parts) PROVE ~ (Len(Split(parts[k], {Bar})) > 2)
    <3>1. k = 1
      <4>1. k \in 1 .. 1
        BY <2>3
      <4> QED BY <4>1
    <3>2. parts[k] = ts
      BY <2>3, <3>1
    <3>3. ~ (2 > 2)
      OBVIOUS
    <3> QED BY <2>4, <3>2, <3>3
  <2> QED BY <2>1, <2>2, <2>3, <2>5, Zenon DEF Rejected
<1>16. Parsed(ts) = <<[pipelines |-> << <<Stage(<<a, ts[2]>>), Stage(<<a>>)>> >>,
                       ops |-> <<>>]>>
  BY <1>3, <1>12, <1>13, <1>14
<1> QED BY <1>4, <1>15, <1>16, Zenon DEF LineParsed, a, Stage

\* A quoted text in a command line is one word, which stands for the text, and the rest of
\* the line is parsed as if it were any other word: what shlex.quote gives to _compile is
\* read as shlex.quote meant it, whatever the text.
THEOREM QuoteReadBack ==
  ASSUME NEW C, NEW s \in Seq(C)
  PROVE  QuoteHolds(s)
<1> DEFINE q == Quote(s)
<1>1. PICK m \in Nat : Len(q) = m
  <2>1. CASE NeedsNoQuotes(s)
    BY <2>1 DEF Quote
  <2>2. CASE ~NeedsNoQuotes(s)
    <3>1. q \in Seq(C \cup {"'", DoubleQuote})
      BY <2>2, QuoteLays
    <3> HIDE DEF q
    <3> QED BY <3>1
  <2> QED BY <2>1, <2>2
<1>2. WordInLine(InLine(q), q, m, s)
  BY <1>1, QuotedInLine, SafeInLine
<1>3. Tokens(InLine(q)) = LineTokens(q)
  BY <1>2, TokensAre
<1>4. LineParsed(q)
  BY LineIsParsed
<1>5. LineTokens(q)[2].raw = q /\ Expand(q) = s
  <2>1. LineTokens(q)[2] = Token("word", q)
    BY DEF LineTokens
  <2>2. Expand(q) = s
    BY <1>2 DEF WordInLine
  <2> HIDE DEF q
  <2> QED BY <2>1, <2>2 DEF Token
<1>6. InLine(q) = <<"a", " ">> \o Quote(s) \o <<"|", "a">>
  BY Zenon DEF InLine
<1> HIDE DEF q
<1>7. Tokens(<<"a", " ">> \o Quote(s) \o <<"|", "a">>) = LineTokens(q)
  BY <1>3, <1>6
<1> QED BY <1>4, <1>5, <1>7, Zenon DEF LineParsed, QuoteHolds

-------------------------------------------------------------------------------
(* Numbers in their order *)


\* The places of the numbers of S are different ones, from 1 on.
LEMMA UpToIn ==
  ASSUME NEW n \in Nat, NEW S \in SUBSET (0 .. n)
  PROVE  /\ IsFiniteSet(S) /\ Cardinality(S) \in Nat
         /\ \A i \in S : UpTo(S, i) \in 1 .. Cardinality(S)
         /\ \A i, j \in S : i < j => UpTo(S, i) < UpTo(S, j)
<1> DEFINE Below(i) == {j \in S : j <= i}
<1>1. IsFiniteSet(S) /\ Cardinality(S) \in Nat
  <2>1. IsFiniteSet(0 .. n)
    BY FS_Interval
  <2> QED BY <2>1, FS_Subset, FS_CardinalityType
<1>2. ASSUME NEW i \in S
      PROVE  /\ IsFiniteSet(Below(i)) /\ Cardinality(Below(i)) \in Nat
             /\ Cardinality(Below(i)) \in 1 .. Cardinality(S)
  <2>1. Below(i) \in SUBSET S /\ i \in Below(i)
    OBVIOUS
  <2> HIDE DEF Below
  <2>2. IsFiniteSet(Below(i)) /\ Cardinality(Below(i)) <= Cardinality(S)
    BY <1>1, <2>1, FS_Subset
  <2>3. Cardinality(Below(i)) \in Nat /\ Cardinality(Below(i)) # 0
    BY <2>1, <2>2, FS_CardinalityType, FS_EmptySet
  <2> QED BY <1>1, <2>2, <2>3
<1>3. ASSUME NEW i \in S, NEW j \in S, i < j PROVE Cardinality(Below(i)) < Cardinality(Below(j))
  <2>0. i \in Int /\ j \in Int /\ S \in SUBSET Int
    OBVIOUS
  <2>1. Below(i) \in SUBSET Below(j) /\ j \in Below(j) /\ j \notin Below(i)
    <3>1. ASSUME NEW k \in S, k <= i PROVE k <= j
      BY <1>3, <2>0, <3>1
    <3>2. j <= j /\ ~ (j <= i)
      BY <1>3, <2>0
    <3> QED BY <3>1, <3>2
  <2>2. IsFiniteSet(Below(j)) /\ Cardinality(Below(i)) \in Nat /\ Cardinality(Below(j)) \in Nat
    BY <1>2
  <2> HIDE DEF Below
  <2>3. Cardinality(Below(i)) <= Cardinality(Below(j)) /\
        (Cardinality(Below(j)) = Cardinality(Below(i)) => Below(j) = Below(i))
    BY <2>1, <2>2, FS_Subset
  <2> QED BY <2>1, <2>2, <2>3
<1> QED BY <1>1, <1>2, <1>3 DEF UpTo

\* InOrder and UpTo are inverse.
LEMMA InOrderIs ==
  ASSUME NEW n \in Nat, NEW S \in SUBSET (0 .. n)
  PROVE  /\ InOrder(S) = [k \in 1 .. Cardinality(S) |-> InOrder(S)[k]]
         /\ \A i \in S : InOrder(S)[UpTo(S, i)] = i
         /\ \A k \in 1 .. Cardinality(S) :
              InOrder(S)[k] \in S /\ UpTo(S, InOrder(S)[k]) = k
<1>1. /\ IsFiniteSet(S) /\ Cardinality(S) \in Nat
      /\ \A i \in S : UpTo(S, i) \in 1 .. Cardinality(S)
      /\ \A i, j \in S : i < j => UpTo(S, i) < UpTo(S, j)
  BY UpToIn
<1> DEFINE C == 1 .. Cardinality(S)
           f == [i \in S |-> UpTo(S, i)]
<1>2. \A i, j \in S : UpTo(S, i) = UpTo(S, j) => i = j
  <2>1. SUFFICES ASSUME NEW i \in S, NEW j \in S, i # j PROVE UpTo(S, i) # UpTo(S, j)
    OBVIOUS
  <2>2. i < j \/ j < i
    BY <2>1
  <2> QED BY <1>1, <2>2
<1>3. \A k \in C : \E i \in S : UpTo(S, i) = k
  <2>1. f \in Injection(S, C)
    BY <1>1, <1>2 DEF Injection, IsInjective
  <2>2. IsFiniteSet(C) /\ Cardinality(C) = Cardinality(S)
    BY <1>1, FS_Interval
  <2>3. f \in Surjection(S, C)
    <3> HIDE DEF f, C
    <3> QED BY <2>1, <2>2, FS_Injection
  <2> QED BY <2>3 DEF Surjection
<1>4. InOrder(S) = [k \in C |-> CHOOSE i \in S : UpTo(S, i) = k]
  BY DEF InOrder, UpTo
<1>5. \A k \in C : InOrder(S)[k] \in S /\ UpTo(S, InOrder(S)[k]) = k
  BY <1>3, <1>4
<1>6. ASSUME NEW i \in S PROVE InOrder(S)[UpTo(S, i)] = i
  <2>1. PICK k \in C : k = UpTo(S, i)
    BY <1>1
  <2>2. InOrder(S)[k] \in S /\ UpTo(S, InOrder(S)[k]) = UpTo(S, i)
    BY <1>5, <2>1
  <2> QED BY <1>2, <2>1, <2>2
<1> QED BY <1>4, <1>5, <1>6

\* If the numbers of A are smaller than those of B, these come after them.
LEMMA UpToAfter ==
  ASSUME NEW n \in Nat, NEW A \in SUBSET (0 .. n), NEW B \in SUBSET (0 .. n),
         \A i \in A, j \in B : i < j
  PROVE  /\ Cardinality(A \cup B) = Cardinality(A) + Cardinality(B)
         /\ \A i \in A : UpTo(A \cup B, i) = UpTo(A, i)
         /\ \A j \in B : UpTo(A \cup B, j) = Cardinality(A) + UpTo(B, j)
<1>1. IsFiniteSet(A) /\ IsFiniteSet(B) /\ Cardinality(A) \in Nat
  BY UpToIn
<1>2. ASSUME NEW T \in SUBSET B PROVE Cardinality(A \cup T) = Cardinality(A) + Cardinality(T)
  <2>1. IsFiniteSet(T) /\ Cardinality(T) \in Nat
    BY <1>1, FS_Subset, FS_CardinalityType
  <2>2. A \cap T = {}
    <3>1. \A i \in A : i \in Int /\ ~ (i < i)
      OBVIOUS
    <3> QED BY <3>1
  <2>3. Cardinality(A \cup T) = Cardinality(A) + Cardinality(T) - Cardinality(A \cap T)
    BY <1>1, <2>1, FS_Union
  <2>4. Cardinality(A \cap T) = 0
    BY <2>2, FS_EmptySet
  <2> QED BY <1>1, <2>1, <2>3, <2>4
<1>3. ASSUME NEW i \in A PROVE UpTo(A \cup B, i) = UpTo(A, i)
  <2>1. {j \in A \cup B : j <= i} = {j \in A : j <= i}
    <3>1. ASSUME NEW j \in B PROVE ~ (j <= i)
      <4>1. i < j /\ i \in Int /\ j \in Int
        OBVIOUS
      <4> QED BY <4>1
    <3> QED BY <3>1
  <2> QED BY <2>1 DEF UpTo
<1>4. ASSUME NEW j \in B PROVE UpTo(A \cup B, j) = Cardinality(A) + UpTo(B, j)
  <2>1. {i \in A \cup B : i <= j} = A \cup {i \in B : i <= j}
    <3>1. ASSUME NEW i \in A PROVE i <= j
      <4>1. i < j /\ i \in Int /\ j \in Int
        OBVIOUS
      <4> QED BY <4>1
    <3> QED BY <3>1
  <2> QED BY <1>2, <2>1 DEF UpTo
<1> QED BY <1>2, <1>3, <1>4

-------------------------------------------------------------------------------
(* The members of a sequence at some positions *)

LEMMA ChosenIs ==
  ASSUME NEW T, NEW ts \in Seq(T), NEW S \in SUBSET (1 .. Len(ts))
  PROVE  /\ Chosen(ts, S) \in Seq(T) /\ Len(Chosen(ts, S)) = Cardinality(S)
         /\ \A i \in S : Chosen(ts, S)[UpTo(S, i)] = ts[i]
<1>1. PICK n \in Nat : n = Len(ts)
  BY LenProperties
<1>2. S \in SUBSET (0 .. n) /\ \A i \in S : ts[i] \in T
  BY <1>1
<1>3. /\ Cardinality(S) \in Nat
      /\ \A i \in S : UpTo(S, i) \in 1 .. Cardinality(S)
  BY <1>2, UpToIn
<1>4. /\ \A i \in S : InOrder(S)[UpTo(S, i)] = i
      /\ \A k \in 1 .. Cardinality(S) : InOrder(S)[k] \in S
  BY <1>2, InOrderIs
<1>5. Chosen(ts, S) = [k \in 1 .. Cardinality(S) |-> ts[InOrder(S)[k]]]
  BY DEF Chosen
<1>6. \A k \in 1 .. Cardinality(S) : ts[InOrder(S)[k]] \in T
  BY <1>2, <1>4
<1>7. Chosen(ts, S) \in [1 .. Cardinality(S) -> T]
  BY <1>5, <1>6
<1>8. Chosen(ts, S) \in Seq(T) /\ Len(Chosen(ts, S)) = Cardinality(S)
  BY <1>3, <1>7
<1> QED BY <1>3, <1>4, <1>5, <1>8

\* There is no other sequence like that.
LEMMA ChosenOnly ==
  ASSUME NEW n \in Nat, NEW ts, NEW S \in SUBSET (0 .. n), NEW A, NEW w \in Seq(A),
         Len(w) = Cardinality(S), \A i \in S : w[UpTo(S, i)] = ts[i]
  PROVE  w = Chosen(ts, S)
<1>1. \A k \in 1 .. Cardinality(S) : InOrder(S)[k] \in S /\ UpTo(S, InOrder(S)[k]) = k
  BY InOrderIs
<1>2. \A k \in 1 .. Cardinality(S) : w[k] = ts[InOrder(S)[k]]
  BY <1>1
<1>3. w = [k \in 1 .. Cardinality(S) |-> w[k]]
  BY LenProperties
<1> QED BY <1>2, <1>3, Zenon DEF Chosen

\* What is at the positions of B comes after what is at those of A.
LEMMA ChosenAfter ==
  ASSUME NEW T, NEW ts \in Seq(T), NEW A \in SUBSET (1 .. Len(ts)), NEW B \in SUBSET (1 .. Len(ts)),
         \A i \in A, j \in B : i < j
  PROVE  Chosen(ts, A \cup B) = Chosen(ts, A) \o Chosen(ts, B)
<1>1. PICK n \in Nat : n = Len(ts)
  BY LenProperties
<1>2. A \in SUBSET (0 .. n) /\ B \in SUBSET (0 .. n)
  BY <1>1
<1>3. /\ Cardinality(A) \in Nat /\ Cardinality(B) \in Nat
      /\ \A i \in A : UpTo(A, i) \in 1 .. Cardinality(A)
      /\ \A i \in B : UpTo(B, i) \in 1 .. Cardinality(B)
  BY <1>2, UpToIn
<1>4. /\ Cardinality(A \cup B) = Cardinality(A) + Cardinality(B)
      /\ \A i \in A : UpTo(A \cup B, i) = UpTo(A, i)
      /\ \A j \in B : UpTo(A \cup B, j) = Cardinality(A) + UpTo(B, j)
  BY <1>2, UpToAfter
<1>5. PICK u \in Seq(T), v \in Seq(T) : u = Chosen(ts, A) /\ v = Chosen(ts, B)
  BY ChosenIs
<1>6. /\ Len(u) = Cardinality(A) /\ \A i \in A : u[UpTo(A, i)] = ts[i]
      /\ Len(v) = Cardinality(B) /\ \A i \in B : v[UpTo(B, i)] = ts[i]
  BY <1>5, ChosenIs
<1>7. PICK w : w = u \o v
  OBVIOUS
<1>8. /\ w \in Seq(T) /\ Len(w) = Len(u) + Len(v)
      /\ \A i \in 1 .. Len(u) : w[i] = u[i]
      /\ \A d \in 1 .. Len(v) : w[Len(u) + d] = v[d]
  BY <1>7, Concat
<1>9. PICK P : P = A \cup B
  OBVIOUS
<1>10. ASSUME NEW i \in P PROVE w[UpTo(P, i)] = ts[i]
  <2>1. CASE i \in A
    <3>1. UpTo(P, i) = UpTo(A, i) /\ UpTo(A, i) \in 1 .. Len(u)
      BY <1>3, <1>4, <1>6, <1>9, <2>1
    <3> QED BY <1>6, <1>8, <2>1, <3>1
  <2>2. CASE i \in B
    <3>1. UpTo(P, i) = Len(u) + UpTo(B, i) /\ UpTo(B, i) \in 1 .. Len(v)
      BY <1>3, <1>4, <1>6, <1>9, <2>2
    <3> QED BY <1>6, <1>8, <2>2, <3>1
  <2> QED BY <1>9, <2>1, <2>2
<1>11. Len(w) = Cardinality(P) /\ P \in SUBSET (1 .. Len(ts))
  BY <1>4, <1>6, <1>8, <1>9
<1>12. w \in Seq(T) /\ P \in SUBSET (0 .. n)
  BY <1>2, <1>8, <1>9
<1>13. w = Chosen(ts, P)
  BY <1>10, <1>11, <1>12, ChosenOnly
<1> QED BY <1>5, <1>7, <1>9, <1>13

LEMMA ChosenOne ==
  ASSUME NEW T, NEW ts \in Seq(T), NEW i \in 1 .. Len(ts)
  PROVE  Chosen(ts, {i}) = <<ts[i]>>
<1>1. PICK n \in Nat : n = Len(ts)
  BY LenProperties
<1>2. PICK P : P = {i}
  OBVIOUS
<1>3. P \in SUBSET (0 .. n) /\ P \in SUBSET (1 .. Len(ts))
  BY <1>1, <1>2
<1>4. Cardinality(P) = 1
  BY <1>2, FS_Singleton
<1>5. UpTo(P, i) = 1
  <2>1. UpTo(P, i) \in 1 .. 1
    BY <1>2, <1>3, <1>4, UpToIn
  <2> QED BY <2>1
<1>6. PICK w : w = <<ts[i]>>
  OBVIOUS
<1>7. w \in Seq({ts[i]}) /\ Len(w) = 1 /\ w[1] = ts[i]
  BY <1>6
<1>8. \A j \in P : w[UpTo(P, j)] = ts[j]
  BY <1>2, <1>5, <1>7
<1>9. w = Chosen(ts, P)
  <2>1. w \in Seq({ts[i]})
    BY <1>7
  <2>2. Len(w) = Cardinality(P)
    BY <1>4, <1>7
  <2> QED BY <1>3, <1>8, <2>1, <2>2, ChosenOnly
<1> QED BY <1>2, <1>6, <1>9

\* The positions Y of a sequence are the positions X of its part that follows a.
AreIn(ts, a, Y, part, X) ==
  /\ \A d \in X : a + d \in Y /\ part[d] = ts[a + d]
  /\ \A y \in Y : y - a \in X

LEMMA ChosenPart ==
  ASSUME NEW T, NEW ts \in Seq(T), NEW a \in Nat, NEW part \in Seq(T),
         NEW X \in SUBSET (1 .. Len(part)), NEW Y \in SUBSET (1 .. Len(ts)),
         AreIn(ts, a, Y, part, X)
  PROVE  Chosen(part, X) = Chosen(ts, Y)
<1>1. PICK n \in Nat, m \in Nat : n = Len(ts) /\ m = Len(part)
  BY LenProperties
<1>4. /\ X \in SUBSET (0 .. m) /\ Y \in SUBSET (0 .. n)
      /\ \A y \in Y : y - a \in X /\ a + (y - a) = y
      /\ \A d \in X : a + d \in Y /\ part[d] = ts[a + d]
  BY <1>1 DEF AreIn
<1>5. IsFiniteSet(Y) /\ IsFiniteSet(X)
  BY <1>4, UpToIn
<1>6. ASSUME NEW P, NEW Q \in SUBSET X, P = {a + d : d \in Q}
      PROVE  Cardinality(P) = Cardinality(Q)
  <2> DEFINE f == [d \in Q |-> a + d]
  <2>1. Q \in SUBSET Nat
    BY <1>4
  <2>2. f \in Bijection(Q, P)
    <3>1. \A d, e \in Q : a + d = a + e => d = e
      BY <2>1
    <3> QED BY <1>6, <3>1 DEF Bijection, Injection, Surjection, IsInjective
  <2>3. IsFiniteSet(Q)
    BY <1>5, FS_Subset
  <2> HIDE DEF f
  <2> QED BY <2>2, <2>3, FS_Bijection DEF ExistsBijection
<1>7. Cardinality(Y) = Cardinality(X)
  <2>1. Y = {a + d : d \in X}
    BY <1>4
  <2> QED BY <1>6, <2>1
<1>8. ASSUME NEW d \in X PROVE UpTo(Y, a + d) = UpTo(X, d)
  <2> DEFINE P == {y \in Y : y <= a + d}
             Q == {e \in X : e <= d}
  <2>1. P = {a + e : e \in Q}
    <3>1. ASSUME NEW y \in P PROVE y - a \in Q
      BY <1>4
    <3>2. ASSUME NEW e \in Q PROVE a + e \in P
      BY <1>4
    <3>3. \A y \in P : a + (y - a) = y
      BY <1>4
    <3> HIDE DEF P, Q
    <3> QED BY <3>1, <3>2, <3>3
  <2>2. Q \in SUBSET X
    OBVIOUS
  <2>3. Cardinality(P) = Cardinality(Q)
    <3> HIDE DEF P, Q
    <3> QED BY <1>6, <2>1, <2>2
  <2> QED BY <2>3 DEF UpTo
<1>9. PICK w \in Seq(T) : w = Chosen(ts, Y)
  BY <1>1, <1>4, ChosenIs
<1>10. Len(w) = Cardinality(Y) /\ \A y \in Y : w[UpTo(Y, y)] = ts[y]
  BY <1>1, <1>4, <1>9, ChosenIs
<1>11. ASSUME NEW d \in X PROVE w[UpTo(X, d)] = part[d]
  BY <1>4, <1>8, <1>10
<1>12. w = Chosen(part, X)
  <2>1. Len(w) = Cardinality(X)
    BY <1>7, <1>10
  <2>2. X \in SUBSET (0 .. m)
    BY <1>4
  <2> QED BY <1>11, <2>1, <2>2, ChosenOnly
<1> QED BY <1>9, <1>12

-------------------------------------------------------------------------------
(* Lists of tokens *)

\* Where ts is cut at the operators in raws, m parts in all: the k-th lies between at[k]
\* and at[k + 1].
CutAt(ts, raws, at, m) ==
  /\ m \in Nat \ {0} /\ at[1] = 0 /\ at[m + 1] = Len(ts) + 1
  /\ \A k \in 1 .. m : at[k] \in 0 .. Len(ts) /\ at[k + 1] \in at[k] + 1 .. Len(ts) + 1
  /\ \A k \in 1 .. m : k # 1 => at[k] \in 1 .. Len(ts) /\ IsOp(ts[at[k]], raws)
  /\ \A k \in 1 .. m : \A i \in at[k] + 1 .. at[k + 1] - 1 : ~IsOp(ts[i], raws)
  /\ Split(ts, raws) = [k \in 1 .. m |-> SubSeq(ts, at[k] + 1, at[k + 1] - 1)]
  /\ \A k \in 1 .. m - 1 :
       Chosen(ts, {i \in 1 .. Len(ts) : IsOp(ts[i], raws)})[k] = ts[at[k + 1]]

LEMMA SplitIs ==
  ASSUME NEW n \in Nat, NEW ts, Len(ts) = n, NEW raws
  PROVE  \E at, m : CutAt(ts, raws, at, m)
<1>0. PICK L : L = {i \in 1 .. n : IsOp(ts[i], raws)}
  OBVIOUS
<1>1. PICK S : S = Cuts(ts, raws)
  OBVIOUS
<1>z. PICK z \in Nat : z = n + 1
  OBVIOUS
<1>2. S = {0, n + 1} \cup L
  BY <1>0, <1>1 DEF Cuts
<1>s. S \in SUBSET (0 .. z)
  BY <1>0, <1>z, <1>2
<1>3. PICK C \in Nat : C = Cardinality(S)
  BY <1>s, UpToIn
<1>4. /\ \A i \in S : UpTo(S, i) \in 1 .. C
      /\ \A i, j \in S : i < j => UpTo(S, i) < UpTo(S, j)
  BY <1>s, <1>3, UpToIn
<1>5. PICK at : at = InOrder(S)
  OBVIOUS
<1>6. /\ at = [k \in 1 .. C |-> at[k]]
      /\ \A i \in S : at[UpTo(S, i)] = i
      /\ \A k \in 1 .. C : at[k] \in S /\ UpTo(S, at[k]) = k
  <2>1. /\ InOrder(S) = [k \in 1 .. Cardinality(S) |-> InOrder(S)[k]]
        /\ \A i \in S : InOrder(S)[UpTo(S, i)] = i
        /\ \A k \in 1 .. Cardinality(S) :
             InOrder(S)[k] \in S /\ UpTo(S, InOrder(S)[k]) = k
    BY <1>s, InOrderIs
  <2> QED BY <1>3, <1>5, <2>1, Zenon
<1>7. UpTo(S, 0) = 1
  <2>1. {j \in S : j <= 0} = {0}
    <3>1. 0 \in S /\ \A j \in S : j <= 0 => j = 0
      BY <1>2, <1>s
    <3> QED BY <3>1
  <2> QED BY <2>1, FS_Singleton DEF UpTo
<1>8. UpTo(S, n + 1) = C
  <2>1. {j \in S : j <= n + 1} = S
    <3>1. \A j \in S : j <= n + 1
      BY <1>s, <1>z
    <3> QED BY <3>1
  <2> QED BY <1>3, <2>1 DEF UpTo
<1>9. 0 \in S /\ n + 1 \in S
  BY <1>2
<1>10. C - 1 \in Nat \ {0} /\ 1 < C
  BY <1>4, <1>7, <1>8, <1>9
<1>11. at[1] = 0 /\ at[C] = n + 1
  BY <1>6, <1>7, <1>8, <1>9
<1>12. ASSUME NEW k \in 1 .. C, NEW l \in 1 .. C, k < l PROVE at[k] < at[l]
  <2>1. at[k] \in S /\ at[l] \in S /\ UpTo(S, at[k]) = k /\ UpTo(S, at[l]) = l
    BY <1>6
  <2>2. at[k] \in Int /\ at[l] \in Int
    <3>1. S \in SUBSET Int
      BY <1>s
    <3> QED BY <2>1, <3>1
  <2>3. ~ (at[l] < at[k])
    <3>1. at[l] < at[k] => l < k
      BY <1>4, <2>1
    <3> QED BY <1>12, <3>1
  <2>4. at[k] # at[l]
    <3>1. k # l
      BY <1>12
    <3> QED BY <2>1, <3>1
  <2> QED BY <2>2, <2>3, <2>4
<1>13. ASSUME NEW k \in 1 .. C - 1
       PROVE  at[k] \in 0 .. n /\ at[k + 1] \in at[k] + 1 .. n + 1
  <2>1. k \in 1 .. C /\ k + 1 \in 1 .. C /\ k < k + 1
    BY <1>10
  <2>2. at[k] \in 0 .. n + 1 /\ at[k + 1] \in 0 .. n + 1 /\ at[k] < at[k + 1]
    BY <1>s, <1>6, <1>12, <1>z, <2>1
  <2> QED BY <2>2
<1>14. ASSUME NEW k \in 1 .. C - 1, k # 1 PROVE at[k] \in L
  <2>1. k \in 1 .. C /\ 1 \in 1 .. C /\ 1 < k
    BY <1>10, <1>14
  <2>2. at[k] \in S /\ at[1] < at[k]
    BY <1>6, <1>12, <2>1
  <2>3. at[k] # 0 /\ at[k] # n + 1
    BY <1>11, <1>13, <2>2
  <2> QED BY <1>2, <2>2, <2>3
<1>15. ASSUME NEW k \in 1 .. C - 1, NEW i \in at[k] + 1 .. at[k + 1] - 1 PROVE i \notin L
  <2>1. k \in 1 .. C /\ k + 1 \in 1 .. C
    BY <1>10
  <2>2. at[k] \in S /\ at[k + 1] \in S /\ UpTo(S, at[k]) = k /\ UpTo(S, at[k + 1]) = k + 1
    BY <1>6, <2>1
  <2>3. at[k] < i /\ i < at[k + 1]
    BY <1>13
  <2>4. SUFFICES ASSUME i \in S PROVE FALSE
    BY <1>2
  <2>5. k < UpTo(S, i) /\ UpTo(S, i) < k + 1 /\ UpTo(S, i) \in 1 .. C
    BY <1>4, <2>2, <2>3, <2>4
  <2> QED BY <2>5
<1>16. Split(ts, raws) = [k \in 1 .. C - 1 |-> SubSeq(ts, at[k] + 1, at[k + 1] - 1)]
  <2>1. Len(at) = C
    BY <1>6
  <2> QED BY <1>1, <1>5, <2>1, Zenon DEF Split
<1>17. ASSUME NEW k \in 1 .. C - 2 PROVE Chosen(ts, L)[k] = ts[at[k + 1]]
  <2>1. PICK M, N, Z : M = L \cup N /\ N = {n + 1} /\ Z = {0}
    OBVIOUS
  <2>2. /\ L \in SUBSET (0 .. z) /\ N \in SUBSET (0 .. z)
        /\ Z \in SUBSET (0 .. z) /\ M \in SUBSET (0 .. z)
        /\ S = Z \cup M
        /\ \A i \in L, j \in N : i < j
        /\ \A i \in Z, j \in M : i < j
    <3>1. L \in SUBSET (0 .. z) /\ M \in SUBSET (0 .. z) /\ S = Z \cup M
      BY <1>0, <1>2, <1>z, <2>1
    <3>2. N \in SUBSET (0 .. z) /\ Z \in SUBSET (0 .. z)
      BY <1>z, <2>1
    <3>3. \A i \in L, j \in N : i < j
      BY <1>0, <2>1
    <3>4. \A i \in Z, j \in M : i < j
      BY <1>0, <2>1
    <3> QED BY <3>1, <3>2, <3>3, <3>4
  <2>3. /\ Cardinality(M) = Cardinality(L) + Cardinality(N)
        /\ \A i \in L : UpTo(M, i) = UpTo(L, i)
    <3>1. M = L \cup N
      BY <2>1
    <3>2. N \in SUBSET (0 .. z) /\ L \in SUBSET (0 .. z) /\ \A i \in L, j \in N : i < j
      BY <2>2
    <3>3. /\ Cardinality(L \cup N) = Cardinality(L) + Cardinality(N)
          /\ \A i \in L : UpTo(L \cup N, i) = UpTo(L, i)
      BY <3>2, UpToAfter
    <3> QED BY <3>1, <3>3
  <2>4. /\ Cardinality(S) = Cardinality(Z) + Cardinality(M)
        /\ \A j \in M : UpTo(S, j) = Cardinality(Z) + UpTo(M, j)
    BY <2>2, UpToAfter
  <2>5. Cardinality(Z) = 1 /\ Cardinality(N) = 1
    BY <2>1, FS_Singleton
  <2>6. Cardinality(L) \in Nat
    BY <2>2, UpToIn
  <2>7. k \in 1 .. Cardinality(L)
    BY <1>3, <2>3, <2>4, <2>5, <2>6
  <2>8. PICK i \in L : i = InOrder(L)[k] /\ UpTo(L, i) = k
    <3>1. InOrder(L)[k] \in L /\ UpTo(L, InOrder(L)[k]) = k
      BY <2>2, <2>7, InOrderIs
    <3> QED BY <3>1
  <2>9. i \in S /\ i \in M /\ UpTo(S, i) = k + 1
    <3>1. i \in S /\ i \in M
      BY <2>1, <2>2, <2>8, Zenon
    <3>2. UpTo(S, i) = 1 + k
      BY <2>3, <2>4, <2>5, <2>8, <3>1
    <3> QED BY <3>1, <3>2
  <2>10. at[k + 1] = i
    BY <1>6, <2>9
  <2>11. Chosen(ts, L)[k] = ts[InOrder(L)[k]]
    BY <2>7, Zenon DEF Chosen
  <2> QED BY <2>8, <2>10, <2>11
<1> DEFINE m == C - 1
<1>18. m + 1 = C /\ m - 1 = C - 2
  BY <1>10
<1>19. L = {i \in 1 .. Len(ts) : IsOp(ts[i], raws)}
  BY <1>0
<1>20. ASSUME NEW i \in L PROVE i \in 1 .. n /\ IsOp(ts[i], raws)
  BY <1>0
<1>21. ASSUME NEW i \in 1 .. n, i \notin L PROVE ~IsOp(ts[i], raws)
  BY <1>0, <1>21
<1>22. ASSUME NEW k \in 1 .. C - 1, NEW i \in at[k] + 1 .. at[k + 1] - 1 PROVE ~IsOp(ts[i], raws)
  <2>1. i \in 1 .. n
    BY <1>13
  <2> QED BY <1>15, <1>21, <2>1
<1>23. CutAt(ts, raws, at, m)
  BY <1>10, <1>11, <1>13, <1>14, <1>16, <1>17, <1>18, <1>19, <1>20, <1>22 DEF CutAt
<1> QED BY <1>23

\* If each part has of itself what is at the positions H, the first l parts and the
\* operators between them have what is at H before the next cut.
PartsOf(ts, at, l, H, parts, ops) ==
  /\ \A k \in 1 .. l : parts[k] = Chosen(ts, H \cap (at[k] + 1 .. at[k + 1] - 1))
  /\ \A k \in 1 .. l - 1 : ops[k] = ts[at[k + 1]]
  /\ \A k \in 1 .. l : k # 1 => at[k] \in H

LEMMA PartsJoin ==
  ASSUME NEW D, NEW ts \in Seq(D), NEW raws, NEW at, NEW m, CutAt(ts, raws, at, m),
         NEW H \in SUBSET (1 .. Len(ts)), NEW l \in 1 .. m, NEW parts, Len(parts) = l, NEW ops,
         PartsOf(ts, at, l, H, parts, ops)
  PROVE  Joined(parts, ops) = Chosen(ts, H \cap (1 .. at[l + 1] - 1))
<1>0. PICK n \in Nat : n = Len(ts)
  BY LenProperties
<1>1. /\ m \in Nat \ {0} /\ at[1] = 0 /\ l \in Nat \ {0} /\ l > 0
      /\ \A k \in 1 .. l : at[k] \in 0 .. n /\ at[k + 1] \in at[k] + 1 .. n + 1
      /\ \A k \in 1 .. l : k # 1 => at[k] \in 1 .. n
  <2>1. m \in Nat \ {0} /\ at[1] = 0
    BY DEF CutAt
  <2>2. \A k \in 1 .. l : k \in 1 .. m
    BY <2>1
  <2>3. l \in Nat \ {0} /\ l > 0
    BY <2>1
  <2> QED BY <1>0, <2>1, <2>2, <2>3 DEF CutAt
<1>2. /\ \A k \in 1 .. l : parts[k] = Chosen(ts, H \cap (at[k] + 1 .. at[k + 1] - 1))
      /\ \A k \in 1 .. l - 1 : ops[k] = ts[at[k + 1]]
      /\ \A k \in 1 .. l : k # 1 => at[k] \in H
  BY DEF PartsOf
<1> DEFINE Mid(k) == H \cap (at[k] + 1 .. at[k + 1] - 1)
           Upto(k) == H \cap (1 .. at[k + 1] - 1)
           pieces == [k \in 1 .. l |-> IF k = 1 THEN parts[k] ELSE <<ops[k - 1]>> \o parts[k]]
<1>3. \A k \in 1 .. l : Chosen(ts, Mid(k)) \in Seq(D)
  BY ChosenIs
<1>4. ASSUME NEW k \in 1 .. l PROVE parts[k] \in Seq(D) /\ (k # 1 => ts[at[k]] = ops[k - 1] /\ ts[at[k]] \in D)
  <2>1. parts[k] \in Seq(D)
    BY <1>2, <1>3
  <2>2. ASSUME k # 1 PROVE ts[at[k]] = ops[k - 1] /\ ts[at[k]] \in D
    <3>1. k - 1 \in 1 .. l - 1 /\ k - 1 + 1 = k
      BY <1>1, <2>2
    <3>2. ops[k - 1] = ts[at[k - 1 + 1]]
      BY <1>2, <3>1
    <3>3. at[k] \in 1 .. n
      BY <1>1, <2>2
    <3> QED BY <1>0, <3>1, <3>2, <3>3
  <2> QED BY <2>1, <2>2
<1>5. pieces \in [1 .. l -> Seq(D)]
  <2>1. ASSUME NEW k \in 1 .. l, k # 1 PROVE <<ops[k - 1]>> \o parts[k] \in Seq(D)
    <3>1. ops[k - 1] \in D /\ parts[k] \in Seq(D)
      BY <1>4, <2>1
    <3> QED BY <3>1
  <2> QED BY <1>4, <2>1
<1>6. Joined(parts, ops) = FlattenSeq(pieces)
  BY Zenon DEF Joined
<1>7. /\ Len(pieces) = l /\ pieces[1] = parts[1]
      /\ \A k \in 1 .. l : k # 1 => pieces[k] = <<ops[k - 1]>> \o parts[k]
  BY <1>1
<1> HIDE DEF pieces
<1>8. PICK f : FlattenSteps(pieces, f)
  BY <1>1, <1>5, FlattenSolved
<1>9. /\ f[1] = parts[1] /\ FlattenSeq(pieces) = f[l]
      /\ \A k \in 1 .. l - 1 : f[k + 1] = f[k] \o pieces[k + 1]
  BY <1>7, <1>8 DEF FlattenSteps
<1> DEFINE S == {k \in Nat : k + 1 <= l => f[k + 1] = Chosen(ts, Upto(k + 1))}
<1>10. 0 \in S
  <2>1. parts[1] = Chosen(ts, Mid(1))
    BY <1>1, <1>2
  <2>2. Mid(1) = Upto(1)
    BY <1>1
  <2>3. f[1] = Chosen(ts, Upto(1))
    BY <1>9, <2>1, <2>2
  <2>4. 0 + 1 = 1
    OBVIOUS
  <2> HIDE DEF Upto
  <2> QED BY <2>3, <2>4
<1>11. ASSUME NEW j \in Nat, j \in S PROVE j + 1 \in S
  <2> SUFFICES ASSUME j + 2 <= l PROVE f[j + 2] = Chosen(ts, Upto(j + 2))
    OBVIOUS
  <2>1. PICK k \in 1 .. l : k = j + 2
    BY <1>1
  <2>2. k # 1 /\ k - 1 \in 1 .. l - 1 /\ k - 1 + 1 = k /\ k - 1 = j + 1 /\ k - 1 \in 1 .. l
    BY <1>1, <2>1
  <2>3. f[k - 1] = Chosen(ts, Upto(k - 1))
    BY <1>11, <2>1, <2>2
  <2>4. f[k] = f[k - 1] \o (<<ops[k - 1]>> \o parts[k])
    <3>1. f[k - 1 + 1] = f[k - 1] \o pieces[k - 1 + 1]
      BY <1>9, <2>2
    <3> QED BY <1>7, <2>2, <3>1
  <2>5. PICK A, B, C : /\ A = Upto(k - 1) /\ B = {at[k]} /\ C = Mid(k)
    OBVIOUS
  <2>6. /\ at[k] \in 1 .. n /\ at[k] \in H /\ at[k + 1] \in at[k] + 1 .. n + 1
    BY <1>1, <1>2, <2>2
  <2>7. /\ A \in SUBSET (1 .. Len(ts)) /\ B \in SUBSET (1 .. Len(ts))
        /\ C \in SUBSET (1 .. Len(ts))
        /\ (\A i \in A : i < at[k]) /\ \A i \in C : at[k] < i
    <3>1. A \in SUBSET (1 .. Len(ts)) /\ C \in SUBSET (1 .. Len(ts))
      BY <2>5
    <3>2. B \in SUBSET (1 .. Len(ts))
      BY <1>0, <2>5, <2>6
    <3>3. A \in SUBSET (1 .. at[k] - 1)
      BY <2>2, <2>5
    <3>4. C \in SUBSET (at[k] + 1 .. at[k + 1] - 1)
      BY <2>5
    <3>5. \A i \in A : i < at[k]
      BY <2>6, <3>3
    <3>6. \A i \in C : at[k] < i
      BY <2>6, <3>4
    <3> QED BY <3>1, <3>2, <3>5, <3>6
  <2>8. Upto(k) = A \cup (B \cup C)
    <3>1. at[k + 1] \in Nat /\ at[k] \in Nat /\ 1 <= at[k] /\ at[k] < at[k + 1]
      BY <2>6
    <3>2. 1 .. at[k + 1] - 1 = (1 .. at[k] - 1) \cup ({at[k]} \cup (at[k] + 1 .. at[k + 1] - 1))
      BY <3>1
    <3>3. A = H \cap (1 .. at[k] - 1)
      BY <2>2, <2>5
    <3> QED BY <2>5, <2>6, <3>2, <3>3
  <2>9. Chosen(ts, B) = <<ops[k - 1]>>
    <3>1. at[k] \in 1 .. Len(ts)
      BY <1>0, <2>6
    <3>2. Chosen(ts, {at[k]}) = <<ts[at[k]]>>
      BY <3>1, ChosenOne
    <3> QED BY <1>4, <2>2, <2>5, <3>2
  <2>10. Chosen(ts, B \cup C) = Chosen(ts, B) \o Chosen(ts, C)
    <3>1. \A i \in B, e \in C : i < e
      BY <2>5, <2>7
    <3> QED BY <2>7, <3>1, ChosenAfter
  <2>11. Chosen(ts, A \cup (B \cup C)) = Chosen(ts, A) \o Chosen(ts, B \cup C)
    <3>1. PICK E : E = B \cup C
      OBVIOUS
    <3>2. \A i \in A, e \in E : i < e
      <4>1. ASSUME NEW i \in A, NEW e \in E PROVE i < e
        <5>0. i \in 1 .. n /\ e \in 1 .. n
          BY <1>0, <2>7, <3>1
        <5>1. i \in Int /\ e \in Int /\ at[k] \in Int /\ i < at[k]
          BY <2>6, <2>7, <5>0
        <5>2. e = at[k] \/ at[k] < e
          BY <2>5, <2>7, <3>1
        <5> QED BY <5>1, <5>2
      <4> QED BY <4>1
    <3>3. E \in SUBSET (1 .. Len(ts))
      BY <2>7, <3>1
    <3>4. Chosen(ts, A \cup E) = Chosen(ts, A) \o Chosen(ts, E)
      BY <2>7, <3>2, <3>3, ChosenAfter
    <3> QED BY <3>1, <3>4
  <2>12. parts[k] = Chosen(ts, C)
    BY <1>2, <2>5
  <2>13. Chosen(ts, Upto(k)) = f[k]
    BY <2>3, <2>4, <2>5, <2>8, <2>9, <2>10, <2>11, <2>12, Zenon
  <2> QED BY <2>1, <2>13, Zenon
<1>12. l - 1 \in S
  <2> HIDE DEF S
  <2>1. l - 1 \in Nat
    BY <1>1
  <2> QED BY <1>10, <1>11, <2>1, Upward
<1>13. f[l] = Chosen(ts, Upto(l))
  <2>1. l - 1 + 1 = l /\ l <= l
    BY <1>1
  <2> QED BY <1>12, <2>1
<1> QED BY <1>6, <1>9, <1>13

\* The tokens that Half gives: i is a word that is no target.
IsWord(ts, i) == ts[i].kind = "word" /\ ~ (i > 1 /\ IsOp(ts[i - 1], {<<">">>, <<"<">>}))

LEMMA HalfOfIs ==
  ASSUME NEW ts, NEW which \in Halves
  PROVE  /\ HalfOf(ts, which) \in SUBSET (1 .. Len(ts))
         /\ \A i \in 1 .. Len(ts) : i \in HalfOf(ts, which) <=>
              IF which = "words" THEN IsWord(ts, i) \/ IsOp(ts[i], Separator) ELSE ~IsWord(ts, i)
<1> DEFINE words == {i \in 1 .. Len(ts) : IsWord(ts, i)}
<1>1. CASE which = "words"
  <2>1. HalfOf(ts, which) = words \cup {i \in 1 .. Len(ts) : IsOp(ts[i], Separator)}
    BY <1>1, Zenon DEF HalfOf, IsWord
  <2> QED BY <1>1, <2>1
<1>2. CASE which = "redirects"
  <2>1. which # "words"
    BY <1>2
  <2>2. HalfOf(ts, which) = (1 .. Len(ts)) \ words
    BY <2>1, Zenon DEF HalfOf, IsWord
  <2> QED BY <2>1, <2>2
<1> QED BY <1>1, <1>2 DEF Halves

LEMMA SeparatorIs ==
  /\ <<">">> \notin Separator /\ <<"<">> \notin Separator
  /\ {Bar} \in SUBSET Separator /\ {Semicolon} \in SUBSET Separator
  /\ Links \in SUBSET Separator /\ Separator = {Semicolon} \cup Links \cup {Bar}
BY DEF Separator, Bar, Semicolon, Links

LEMMA SomeTokenIs ==
  ASSUME NEW t \in SomeTokens
  PROVE  /\ t = Token(t.kind, t.raw) /\ t.kind \in {"word", "op"}
         /\ NeedsTarget(t) <=> IsOp(t, {<<">">>, <<"<">>})
<1>1. CASE t \in {Token("word", <<"a", "=", "2">>), Token("word", <<"a">>)}
  <2>1. t.kind = "word" /\ t = Token("word", t.raw)
    BY <1>1 DEF Token
  <2> QED BY <2>1 DEF NeedsTarget, IsRedirect, IsOp
<1>2. CASE t \notin {Token("word", <<"a", "=", "2">>), Token("word", <<"a">>)}
  <2>1. PICK raw \in Separator \cup {<<">">>, <<"<">>, <<"2", ">", "&", "1">>} : t = Token("op", raw)
    BY <1>2 DEF SomeTokens
  <2>2. t.kind = "op" /\ t.raw = raw
    BY <2>1 DEF Token
  <2>3. <<"2", ">", "&", "1">> \in WholeOps /\ <<">">> \notin WholeOps /\ <<"<">> \notin WholeOps
    BY DEF WholeOps
  <2>4. <<"2", ">", "&", "1">> # <<">">> /\ <<"2", ">", "&", "1">> # <<"<">>
    OBVIOUS
  <2>5. NeedsTarget(t) <=> raw \notin Separator /\ raw \notin WholeOps
    BY <2>2 DEF NeedsTarget, IsRedirect
  <2>6. IsOp(t, {<<">">>, <<"<">>}) <=> raw \in {<<">">>, <<"<">>}
    BY <2>2 DEF IsOp
  <2>7. raw \notin Separator /\ raw \notin WholeOps <=> raw \in {<<">">>, <<"<">>}
    BY <2>1, <2>3, <2>4, SeparatorIs
  <2> QED BY <2>1, <2>2, <2>5, <2>6, <2>7
<1> QED BY <1>1, <1>2

\* A part of ts has of itself what ts has there.
IsPart(part, ts, at, k) == part = SubSeq(ts, at[k] + 1, at[k + 1] - 1)
HasOfItself(part, ts, at, k, which) ==
  Chosen(part, HalfOf(part, which))
    = Chosen(ts, HalfOf(ts, which) \cap (at[k] + 1 .. at[k + 1] - 1))

LEMMA HalfOfPart ==
  ASSUME NEW D, NEW ts \in Seq(D), NEW raws \in SUBSET Separator, NEW at, NEW m,
         CutAt(ts, raws, at, m), NEW k \in 1 .. m, NEW which \in Halves,
         NEW part, IsPart(part, ts, at, k)
  PROVE  /\ part \in Seq(D)
         /\ \A d \in 1 .. Len(part) : at[k] + d \in 1 .. Len(ts) /\ part[d] = ts[at[k] + d]
                                     /\ ~IsOp(part[d], raws)
         /\ HasOfItself(part, ts, at, k, which)
<1>0. PICK n \in Nat : n = Len(ts)
  BY LenProperties
<1>1. PICK a \in 0 .. n, b \in 0 .. n : a = at[k] /\ b = at[k + 1] - 1 /\ a <= b
  <2>1. at[k] \in 0 .. n /\ at[k + 1] \in at[k] + 1 .. n + 1
    BY <1>0 DEF CutAt
  <2> QED BY <2>1
<1>2. /\ \A i \in a + 1 .. b : ~IsOp(ts[i], raws)
      /\ a # 0 => a \in 1 .. n /\ IsOp(ts[a], raws)
  BY <1>0, <1>1 DEF CutAt
<1>3. PICK l \in Nat : l = b - a
  BY <1>1
<1>4. part \in Seq(D) /\ Len(part) = l /\ \A d \in 1 .. l : part[d] = ts[a + d]
  <2>1. \A i \in a + 1 .. b : ts[i] \in D
    BY <1>0, <1>1
  <2>2. part = SubSeq(ts, a + 1, b)
    BY <1>1 DEF IsPart
  <2>3. /\ part \in Seq(D) /\ Len(part) = IF a + 1 <= b THEN b - (a + 1) + 1 ELSE 0
        /\ \A d \in 1 .. b - (a + 1) + 1 : part[d] = ts[a + 1 + d - 1]
    <3>1. a + 1 \in Int /\ b \in Int
      BY <1>1
    <3>2. PICK c \in Int : c = a + 1
      BY <3>1
    <3> QED BY <2>1, <2>2, <3>1, <3>2, SubSeqProperties
  <2>4. l = IF a + 1 <= b THEN b - (a + 1) + 1 ELSE 0
    <3>1. a \in Int /\ b \in Int /\ l = b - a /\ 0 <= l
      BY <1>1, <1>3
    <3> QED BY <3>1
  <2>5. ASSUME NEW d \in 1 .. l PROVE part[d] = ts[a + d]
    <3>1. d \in 1 .. b - (a + 1) + 1 /\ a + 1 + d - 1 = a + d
      BY <1>1, <1>3, SMTT(30)
    <3> QED BY <2>3, <3>1
  <2> QED BY <2>3, <2>4, <2>5
<1>5. ASSUME NEW d \in 1 .. l
      PROVE  /\ a + d \in a + 1 .. b /\ a + d \in 1 .. n /\ part[d] = ts[a + d]
             /\ IsWord(part, d) <=> IsWord(ts, a + d)
  <2>1. a + d \in a + 1 .. b /\ a + d \in 1 .. n
    BY <1>1, <1>3, SMTT(30)
  <2>2. part[d] = ts[a + d]
    BY <1>4
  <2>3. CASE d # 1
    <3>1. d - 1 \in 1 .. l /\ a + (d - 1) = a + d - 1 /\ d > 1 /\ a + d > 1
      BY <1>1, <2>3
    <3>2. part[d - 1] = ts[a + d - 1]
      BY <1>4, <3>1
    <3>3. part[d].kind = ts[a + d].kind
      BY <2>2
    <3>4. \A X : IsOp(part[d - 1], X) <=> IsOp(ts[a + d - 1], X)
      BY <3>2
    <3>5. IsWord(part, d) <=> IsWord(ts, a + d)
      BY <3>1, <3>3, <3>4 DEF IsWord
    <3> QED BY <2>1, <2>2, <3>5
  <2>4. CASE d = 1
    <3>1. ~IsOp(ts[a + d - 1], {<<">">>, <<"<">>}) \/ ~ (a + d > 1)
      <4>1. CASE a = 0
        BY <2>4, <4>1
      <4>2. CASE a # 0
        <5>1. a + d - 1 = a /\ ts[a].raw \in Separator
          BY <1>1, <1>2, <2>4, <4>2 DEF IsOp
        <5> QED BY <5>1, SeparatorIs DEF IsOp
      <4> QED BY <4>1, <4>2
    <3>2. ~ (d > 1)
      BY <2>4
    <3> QED BY <2>1, <2>2, <3>1, <3>2 DEF IsWord
  <2> QED BY <2>1, <2>2, <2>3, <2>4
<1>6. PICK X, Y, H : /\ X = HalfOf(part, which) /\ H = HalfOf(ts, which)
                    /\ Y = H \cap (at[k] + 1 .. at[k + 1] - 1)
  OBVIOUS
<1>7. /\ X \in SUBSET (1 .. l) /\ Y \in SUBSET (1 .. Len(ts))
      /\ \A d \in 1 .. l : d \in X <=> a + d \in H
  <2>1. X \in SUBSET (1 .. l) /\ H \in SUBSET (1 .. n)
    BY <1>0, <1>4, <1>6, HalfOfIs
  <2>2. ASSUME NEW d \in 1 .. l PROVE d \in X <=> a + d \in H
    <3>1. d \in X <=> IF which = "words" THEN IsWord(part, d) \/ IsOp(part[d], Separator) ELSE ~IsWord(part, d)
      BY <1>4, <1>6, HalfOfIs
    <3>2. a + d \in H <=> IF which = "words" THEN IsWord(ts, a + d) \/ IsOp(ts[a + d], Separator) ELSE ~IsWord(ts, a + d)
      BY <1>0, <1>5, <1>6, HalfOfIs
    <3> QED BY <1>5, <3>1, <3>2
  <2> QED BY <1>0, <1>6, <2>1, <2>2
<1>8. AreIn(ts, a, Y, part, X)
  <2>1. ASSUME NEW d \in X PROVE a + d \in Y /\ part[d] = ts[a + d]
    BY <1>1, <1>5, <1>6, <1>7
  <2>2. ASSUME NEW y \in Y PROVE y - a \in X
    <3>1. y \in a + 1 .. b /\ y \in H
      BY <1>1, <1>6
    <3>2. y - a \in 1 .. l /\ a + (y - a) = y
      <4>1. y \in Int /\ a \in Int /\ b \in Int /\ a + 1 <= y /\ y <= b
        BY <1>1, <3>1
      <4> QED BY <1>3, <4>1
    <3> QED BY <1>7, <3>1, <3>2
  <2> QED BY <2>1, <2>2 DEF AreIn
<1>9. Chosen(part, X) = Chosen(ts, Y)
  <2>1. a \in Nat
    BY <1>1
  <2>2. X \in SUBSET (1 .. Len(part)) /\ Y \in SUBSET (1 .. Len(ts)) /\ part \in Seq(D)
    BY <1>4, <1>7
  <2> QED BY <1>8, <2>1, <2>2, ChosenPart
<1>10. ASSUME NEW d \in 1 .. l PROVE ~IsOp(part[d], raws)
  BY <1>2, <1>5
<1>11. HasOfItself(part, ts, at, k, which)
  BY <1>6, <1>9 DEF HasOfItself
<1> QED BY <1>0, <1>1, <1>4, <1>5, <1>10, <1>11

\* An operator of raws, if there is but one.
LEMMA OpIs ==
  ASSUME NEW t \in SomeTokens, NEW raw, IsOp(t, {raw})
  PROVE  t = Token("op", raw)
<1>1. t.kind = "op" /\ t.raw = raw
  BY DEF IsOp
<1> QED BY <1>1, SomeTokenIs

\* A command without separators.
LEMMA CommandKeeps ==
  ASSUME NEW ts \in Seq(SomeTokens), \A i \in 1 .. Len(ts) : ~IsOp(ts[i], Separator),
         NEW which \in Halves
  PROVE  Half(Command(ts), which) = Chosen(ts, HalfOf(ts, which))
<1>1. PICK n \in Nat : n = Len(ts)
  BY LenProperties
<1> DEFINE target == {i \in 2 .. Len(ts) : NeedsTarget(ts[i - 1])}
           words  == {i \in 1 .. Len(ts) : ts[i].kind = "word"} \ target
           prefix == {i \in words : Prefix(ts, i)}
           rest   == words \ prefix
<1>2. \A i \in 1 .. n : ts[i] \in SomeTokens
  BY <1>1
<1>3. ASSUME NEW i \in 1 .. n PROVE i \in words <=> IsWord(ts, i)
  <2>1. i \in target <=> i > 1 /\ IsOp(ts[i - 1], {<<">">>, <<"<">>})
    <3>1. CASE i = 1
      BY <3>1
    <3>2. CASE i # 1
      <4>1. i > 1 /\ i \in 2 .. Len(ts) /\ ts[i - 1] \in SomeTokens
        BY <1>1, <1>2, <3>2
      <4> QED BY <4>1, SomeTokenIs
    <3> QED BY <3>1, <3>2
  <2> HIDE DEF target
  <2>2. i \in words <=> ts[i].kind = "word" /\ i \notin target
    BY <1>1
  <2> QED BY <2>1, <2>2 DEF IsWord
<1>4. /\ Command(ts).assignments = Chosen(ts, prefix)
      /\ Command(ts).argv = Chosen(ts, rest)
      /\ Command(ts).redirects = Chosen(ts, (1 .. Len(ts)) \ words)
  BY DEF Command
<1>5. prefix \in SUBSET (1 .. Len(ts)) /\ rest \in SUBSET (1 .. Len(ts)) /\ words = prefix \cup rest
  OBVIOUS
<1>6. \A i \in prefix, j \in rest : i < j
  <2>1. SUFFICES ASSUME NEW i \in prefix, NEW j \in rest, j <= i PROVE FALSE
    BY <1>1, <1>5
  <2>2. i \in 1 .. n /\ j \in 1 .. n /\ j \in words /\ ~Prefix(ts, j) /\ Prefix(ts, i)
    BY <1>1
  <2>3. \A k \in 1 .. j : k \in 1 .. i
    BY <2>1, <2>2
  <2>4. Prefix(ts, j)
    BY <2>2, <2>3 DEF Prefix
  <2> QED BY <2>2, <2>4
<1> HIDE DEF prefix, rest
<1>7. Chosen(ts, words) = Chosen(ts, prefix) \o Chosen(ts, rest)
  <2>1. Chosen(ts, prefix \cup rest) = Chosen(ts, prefix) \o Chosen(ts, rest)
    BY <1>5, <1>6, ChosenAfter
  <2> QED BY <1>5, <2>1
<1>8. words \in SUBSET (1 .. n)
  BY <1>1
<1> HIDE DEF words
<1>9. CASE which = "words"
  <2>1. HalfOf(ts, which) = words
    BY <1>1, <1>3, <1>8, <1>9, HalfOfIs
  <2>2. Half(Command(ts), which) = Command(ts).assignments \o Command(ts).argv
    BY <1>9 DEF Half
  <2> QED BY <1>4, <1>7, <2>1, <2>2
<1>10. CASE which = "redirects"
  <2>1. HalfOf(ts, which) = (1 .. n) \ words
    BY <1>1, <1>3, <1>8, <1>10, HalfOfIs
  <2>2. Half(Command(ts), which) = Command(ts).redirects
    BY <1>10 DEF Half
  <2> QED BY <1>1, <1>4, <2>1, <2>2
<1> QED BY <1>9, <1>10 DEF Halves

\* If every part keeps its tokens, so do the first l parts together.
EachKeeps(ts, raws, which, l, parts) ==
  \A k \in 1 .. l : parts[k] = Chosen(Split(ts, raws)[k], HalfOf(Split(ts, raws)[k], which))
OpsBetween(ts, at, l, ops) == \A k \in 1 .. l - 1 : ops[k] = ts[at[k + 1]]
FirstKeep(ts, at, which, l, parts, ops) ==
  Joined(parts, ops) = Chosen(ts, HalfOf(ts, which) \cap (1 .. at[l + 1] - 1))

LEMMA PartsKeep ==
  ASSUME NEW D, NEW ts \in Seq(D), NEW raws \in SUBSET Separator, NEW at, NEW m,
         CutAt(ts, raws, at, m), NEW which \in Halves, NEW l \in 1 .. m,
         NEW parts, Len(parts) = l, EachKeeps(ts, raws, which, l, parts),
         NEW ops, OpsBetween(ts, at, l, ops)
  PROVE  FirstKeep(ts, at, which, l, parts, ops)
<1>1. PICK H : H = HalfOf(ts, which)
  OBVIOUS
<1>2. m \in Nat \ {0} /\ \A k \in 1 .. l : k \in 1 .. m
  <2>1. m \in Nat \ {0}
    BY DEF CutAt
  <2> QED BY <2>1
<1>3. H \in SUBSET (1 .. Len(ts))
  BY <1>1, HalfOfIs
<1>4. ASSUME NEW k \in 1 .. l PROVE parts[k] = Chosen(ts, H \cap (at[k] + 1 .. at[k + 1] - 1))
  <2>1. PICK part : part = Split(ts, raws)[k]
    OBVIOUS
  <2>2. k \in 1 .. m /\ IsPart(part, ts, at, k)
    BY <1>2, <2>1 DEF CutAt, IsPart
  <2>3. HasOfItself(part, ts, at, k, which)
    BY <2>2, HalfOfPart
  <2> QED BY <1>1, <2>1, <2>3 DEF HasOfItself, EachKeeps
<1>5. ASSUME NEW k \in 1 .. l, k # 1 PROVE at[k] \in H
  <2>1. at[k] \in 1 .. Len(ts) /\ IsOp(ts[at[k]], raws)
    BY <1>2, <1>5 DEF CutAt
  <2>2. ts[at[k]].kind = "op" /\ IsOp(ts[at[k]], Separator)
    BY <2>1 DEF IsOp
  <2>3. ~IsWord(ts, at[k])
    BY <2>2 DEF IsWord
  <2> QED BY <1>1, <2>1, <2>2, <2>3, HalfOfIs
<1>6. PartsOf(ts, at, l, H, parts, ops)
  BY <1>4, <1>5 DEF PartsOf, OpsBetween
<1>7. Joined(parts, ops) = Chosen(ts, H \cap (1 .. at[l + 1] - 1))
  BY <1>3, <1>6, PartsJoin
<1> QED BY <1>1, <1>7 DEF FirstKeep

\* The parts of a list of tokens are such lists, without the operators that cut them.
LEMMA PartsAre ==
  ASSUME NEW ts \in Seq(SomeTokens), NEW raws \in SUBSET Separator, NEW at, NEW m,
         CutAt(ts, raws, at, m), NEW more, \A i \in 1 .. Len(ts) : ~IsOp(ts[i], more)
  PROVE  /\ Len(Split(ts, raws)) = m
         /\ \A k \in 1 .. m : Split(ts, raws)[k] \in Seq(SomeTokens)
         /\ \A k \in 1 .. m : \A d \in 1 .. Len(Split(ts, raws)[k]) :
              ~IsOp(Split(ts, raws)[k][d], raws) /\ ~IsOp(Split(ts, raws)[k][d], more)
         /\ \A k \in 1 .. m - 1 :
              at[k + 1] \in 1 .. Len(ts) /\ ts[at[k + 1]] \in SomeTokens /\ IsOp(ts[at[k + 1]], raws)
<1>1. /\ m \in Nat \ {0} /\ Split(ts, raws) = [k \in 1 .. m |-> SubSeq(ts, at[k] + 1, at[k + 1] - 1)]
      /\ \A k \in 1 .. m : k # 1 => at[k] \in 1 .. Len(ts) /\ IsOp(ts[at[k]], raws)
  BY DEF CutAt
<1>2. Len(Split(ts, raws)) = m
  BY <1>1
<1>3. ASSUME NEW k \in 1 .. m
      PROVE  /\ Split(ts, raws)[k] \in Seq(SomeTokens)
             /\ \A d \in 1 .. Len(Split(ts, raws)[k]) :
                  ~IsOp(Split(ts, raws)[k][d], raws) /\ ~IsOp(Split(ts, raws)[k][d], more)
  <2>1. PICK part : part = Split(ts, raws)[k]
    OBVIOUS
  <2>2. IsPart(part, ts, at, k)
    BY <1>1, <2>1 DEF IsPart
  <2>3. PICK which : which \in Halves
    BY DEF Halves
  <2>4. /\ part \in Seq(SomeTokens)
        /\ \A d \in 1 .. Len(part) : at[k] + d \in 1 .. Len(ts) /\ part[d] = ts[at[k] + d]
                                    /\ ~IsOp(part[d], raws)
    BY <2>2, <2>3, HalfOfPart
  <2>5. \A d \in 1 .. Len(part) : ~IsOp(part[d], raws) /\ ~IsOp(part[d], more)
    BY <2>4
  <2> QED BY <2>1, <2>4, <2>5
<1>4. ASSUME NEW k \in 1 .. m - 1
      PROVE  at[k + 1] \in 1 .. Len(ts) /\ ts[at[k + 1]] \in SomeTokens /\ IsOp(ts[at[k + 1]], raws)
  <2>1. k + 1 \in 1 .. m /\ k + 1 # 1
    BY <1>1
  <2>2. at[k + 1] \in 1 .. Len(ts) /\ IsOp(ts[at[k + 1]], raws)
    BY <1>1, <2>1
  <2> QED BY <2>2
<1> QED BY <1>2, <1>3, <1>4

\* The last cut is the end.
LEMMA AllOf ==
  ASSUME NEW ts, NEW raws, NEW at, NEW m, CutAt(ts, raws, at, m), NEW which \in Halves
  PROVE  m \in 1 .. m /\ HalfOf(ts, which) \cap (1 .. at[m + 1] - 1) = HalfOf(ts, which)
<1>1. m \in Nat \ {0} /\ at[m + 1] = Len(ts) + 1 /\ at[m + 1] \in at[m] + 1 .. Len(ts) + 1 /\ at[m] \in 0 .. Len(ts)
  BY DEF CutAt
<1>2. HalfOf(ts, which) \in SUBSET (1 .. Len(ts))
  BY HalfOfIs
<1> QED BY <1>1, <1>2

\* A pipeline.
LEMMA PipedKeeps ==
  ASSUME NEW ts \in Seq(SomeTokens), \A i \in 1 .. Len(ts) : ~IsOp(ts[i], {Semicolon} \cup Links),
         NEW which \in Halves
  PROVE  Piped(PipelineOf(ts), which) = Chosen(ts, HalfOf(ts, which))
<1>0. PICK n \in Nat : Len(ts) = n
  BY LenProperties
<1>1. PICK at, m : CutAt(ts, {Bar}, at, m)
  BY <1>0, SplitIs
<1>2. PICK stages : stages = Split(ts, {Bar})
  OBVIOUS
<1>3. /\ Len(stages) = m
      /\ \A k \in 1 .. m : stages[k] \in Seq(SomeTokens)
      /\ \A k \in 1 .. m : \A d \in 1 .. Len(stages[k]) :
           ~IsOp(stages[k][d], {Bar}) /\ ~IsOp(stages[k][d], {Semicolon} \cup Links)
      /\ \A k \in 1 .. m - 1 : ts[at[k + 1]] \in SomeTokens /\ IsOp(ts[at[k + 1]], {Bar})
  BY <1>1, <1>2, SeparatorIs, PartsAre
<1>4. PICK p : p = PipelineOf(ts)
  OBVIOUS
<1>5. p = [k \in 1 .. Len(stages) |-> Command(stages[k])]
  BY <1>2, <1>4, Zenon DEF PipelineOf
<1>6. Len(p) = m /\ \A k \in 1 .. m : p[k] = Command(stages[k])
  <2>1. m \in Nat
    BY <1>1 DEF CutAt
  <2> QED BY <1>3, <1>5, <2>1
<1>7. PICK halves, ops : /\ halves = [k \in 1 .. Len(p) |-> Half(p[k], which)]
                         /\ ops = [k \in 1 .. Len(p) |-> Token("op", Bar)]
  OBVIOUS
<1>8. Piped(p, which) = Joined(halves, ops)
  BY <1>7, Zenon DEF Piped
<1>9. m \in Nat \ {0} /\ Len(halves) = m
  <2>1. m \in Nat \ {0}
    BY <1>1 DEF CutAt
  <2> QED BY <1>6, <1>7, <2>1
<1>10. ASSUME NEW k \in 1 .. m PROVE halves[k] = Chosen(stages[k], HalfOf(stages[k], which))
  <2>1. \A d \in 1 .. Len(stages[k]) : ~IsOp(stages[k][d], Separator)
    BY <1>3, SeparatorIs DEF IsOp
  <2>2. Half(Command(stages[k]), which) = Chosen(stages[k], HalfOf(stages[k], which))
    BY <1>3, <2>1, CommandKeeps
  <2>3. halves[k] = Half(p[k], which)
    BY <1>6, <1>7
  <2> QED BY <1>6, <2>2, <2>3
<1>11. ASSUME NEW k \in 1 .. m - 1 PROVE ops[k] = ts[at[k + 1]]
  <2>1. ts[at[k + 1]] = Token("op", Bar)
    BY <1>3, OpIs
  <2>2. k \in 1 .. Len(p)
    BY <1>6, <1>9
  <2> QED BY <1>7, <2>1, <2>2
<1>12. m \in 1 .. m /\ HalfOf(ts, which) \cap (1 .. at[m + 1] - 1) = HalfOf(ts, which)
  BY <1>1, AllOf
<1>13. EachKeeps(ts, {Bar}, which, m, halves) /\ OpsBetween(ts, at, m, ops)
  BY <1>2, <1>10, <1>11 DEF EachKeeps, OpsBetween
<1>14. FirstKeep(ts, at, which, m, halves, ops)
  BY <1>1, <1>9, <1>12, <1>13, SeparatorIs, PartsKeep
<1> QED BY <1>4, <1>8, <1>12, <1>14 DEF FirstKeep

\* Pipelines with && and || between them.
LEMMA LinkedKeeps ==
  ASSUME NEW ts \in Seq(SomeTokens), \A i \in 1 .. Len(ts) : ~IsOp(ts[i], {Semicolon}),
         NEW which \in Halves
  PROVE  Linked(AndOr(ts), which) = Chosen(ts, HalfOf(ts, which))
<1>0. PICK n \in Nat : Len(ts) = n
  BY LenProperties
<1>1. PICK at, m : CutAt(ts, Links, at, m)
  BY <1>0, SplitIs
<1>2. PICK parts : parts = Split(ts, Links)
  OBVIOUS
<1>3. /\ Len(parts) = m
      /\ \A k \in 1 .. m : parts[k] \in Seq(SomeTokens)
      /\ \A k \in 1 .. m : \A d \in 1 .. Len(parts[k]) :
           ~IsOp(parts[k][d], Links) /\ ~IsOp(parts[k][d], {Semicolon})
  BY <1>1, <1>2, SeparatorIs, PartsAre
<1>4. PICK l : l = AndOr(ts)
  OBVIOUS
<1>5. /\ l.pipelines = [k \in 1 .. Len(parts) |-> PipelineOf(parts[k])]
      /\ l.ops = Chosen(ts, {i \in 1 .. Len(ts) : IsOp(ts[i], Links)})
  BY <1>2, <1>4 DEF AndOr
<1>6. m \in Nat \ {0}
  BY <1>1 DEF CutAt
<1>7. Len(l.pipelines) = m /\ \A k \in 1 .. m : l.pipelines[k] = PipelineOf(parts[k])
  BY <1>3, <1>5, <1>6
<1>8. PICK halves, ops : /\ halves = [k \in 1 .. Len(l.pipelines) |-> Piped(l.pipelines[k], which)]
                         /\ ops = l.ops
  OBVIOUS
<1>9. Linked(l, which) = Joined(halves, ops)
  BY <1>8, Zenon DEF Linked
<1>10. Len(halves) = m
  BY <1>6, <1>7, <1>8
<1>11. ASSUME NEW k \in 1 .. m PROVE halves[k] = Chosen(parts[k], HalfOf(parts[k], which))
  <2>1. \A d \in 1 .. Len(parts[k]) : ~IsOp(parts[k][d], {Semicolon} \cup Links)
    BY <1>3 DEF IsOp
  <2>2. Piped(PipelineOf(parts[k]), which) = Chosen(parts[k], HalfOf(parts[k], which))
    BY <1>3, <2>1, PipedKeeps
  <2>3. halves[k] = Piped(l.pipelines[k], which)
    BY <1>7, <1>8
  <2> QED BY <1>7, <2>2, <2>3
<1>12. ASSUME NEW k \in 1 .. m - 1 PROVE ops[k] = ts[at[k + 1]]
  BY <1>1, <1>5, <1>8 DEF CutAt
<1>13. m \in 1 .. m /\ HalfOf(ts, which) \cap (1 .. at[m + 1] - 1) = HalfOf(ts, which)
  BY <1>1, AllOf
<1>14. EachKeeps(ts, Links, which, m, halves) /\ OpsBetween(ts, at, m, ops)
  BY <1>2, <1>11, <1>12 DEF EachKeeps, OpsBetween
<1>15. FirstKeep(ts, at, which, m, halves, ops)
  BY <1>1, <1>10, <1>13, <1>14, SeparatorIs, PartsKeep
<1> QED BY <1>4, <1>9, <1>13, <1>15 DEF FirstKeep

\* A program: lists with semicolons between them, and perhaps one after them.
LEMMA LineKeeps ==
  ASSUME NEW ts \in Seq(SomeTokens), ts # <<>>, NEW which \in Halves, NEW text,
         text = IF IsOp(Last(ts), {Semicolon}) THEN Len(ts) - 1 ELSE Len(ts)
  PROVE  Line(Parsed(ts), which) = Chosen(ts, HalfOf(ts, which) \cap (1 .. text))
<1>0. PICK n \in Nat \ {0} : Len(ts) = n
  <2>1. Len(ts) \in Nat /\ Len(ts) # 0
    BY LenProperties, EmptySeq
  <2> QED BY <2>1
<1>1. PICK at, m : CutAt(ts, {Semicolon}, at, m)
  BY <1>0, SplitIs
<1>2. PICK lists : lists = Split(ts, {Semicolon})
  OBVIOUS
<1>3. /\ Len(lists) = m
      /\ \A k \in 1 .. m : lists[k] \in Seq(SomeTokens)
      /\ \A k \in 1 .. m : \A d \in 1 .. Len(lists[k]) : ~IsOp(lists[k][d], {Semicolon})
      /\ \A k \in 1 .. m - 1 : ts[at[k + 1]] \in SomeTokens /\ IsOp(ts[at[k + 1]], {Semicolon})
  <2>1. \A i \in 1 .. Len(ts) : ~IsOp(ts[i], {})
    BY DEF IsOp
  <2> QED BY <1>1, <1>2, <2>1, SeparatorIs, PartsAre
<1>4. /\ m \in Nat \ {0} /\ at[1] = 0 /\ at[m + 1] = n + 1 /\ at[m] \in 0 .. n
      /\ m # 1 => at[m] \in 1 .. n /\ IsOp(ts[at[m]], {Semicolon})
      /\ \A i \in at[m] + 1 .. n : ~IsOp(ts[i], {Semicolon})
      /\ lists = [k \in 1 .. m |-> SubSeq(ts, at[k] + 1, at[k + 1] - 1)]
  <2>1. m \in Nat \ {0} /\ m \in 1 .. m
    BY <1>1 DEF CutAt
  <2>2. at[m + 1] - 1 = n
    BY <1>0, <1>1 DEF CutAt
  <2> QED BY <1>0, <1>1, <1>2, <2>1, <2>2 DEF CutAt
<1>5. Last(ts) = ts[n]
  BY <1>0 DEF Last
<1>6. Last(lists) = lists[m] /\ (Last(lists) = <<>> <=> at[m] = n)
  <2>1. Last(lists) = lists[m] /\ lists[m] \in Seq(SomeTokens)
    BY <1>3, <1>4 DEF Last
  <2>2. lists[m] = SubSeq(ts, at[m] + 1, n)
    <3>1. m \in 1 .. m /\ at[m + 1] - 1 = n
      BY <1>4
    <3>2. lists[m] = SubSeq(ts, at[m] + 1, at[m + 1] - 1)
      BY <1>4, <3>1, Zenon
    <3> QED BY <3>1, <3>2
  <2>3. PICK a \in 1 .. n + 1 : a = at[m] + 1
    BY <1>4
  <2>4. \A i \in a .. n : ts[i] \in SomeTokens
    BY <1>0, <2>3
  <2>5. a \in Int /\ n \in Int /\ lists[m] = SubSeq(ts, a, n)
    <3>1. a \in Int /\ n \in Int
      OBVIOUS
    <3> QED BY <2>2, <2>3, <3>1, Zenon
  <2>6. Len(lists[m]) = IF a <= n THEN n - a + 1 ELSE 0
    BY <2>4, <2>5, SubSeqProperties
  <2>7. Len(lists[m]) = 0 <=> at[m] = n
    <3>1. PICK c \in 0 .. n : c = at[m] /\ a = c + 1
      BY <1>4, <2>3
    <3>2. (IF a <= n THEN n - a + 1 ELSE 0) = 0 <=> c = n
      BY <3>1
    <3> QED BY <2>6, <3>1, <3>2
  <2>8. lists[m] = <<>> <=> Len(lists[m]) = 0
    BY <2>1, EmptySeq
  <2> QED BY <2>1, <2>7, <2>8
<1>7. PICK l \in 1 .. m : /\ l = IF IsOp(ts[n], {Semicolon}) THEN m - 1 ELSE m
                         /\ at[l + 1] - 1 = text
                         /\ l = IF Len(lists) > 1 /\ Last(lists) = <<>> THEN m - 1 ELSE m
  <2>1. CASE IsOp(ts[n], {Semicolon})
    <3>1. at[m] = n
      <4>1. n \notin at[m] + 1 .. n
        BY <1>4, <2>1
      <4> QED BY <1>4, <4>1
    <3>2. m # 1
      BY <1>4, <3>1
    <3>3. Len(lists) > 1 /\ m - 1 \in 1 .. m /\ m - 1 + 1 = m
      BY <1>3, <1>4, <3>2
    <3>4. text = n - 1
      BY <1>0, <1>5, <2>1
    <3> QED BY <1>6, <2>1, <3>1, <3>3, <3>4
  <2>2. CASE ~IsOp(ts[n], {Semicolon})
    <3>1. ~ (Len(lists) > 1 /\ Last(lists) = <<>>)
      <4>1. Len(lists) > 1 => m # 1
        BY <1>3
      <4> QED BY <1>4, <1>6, <2>2, <4>1
    <3>2. text = n /\ m \in 1 .. m /\ at[m + 1] - 1 = n
      BY <1>0, <1>4, <1>5, <2>2
    <3> QED BY <2>2, <3>1, <3>2
  <2> QED BY <2>1, <2>2
<1>8. PICK p : p = Parsed(ts)
  OBVIOUS
<1>9. Len(p) = l /\ \A k \in 1 .. l : p[k] = AndOr(lists[k])
  <2>1. PICK parts : parts = IF Len(lists) > 1 /\ Last(lists) = <<>> THEN Front(lists) ELSE lists
    OBVIOUS
  <2>2. p = [k \in 1 .. Len(parts) |-> AndOr(parts[k])]
    BY <1>2, <1>8, <2>1, Zenon DEF Parsed
  <2>3. l \in Nat
    BY <1>4
  <2>4. Len(parts) = l /\ \A k \in 1 .. l : parts[k] = lists[k]
    <3>1. CASE Len(lists) > 1 /\ Last(lists) = <<>>
      <4>1. parts = SubSeq(lists, 1, m - 1) /\ l = m - 1
        BY <1>3, <1>7, <2>1, <3>1 DEF Front
      <4>2. \A k \in 1 .. m - 1 : lists[k] \in Seq(SomeTokens)
        <5>1. m \in Nat \ {0}
          BY <1>4
        <5>2. \A k \in 1 .. m - 1 : k \in 1 .. m
          BY <5>1
        <5> QED BY <1>3, <5>2
      <4>3. 1 \in Int /\ l \in Int
        BY <2>3
      <4>4. /\ Len(parts) = IF 1 <= l THEN l - 1 + 1 ELSE 0
            /\ \A k \in 1 .. l - 1 + 1 : parts[k] = lists[1 + k - 1]
        BY <4>1, <4>2, <4>3, SubSeqProperties
      <4>5. ASSUME NEW k \in 1 .. l PROVE parts[k] = lists[k]
        <5>1. k \in 1 .. l - 1 + 1 /\ 1 + k - 1 = k
          BY <2>3
        <5> QED BY <4>4, <5>1
      <4> QED BY <2>3, <4>4, <4>5
    <3>2. CASE ~ (Len(lists) > 1 /\ Last(lists) = <<>>)
      BY <1>3, <1>7, <2>1, <3>2
    <3> QED BY <3>1, <3>2
  <2> QED BY <2>2, <2>3, <2>4
<1>10. PICK halves, ops : /\ halves = [k \in 1 .. Len(p) |-> Linked(p[k], which)]
                          /\ ops = [k \in 1 .. Len(p) |-> Token("op", Semicolon)]
  OBVIOUS
<1>11. Line(p, which) = Joined(halves, ops)
  BY <1>10, Zenon DEF Line
<1>12. Len(halves) = l /\ \A k \in 1 .. l : k \in 1 .. m
  BY <1>4, <1>9, <1>10
<1>13. ASSUME NEW k \in 1 .. l PROVE halves[k] = Chosen(lists[k], HalfOf(lists[k], which))
  <2>1. Linked(AndOr(lists[k]), which) = Chosen(lists[k], HalfOf(lists[k], which))
    BY <1>3, <1>12, LinkedKeeps
  <2>2. halves[k] = Linked(p[k], which)
    BY <1>9, <1>10
  <2> QED BY <1>9, <2>1, <2>2
<1>14. ASSUME NEW k \in 1 .. l - 1 PROVE ops[k] = ts[at[k + 1]]
  <2>1. k \in 1 .. m - 1 /\ k \in 1 .. Len(p)
    BY <1>4, <1>9
  <2>2. ts[at[k + 1]] = Token("op", Semicolon)
    BY <1>3, <2>1, OpIs
  <2> QED BY <1>10, <2>1, <2>2
<1>15. EachKeeps(ts, {Semicolon}, which, l, halves) /\ OpsBetween(ts, at, l, ops)
  BY <1>2, <1>13, <1>14 DEF EachKeeps, OpsBetween
<1>16. FirstKeep(ts, at, which, l, halves, ops)
  BY <1>1, <1>12, <1>15, SeparatorIs, PartsKeep
<1> QED BY <1>7, <1>8, <1>11, <1>16 DEF FirstKeep

\* Words and redirects stay with their command (parse), in a list of tokens of any
\* length.
THEOREM TokensKept == ASSUME NEW ts \in Seq(SomeTokens) PROVE Keeps(ts)
<1>1. SUFFICES ASSUME ~Rejected(ts), NEW which \in Halves, NEW text,
                      text = IF IsOp(Last(ts), {Semicolon}) THEN Len(ts) - 1 ELSE Len(ts)
               PROVE  Line(Parsed(ts), which) = Chosen(ts, HalfOf(ts, which) \cap (1 .. text))
  BY Zenon DEF Keeps
<1>2. ts # <<>>
  BY <1>1 DEF Rejected
<1> QED BY <1>1, <1>2, LineKeeps
===============================================================================
