--------------------------- MODULE ShellWordsProofs ---------------------------
(***************************************************************************)
(* A POSIX shell reads every word of a line as Parser does (ShellWords),   *)
(* for texts of any length over any characters.                            *)
(***************************************************************************)
EXTENDS ParserProofs

-------------------------------------------------------------------------------
(* Variables *)

IsName(c) == c \in Letters \cup Digits

\* The characters that a variable may have behind the $.
InVariable(c) == c \in Letters \cup Digits \cup {"{", "}"}

\* A name goes from i to e and no further.
Name(s, i, e) ==
  /\ s[i] \in Letters /\ \A k \in i .. e : IsName(s[k])
  /\ e = Len(s) \/ ~IsName(s[e + 1])

\* NameEnd finds the end of the one name that begins at i.
LEMMA NameIs ==
  ASSUME NEW s, NEW i \in Nat \ {0}, Len(s) \in Nat
  PROVE  /\ NameEnd(s, i) = i - 1 \/ NameEnd(s, i) \in i .. Len(s)
         /\ NameEnd(s, i) # i - 1 => Name(s, i, NameEnd(s, i))
         /\ \A e \in i .. Len(s) : Name(s, i, e) => NameEnd(s, i) = e
<1> DEFINE names == {j \in i .. Len(s) :
                       s[i] \in Letters /\ \A k \in i .. j : s[k] \in Letters \cup Digits}
           longest == CHOOSE j \in names : \A k \in names : k <= j
<1>1. NameEnd(s, i) = IF names = {} THEN i - 1 ELSE longest
  BY DEF NameEnd
<1>2. names \in SUBSET (1 .. Len(s)) /\ \A j \in names : j \in i .. Len(s)
  OBVIOUS
<1>3. ASSUME names # {} PROVE longest \in names /\ \A k \in names : k <= longest
  <2> HIDE DEF names
  <2>1. \E j \in names : \A k \in names : k <= j
    BY <1>2, <1>3, Latest
  <2> QED BY <2>1
<1> HIDE DEF longest
<1>4. ASSUME names # {} PROVE Name(s, i, longest)
  <2>1. /\ longest \in i .. Len(s) /\ s[i] \in Letters
        /\ \A k \in i .. longest : IsName(s[k])
    BY <1>3, <1>4 DEF IsName
  <2>2. ASSUME longest # Len(s), IsName(s[longest + 1]) PROVE FALSE
    <3>1. longest + 1 \in i .. Len(s) /\ \A k \in i .. longest + 1 : IsName(s[k])
      BY <2>1, <2>2
    <3>2. longest + 1 \in names
      BY <2>1, <3>1 DEF IsName
    <3>3. longest + 1 <= longest /\ longest \in Nat
      <4> HIDE DEF names
      <4> QED BY <1>3, <1>4, <2>1, <3>2
    <3> QED BY <3>3
  <2> QED BY <2>1, <2>2 DEF Name
<1>5. ASSUME NEW e \in i .. Len(s), Name(s, i, e) PROVE names # {} /\ longest = e
  <2>1. e \in names
    BY <1>5 DEF Name, IsName
  <2>2. longest \in i .. Len(s) /\ e <= longest /\ \A k \in i .. longest : IsName(s[k])
    <3>1. longest \in names /\ e <= longest
      BY <1>3, <2>1
    <3> QED BY <3>1 DEF IsName
  <2>3. ~ (e < longest)
    <3>1. e < longest => e + 1 \in i .. longest /\ e # Len(s)
      BY <2>2
    <3> QED BY <1>5, <2>2, <3>1 DEF Name
  <2> QED BY <2>1, <2>2, <2>3
<1>6. names # {} => longest \in i .. Len(s)
  BY <1>2, <1>3
<1> HIDE DEF names
<1>7. ASSUME NEW e \in i .. Len(s), Name(s, i, e) PROVE NameEnd(s, i) = e
  BY <1>1, <1>5, <1>7
<1> QED BY <1>1, <1>4, <1>6, <1>7

\* A variable of z characters at i: what stands there, relative to i.
Variable(s, i, z) ==
  /\ s[i] = "$" /\ i + z <= Len(s) + 1
  /\ \/ /\ z >= 2 /\ s[i + 1] \in Letters
        /\ \A k \in 1 .. z - 1 : IsName(s[i + k])
        /\ i + z = Len(s) + 1 \/ ~IsName(s[i + z])
     \/ /\ z >= 4 /\ s[i + 1] = "{" /\ s[i + 2] \in Letters
        /\ \A k \in 2 .. z - 2 : IsName(s[i + k])
        /\ s[i + z - 1] = "}"

\* VarEnd finds the end of the one variable at i.
LEMMA VariableIs ==
  ASSUME NEW s, NEW n \in Nat, Len(s) = n, NEW i \in 1 .. n
  PROVE  /\ VarEnd(s, i) # 0 => \E z \in 2 .. n : VarEnd(s, i) = i + z /\ Variable(s, i, z)
         /\ \A z \in 2 .. n : Variable(s, i, z) => VarEnd(s, i) = i + z
<1> DEFINE braced == s[i + 1] = "{"
           from   == IF braced THEN i + 2 ELSE i + 1
           end    == NameEnd(s, from)
           there  == CASE end < from -> 0
                       [] end >= from /\ ~braced -> end + 1
                       [] end >= from /\ braced  ->
                            IF end < Len(s) /\ s[end + 1] = "}" THEN end + 2 ELSE 0
<1>1. VarEnd(s, i) = IF s[i] # "$" \/ i = Len(s) THEN 0 ELSE there
  BY DEF VarEnd
<1> HIDE DEF there, end, braced
<1>2. from \in Nat \ {0} /\ from >= i + 1 /\ from \in Int
  OBVIOUS
<1>3. /\ end = from - 1 \/ end \in from .. n
      /\ end # from - 1 => Name(s, from, end)
      /\ \A e \in from .. n : Name(s, from, e) => end = e
  <2> HIDE DEF from
  <2> QED BY <1>2, NameIs DEF end
<1>4. /\ end < from => there = 0
      /\ end >= from /\ ~braced => there = end + 1
      /\ end >= from /\ braced  =>
           there = IF end < n /\ s[end + 1] = "}" THEN end + 2 ELSE 0
      /\ end < from \/ end >= from
  <2>1. end \in Int
    BY <1>2, <1>3
  <2>2. ~ (end < from /\ end >= from) /\ (end < from \/ end >= from)
    BY <1>2, <2>1
  <2> HIDE DEF from
  <2> QED BY <2>2, Zenon DEF there
<1> HIDE DEF from
<1>5. ASSUME VarEnd(s, i) # 0
      PROVE  \E z \in 2 .. n : VarEnd(s, i) = i + z /\ Variable(s, i, z)
  <2>1. s[i] = "$" /\ i < n /\ there # 0 /\ VarEnd(s, i) = there
    BY <1>1, <1>5
  <2>2. end \in from .. n /\ Name(s, from, end)
    <3>1. PICK l \in Int : l = from
      BY <1>2
    <3>2. end = l - 1 => end < from
      BY <3>1
    <3>3. end # from - 1
      BY <1>4, <2>1, <3>1, <3>2
    <3> QED BY <1>3, <3>3
  <2>3. CASE ~braced
    <3>1. from = i + 1 /\ there = end + 1
      <4>1. from = i + 1
        BY <2>3 DEF from
      <4>2. end >= from
        BY <1>2, <2>2
      <4> QED BY <1>4, <2>3, <4>1, <4>2
    <3>2. PICK z \in 2 .. n : end = i + z - 1
      <4>1. end + 1 - i \in 2 .. n
        BY <2>2, <3>1
      <4> QED BY <2>2, <3>1, <4>1
    <3>3. \A k \in 1 .. z - 1 : IsName(s[i + k])
      <4>1. \A k \in 1 .. z - 1 : i + k \in from .. end
        BY <3>1, <3>2
      <4> QED BY <2>2, <4>1 DEF Name
    <3>4. i + z <= n + 1 /\ end + 1 = i + z
      BY <2>2, <3>1, <3>2
    <3>5. i + z = n + 1 \/ ~IsName(s[i + z])
      BY <2>2, <3>2, <3>4 DEF Name
    <3>6. s[i + 1] \in Letters
      BY <2>2, <3>1 DEF Name
    <3>7. Variable(s, i, z)
      <4>1. z >= 2 /\ s[i] = "$" /\ i + z <= Len(s) + 1 /\ (i + z = Len(s) + 1 \/ ~IsName(s[i + z]))
        BY <2>1, <3>4, <3>5
      <4> QED BY <3>3, <3>6, <4>1, Zenon DEF Variable
    <3> QED BY <2>1, <3>1, <3>4, <3>7
  <2>4. CASE braced
    <3>1. from = i + 2
      BY <2>4 DEF from
    <3>2. end < n /\ s[end + 1] = "}" /\ there = end + 2
      BY <1>2, <1>4, <2>1, <2>2, <2>4
    <3>3. PICK z \in 2 .. n : end = i + z - 2 /\ z >= 4
      <4>1. PICK e \in i + 2 .. n : e = end /\ e < n
        BY <2>2, <3>1, <3>2
      <4>2. e + 2 - i \in 2 .. n /\ e + 2 - i >= 4 /\ e = i + (e + 2 - i) - 2
        BY <4>1
      <4> QED BY <4>1, <4>2
    <3>4. \A k \in 2 .. z - 2 : IsName(s[i + k])
      <4>1. \A k \in 2 .. z - 2 : i + k \in from .. end
        BY <3>1, <3>3
      <4> QED BY <2>2, <4>1 DEF Name
    <3>5. i + z <= n + 1 /\ end + 1 = i + z - 1 /\ end + 2 = i + z
      <4>1. PICK e \in Int : e = end
        BY <3>3
      <4>2. e = i + z - 2 /\ e < n
        BY <3>2, <3>3, <4>1
      <4>3. i + z <= n + 1 /\ e + 1 = i + z - 1 /\ e + 2 = i + z
        BY <4>2
      <4> QED BY <4>1, <4>3
    <3>6. s[i + z - 1] = "}"
      BY <3>2, <3>5
    <3>7. s[i + 2] \in Letters /\ s[i + 1] = "{"
      BY <2>2, <2>4, <3>1 DEF Name, braced
    <3>8. Variable(s, i, z)
      BY <2>1, <3>3, <3>4, <3>5, <3>6, <3>7 DEF Variable
    <3> QED BY <2>1, <3>2, <3>5, <3>8
  <2> QED BY <2>3, <2>4
<1>6. ASSUME NEW z \in 2 .. n, Variable(s, i, z) PROVE VarEnd(s, i) = i + z
  <2>1. s[i] = "$" /\ i + z <= n + 1 /\ i < n
    <3>1. s[i] = "$" /\ i + z <= n + 1
      BY <1>6 DEF Variable
    <3>2. i < n
      BY <3>1
    <3> QED BY <3>1, <3>2
  <2>2. VarEnd(s, i) = there
    BY <1>1, <2>1
  <2>3. ASSUME s[i + 1] \in Letters, \A k \in 1 .. z - 1 : IsName(s[i + k]),
               i + z = n + 1 \/ ~IsName(s[i + z])
        PROVE  there = i + z
    <3>1. ~braced
      BY <2>3 DEF braced, Letters
    <3>2. from = i + 1
      BY <3>1 DEF from
    <3>3. PICK e \in from .. n : e = i + z - 1 /\ e + 1 = i + z
      <4>1. i + z - 1 \in i + 1 .. n /\ i + z - 1 + 1 = i + z
        BY <2>1
      <4> QED BY <3>2, <4>1
    <3>4. \A k \in from .. e : IsName(s[k])
      <4>1. \A k \in from .. e : k - i \in 1 .. z - 1 /\ i + (k - i) = k
        BY <3>2, <3>3
      <4> QED BY <2>3, <4>1
    <3>5. e = n \/ ~IsName(s[e + 1])
      BY <2>3, <3>3
    <3>6. Name(s, from, e)
      BY <2>3, <3>2, <3>4, <3>5 DEF Name
    <3>7. end = e /\ end >= from
      BY <1>2, <1>3, <3>6
    <3> QED BY <1>4, <3>1, <3>3, <3>7
  <2>4. ASSUME z >= 4, s[i + 1] = "{", s[i + 2] \in Letters,
               \A k \in 2 .. z - 2 : IsName(s[i + k]), s[i + z - 1] = "}"
        PROVE  there = i + z
    <3>1. braced /\ from = i + 2
      BY <2>4 DEF from, braced
    <3>2. PICK e \in from .. n : e = i + z - 2 /\ e + 1 = i + z - 1 /\ e + 2 = i + z /\ e < n
      <4>0. i + z <= n + 1 /\ z >= 4
        BY <2>1, <2>4
      <4>1. PICK e \in i + 2 .. n : e = i + z - 2
        BY <4>0
      <4>2. e + 1 = i + z - 1 /\ e + 2 = i + z /\ e < n
        BY <4>0, <4>1
      <4> QED BY <3>1, <4>1, <4>2
    <3>3. \A k \in from .. e : IsName(s[k])
      <4>1. \A k \in from .. e : k - i \in 2 .. z - 2 /\ i + (k - i) = k
        BY <3>1, <3>2
      <4> QED BY <2>4, <4>1
    <3>4. ~IsName(s[e + 1])
      BY <2>4, <3>2 DEF IsName, Letters, Digits
    <3>5. Name(s, from, e)
      BY <2>4, <3>1, <3>3, <3>4 DEF Name
    <3>6. end = e /\ end >= from
      BY <1>2, <1>3, <3>5
    <3> QED BY <1>4, <2>4, <3>1, <3>2, <3>6
  <2>5. there = i + z
    BY <1>6, <2>3, <2>4 DEF Variable
  <2> QED BY <2>2, <2>5
<1> QED BY <1>5, <1>6

\* The characters of a variable behind its $.
LEMMA VariableThere ==
  ASSUME NEW s, NEW i \in Nat, NEW z \in Nat, Variable(s, i, z)
  PROVE  \A k \in 1 .. z - 1 : InVariable(s[i + k])
<1> SUFFICES ASSUME NEW k \in 1 .. z - 1 PROVE InVariable(s[i + k])
  OBVIOUS
<1>1. CASE IsName(s[i + k])
  BY <1>1 DEF IsName, InVariable
<1>2. CASE s[i + 1] = "{" /\ s[i + z - 1] = "}" /\ z >= 4 /\ ~IsName(s[i + k])
           /\ \A l \in 2 .. z - 2 : IsName(s[i + l])
  <2>1. k = 1 \/ k = z - 1 \/ k \in 2 .. z - 2
    OBVIOUS
  <2>2. k = 1 => InVariable(s[i + k])
    BY <1>2 DEF InVariable
  <2>3. i + (z - 1) = i + z - 1
    OBVIOUS
  <2>4. k = z - 1 => InVariable(s[i + k])
    BY <1>2, <2>3 DEF InVariable
  <2> QED BY <1>2, <2>1, <2>2, <2>4
<1> QED BY <1>1, <1>2 DEF Variable

\* Two texts agree from i and j on, up to where neither goes on with a variable.
Agree(t, i, s, j, d) ==
  /\ d \in Nat \ {0}
  /\ \A k \in 0 .. d - 1 : i + k <= Len(t) /\ j + k <= Len(s) /\ t[i + k] = s[j + k]
  /\ i + d <= Len(t) => ~InVariable(t[i + d])
  /\ j + d <= Len(s) => ~InVariable(s[j + d])

\* A variable of one text is one of any text that agrees with it.
LEMMA VariableMoves ==
  ASSUME NEW t, Len(t) \in Nat, NEW i \in 1 .. Len(t), NEW s, Len(s) \in Nat,
         NEW j \in 1 .. Len(s), NEW d, Agree(t, i, s, j, d),
         NEW z \in Nat \ {0, 1}, Variable(s, j, z)
  PROVE  z <= d /\ Variable(t, i, z)
<1>0. d \in Nat \ {0}
  BY DEF Agree
<1>1. j + z <= Len(s) + 1
  BY DEF Variable
<1>2. z <= d
  <2> SUFFICES ASSUME d < z PROVE FALSE
    BY <1>0
  <2>1. d \in 1 .. z - 1 /\ j + d <= Len(s)
    BY <1>0, <1>1
  <2>2. InVariable(s[j + d])
    <3>1. j \in Nat /\ z \in Nat
      OBVIOUS
    <3> QED BY <2>1, <3>1, VariableThere
  <2> QED BY <2>1, <2>2 DEF Agree
<1>3. \A k \in 0 .. z - 1 : i + k <= Len(t) /\ t[i + k] = s[j + k]
  BY <1>0, <1>2, SMTT(30) DEF Agree
<1>4. i + z <= Len(t) + 1
  <2>1. z - 1 \in 0 .. z - 1
    OBVIOUS
  <2>2. i + (z - 1) <= Len(t)
    BY <1>3, <2>1
  <2> QED BY <2>2
<1>5. t[i] = "$"
  <2>1. t[i + 0] = s[j + 0] /\ i + 0 = i /\ j + 0 = j
    BY <1>3
  <2> QED BY <2>1 DEF Variable
<1>6. ASSUME s[j + 1] \in Letters, \A k \in 1 .. z - 1 : IsName(s[j + k]),
             j + z = Len(s) + 1 \/ ~IsName(s[j + z])
      PROVE  /\ t[i + 1] \in Letters /\ \A k \in 1 .. z - 1 : IsName(t[i + k])
             /\ i + z = Len(t) + 1 \/ ~IsName(t[i + z])
  <2>1. t[i + 1] = s[j + 1]
    BY <1>3
  <2>2. \A k \in 1 .. z - 1 : IsName(t[i + k])
    BY <1>3, <1>6
  <2>3. CASE z = d
    <3>1. i + z <= Len(t) => ~IsName(t[i + z])
      BY <2>3 DEF Agree, IsName, InVariable
    <3>2. i + z <= Len(t) \/ i + z = Len(t) + 1
      BY <1>4
    <3> QED BY <1>6, <2>1, <2>2, <3>1, <3>2
  <2>4. CASE z < d
    <3>1. t[i + z] = s[j + z] /\ j + z <= Len(s)
      BY <1>0, <2>4 DEF Agree
    <3>2. j + z # Len(s) + 1
      BY <3>1
    <3> QED BY <1>6, <2>1, <2>2, <3>1, <3>2
  <2> QED BY <1>0, <1>2, <1>6, <2>1, <2>2, <2>3, <2>4
<1>7. ASSUME z >= 4, s[j + 1] = "{", s[j + 2] \in Letters,
             \A k \in 2 .. z - 2 : IsName(s[j + k]), s[j + z - 1] = "}"
      PROVE  /\ t[i + 1] = "{" /\ t[i + 2] \in Letters
             /\ \A k \in 2 .. z - 2 : IsName(t[i + k])
             /\ t[i + z - 1] = "}"
  <2>1. t[i + 1] = s[j + 1] /\ t[i + 2] = s[j + 2] /\ t[i + (z - 1)] = s[j + (z - 1)]
    <3>0. z >= 4
      BY <1>7
    <3>1. 1 \in 0 .. z - 1 /\ 2 \in 0 .. z - 1 /\ z - 1 \in 0 .. z - 1
      BY <3>0
    <3> QED BY <1>3, <3>1
  <2>2. i + (z - 1) = i + z - 1 /\ j + (z - 1) = j + z - 1
    OBVIOUS
  <2>3. \A k \in 2 .. z - 2 : IsName(t[i + k])
    <3>1. \A k \in 2 .. z - 2 : k \in 0 .. z - 1
      OBVIOUS
    <3>2. \A k \in 2 .. z - 2 : t[i + k] = s[j + k]
      BY <1>3, <3>1
    <3> QED BY <1>7, <3>2
  <2> QED BY <1>7, <2>1, <2>2, <2>3
<1> QED BY <1>2, <1>4, <1>5, <1>6, <1>7 DEF Variable

\* The value of a variable depends on its characters alone.
ValueOfText(u) ==
  IF SelectSeq(u, LAMBDA c : c \notin {"{", "}"}) = <<"a">> THEN <<"V">> ELSE <<>>

\* ValueOf looks at the characters of the variable only.
LEMMA ValueIs ==
  ASSUME NEW s, NEW i, NEW after
  PROVE  ValueOf(s, i, after) = ValueOfText(SubSeq(s, i + 1, after - 1))
BY DEF ValueOf, ValueOfText

\* Texts that agree have the same variable, or none.
SameVariable(t, i, s, j, d) ==
  \/ VarEnd(s, j) = 0 /\ VarEnd(t, i) = 0
  \/ \E z \in 2 .. d : /\ VarEnd(s, j) = j + z /\ j + z <= Len(s) + 1
                       /\ VarEnd(t, i) = i + z /\ i + z <= Len(t) + 1
                       /\ ValueOf(t, i, i + z) = ValueOf(s, j, j + z)
                       /\ \A k \in 1 .. z - 1 : InVariable(s[j + k])

\* Two texts that agree have the same variable where they begin to.
LEMMA VariableAgrees ==
  ASSUME NEW C, NEW t \in Seq(C), NEW i \in 1 .. Len(t), NEW s \in Seq(C), NEW j \in 1 .. Len(s),
         NEW d, Agree(t, i, s, j, d)
  PROVE  SameVariable(t, i, s, j, d)
<1>0. Len(t) \in Nat /\ Len(s) \in Nat /\ d \in Nat \ {0}
  BY LenProperties DEF Agree
<1>1. Agree(s, j, t, i, d)
  BY DEF Agree
<1>2. ASSUME VarEnd(s, j) # 0
      PROVE  \E z \in 2 .. d : /\ VarEnd(s, j) = j + z /\ j + z <= Len(s) + 1
                               /\ VarEnd(t, i) = i + z /\ i + z <= Len(t) + 1
                               /\ ValueOf(t, i, i + z) = ValueOf(s, j, j + z)
                               /\ \A k \in 1 .. z - 1 : InVariable(s[j + k])
  <2>1. PICK z \in 2 .. Len(s) : VarEnd(s, j) = j + z /\ Variable(s, j, z)
    BY <1>0, <1>2, VariableIs
  <2>2. z \in Nat \ {0, 1} /\ z \in Nat /\ j \in Nat
    BY <2>1
  <2>3. z <= d /\ Variable(t, i, z)
    BY <1>0, <2>1, <2>2, VariableMoves
  <2>4. j + z <= Len(s) + 1 /\ i + z <= Len(t) + 1
    BY <2>1, <2>3 DEF Variable
  <2>5. z \in 2 .. Len(t)
    BY <1>0, <2>2, <2>4
  <2>6. VarEnd(t, i) = i + z
    BY <1>0, <2>3, <2>5, VariableIs
  <2>7. SubSeq(t, i + 1, (i + z) - 1) = SubSeq(s, j + 1, (j + z) - 1)
    <3> DEFINE u == SubSeq(t, i + 1, (i + z) - 1)
               v == SubSeq(s, j + 1, (j + z) - 1)
    <3>0. /\ i + 1 \in Int /\ i + z - 1 \in Int /\ j + 1 \in Int /\ j + z - 1 \in Int
          /\ i + z - 1 - (i + 1) + 1 = z - 1 /\ j + z - 1 - (j + 1) + 1 = z - 1
          /\ i + 1 <= i + z - 1 /\ j + 1 <= j + z - 1
      BY <2>2
    <3>1. \A k \in i + 1 .. i + z - 1 : t[k] \in C
      BY <1>0, <2>4
    <3>2. \A k \in j + 1 .. j + z - 1 : s[k] \in C
      BY <1>0, <2>4
    <3>3. /\ u \in Seq(C) /\ Len(u) = z - 1
          /\ \A k \in 1 .. z - 1 : u[k] = t[i + 1 + k - 1]
      BY <3>0, <3>1, SubSeqProperties
    <3>4. /\ v \in Seq(C) /\ Len(v) = z - 1
          /\ \A k \in 1 .. z - 1 : v[k] = s[j + 1 + k - 1]
      BY <3>0, <3>2, SubSeqProperties
    <3>5. ASSUME NEW k \in 1 .. z - 1 PROVE u[k] = v[k]
      <4>1. i + 1 + k - 1 = i + k /\ j + 1 + k - 1 = j + k /\ k \in 0 .. d - 1
        BY <2>2, <2>3, <1>0
      <4> QED BY <3>3, <3>4, <4>1 DEF Agree
    <3> HIDE DEF u, v
    <3>6. u = v
      BY <3>3, <3>4, <3>5, SeqEqual
    <3> QED BY <3>6 DEF u, v
  <2>8. ValueOf(t, i, i + z) = ValueOf(s, j, j + z)
    <3>1. ValueOf(t, i, i + z) = ValueOfText(SubSeq(t, i + 1, (i + z) - 1))
      BY ValueIs, Zenon
    <3>2. ValueOf(s, j, j + z) = ValueOfText(SubSeq(s, j + 1, (j + z) - 1))
      BY ValueIs, Zenon
    <3> QED BY <2>7, <3>1, <3>2, Zenon
  <2>9. \A k \in 1 .. z - 1 : InVariable(s[j + k])
    BY <2>1, <2>2, VariableThere
  <2>10. z \in 2 .. d
    BY <1>0, <2>2, <2>3
  <2> QED BY <2>1, <2>4, <2>6, <2>8, <2>9, <2>10
<1>3. ASSUME VarEnd(t, i) # 0 PROVE VarEnd(s, j) # 0
  <2>1. PICK z \in 2 .. Len(t) : VarEnd(t, i) = i + z /\ Variable(t, i, z)
    BY <1>0, <1>3, VariableIs
  <2>2. z \in Nat \ {0, 1}
    BY <2>1
  <2>3. z <= d /\ Variable(s, j, z)
    BY <1>0, <1>1, <2>1, <2>2, VariableMoves
  <2>4. z \in 2 .. Len(s)
    <3>1. j + z <= Len(s) + 1
      BY <2>3 DEF Variable
    <3> QED BY <1>0, <2>2, <3>1
  <2>5. VarEnd(s, j) = j + z
    BY <1>0, <2>3, <2>4, VariableIs
  <2> QED BY <2>4, <2>5
<1> QED BY <1>2, <1>3 DEF SameVariable

\* NextIs leaves no c out.
LEMMA NextIsFirst ==
  ASSUME NEW s, NEW i \in Nat \ {0}, NEW c, Len(s) \in Nat
  PROVE  IF NextIs(s, i, c) = 0 THEN \A q \in i .. Len(s) : s[q] # c
         ELSE \A q \in i .. NextIs(s, i, c) - 1 : s[q] # c
<1> DEFINE I == {q \in i .. Len(s) : s[q] = c}
<1>1. ASSUME I # {}
      PROVE  NextIs(s, i, c) \in I /\ \A q \in i .. NextIs(s, i, c) - 1 : s[q] # c
  <2>1. I \in SUBSET Nat
    OBVIOUS
  <2>2. PICK p \in I : \A q \in I : p <= q
    <3> HIDE DEF I
    <3> QED BY <1>1, <2>1, Smallest
  <2>3. \A q \in i .. p - 1 : s[q] # c
    <3> SUFFICES ASSUME NEW q \in i .. p - 1, s[q] = c PROVE FALSE
      OBVIOUS
    <3>1. q \in I
      BY <2>2
    <3> QED BY <2>2, <3>1
  <2>4. NextIs(s, i, c) = p
    BY <2>2, <2>3, NextIsThere
  <2> QED BY <2>2, <2>3, <2>4
<1>2. ASSUME I = {} PROVE NextIs(s, i, c) = 0
  <2>1. ASSUME NextIs(s, i, c) # 0 PROVE FALSE
    <3>1. NextIs(s, i, c) \in I
      BY <2>1, NextIsThere
    <3> QED BY <1>2, <3>1
  <2> QED BY <2>1
<1>3. ASSUME NextIs(s, i, c) = 0 PROVE I = {}
  <2>1. 0 \notin I
    OBVIOUS
  <2> HIDE DEF I
  <2> QED BY <1>1, <1>3, <2>1
<1>4. ASSUME NextIs(s, i, c) = 0 PROVE \A q \in i .. Len(s) : s[q] # c
  BY <1>3, <1>4
<1>5. ASSUME NextIs(s, i, c) # 0 PROVE \A q \in i .. NextIs(s, i, c) - 1 : s[q] # c
  <2>1. I # {}
    BY <1>2, <1>5
  <2> HIDE DEF I
  <2> QED BY <1>1, <2>1
<1> QED BY <1>4, <1>5

-------------------------------------------------------------------------------
(* The text of a word, from a position on *)

\* r ends with t, behind m characters.
IsTail(t, r, m) ==
  /\ m \in Nat /\ Len(r) = m + Len(t) /\ \A d \in 1 .. Len(t) : r[m + d] = t[d]

\* The next c in the end of a text is the next c in the text.
LEMMA TailCloses ==
  ASSUME NEW n \in Nat, NEW t, Len(t) = n, NEW r, NEW m \in Nat, IsTail(t, r, m), NEW c,
         NEW i \in 1 .. n + 1
  PROVE  NextIs(r, m + i, c) = IF NextIs(t, i, c) = 0 THEN 0 ELSE m + NextIs(t, i, c)
<1>0. /\ m \in Nat /\ Len(r) = m + n /\ Len(r) \in Nat /\ \A d \in 1 .. n : r[m + d] = t[d]
      /\ i \in Nat \ {0} /\ m + i \in Nat \ {0}
  BY DEF IsTail
<1>1. CASE NextIs(t, i, c) = 0
  <2>1. \A q \in i .. n : t[q] # c
    BY <1>0, <1>1, NextIsFirst
  <2>2. ASSUME NextIs(r, m + i, c) # 0 PROVE FALSE
    <3>1. PICK p \in m + i .. m + n : p = NextIs(r, m + i, c) /\ r[p] = c
      BY <1>0, <2>2, NextIsThere
    <3>2. PICK d \in i .. n : p = m + d
      <4>1. p - m \in i .. n /\ p = m + (p - m)
        BY <1>0, <3>1
      <4> QED BY <4>1
    <3>3. r[p] = t[d]
      BY <1>0, <3>2
    <3> QED BY <2>1, <3>1, <3>2, <3>3
  <2> QED BY <1>1, <2>2
<1>2. CASE NextIs(t, i, c) # 0
  <2>1. PICK p \in i .. n : p = NextIs(t, i, c) /\ t[p] = c
    BY <1>0, <1>2, NextIsThere
  <2>2. \A q \in i .. p - 1 : t[q] # c
    BY <1>0, <1>2, <2>1, NextIsFirst
  <2>3. PICK x \in m + i .. m + n : x = m + p /\ r[x] = c
    BY <1>0, <2>1
  <2>4. ASSUME NEW q \in m + i .. x - 1 PROVE r[q] # c
    <3>1. PICK d \in i .. p - 1 : q = m + d
      <4>1. q - m \in i .. p - 1 /\ q = m + (q - m)
        BY <1>0, <2>3
      <4> QED BY <4>1
    <3>2. d \in 1 .. n
      BY <2>1
    <3> QED BY <1>0, <2>2, <3>1, <3>2
  <2>5. NextIs(r, m + i, c) = x
    BY <1>0, <2>3, <2>4, NextIsThere
  <2> QED BY <1>2, <2>1, <2>3, <2>5
<1> QED BY <1>1, <1>2

\* A part of a text, wherever it stands.
LEMMA TailPart ==
  ASSUME NEW C, NEW t \in Seq(C), NEW r \in Seq(C), NEW m \in Nat, IsTail(t, r, m),
         NEW a \in 1 .. Len(t) + 1, NEW b \in 0 .. Len(t)
  PROVE  SubSeq(r, m + a, m + b) = SubSeq(t, a, b)
<1> DEFINE u == SubSeq(r, m + a, m + b)
           v == SubSeq(t, a, b)
<1>0. PICK n \in Nat : n = Len(t)
  BY LenProperties
<1>1. m + a \in Int /\ m + b \in Int /\ a \in Int /\ b \in Int /\ b <= n
  BY <1>0
<1>2. \A k \in a .. b : t[k] \in C
  BY <1>0
<1>3. \A k \in m + a .. m + b : r[k] \in C
  <2>1. Len(r) = m + n
    BY <1>0 DEF IsTail
  <2>2. \A k \in m + a .. m + b : k \in 1 .. Len(r)
    BY <1>0, <1>1, <2>1
  <2> QED BY <2>2
<1>4. /\ v \in Seq(C) /\ Len(v) = IF a <= b THEN b - a + 1 ELSE 0
      /\ \A k \in 1 .. b - a + 1 : v[k] = t[a + k - 1]
  BY <1>1, <1>2, SubSeqProperties
<1>5. PICK x \in Int, y \in Int : x = m + a /\ y = m + b
  BY <1>1
<1>6. /\ u \in Seq(C) /\ Len(u) = IF x <= y THEN y - x + 1 ELSE 0
      /\ \A k \in 1 .. y - x + 1 : u[k] = r[x + k - 1]
  BY <1>1, <1>3, <1>5, SubSeqProperties
<1>7. Len(u) = Len(v)
  BY <1>1, <1>4, <1>5, <1>6
<1>8. ASSUME NEW k \in 1 .. Len(v) PROVE u[k] = v[k]
  <2>1. k \in 1 .. b - a + 1 /\ k \in 1 .. y - x + 1
    BY <1>1, <1>4, <1>5
  <2>2. PICK d \in 1 .. n : d = a + k - 1 /\ m + d = x + k - 1
    <3>1. a + k - 1 \in 1 .. n /\ m + (a + k - 1) = x + k - 1
      BY <1>0, <1>1, <1>5, <2>1
    <3> QED BY <3>1
  <2>3. r[m + d] = t[d]
    BY <1>0 DEF IsTail
  <2> QED BY <1>4, <1>6, <2>1, <2>2, <2>3
<1> HIDE DEF u, v
<1>9. u = v
  BY <1>4, <1>6, <1>7, <1>8, SeqEqual
<1> QED BY <1>9 DEF u, v

\* f is what becomes of r from each position on.
Expands(f, r) ==
  \A j \in 1 .. Len(r) + 2, q \in BOOLEAN : f[j][q] = ExpandFrom(r, f, j, q)

\* What becomes of the end of a text depends on it alone.
LEMMA ExpandTail ==
  ASSUME NEW C, NEW n \in Nat, NEW t \in Seq(C), Len(t) = n, NEW r \in Seq(C),
         NEW m \in Nat, IsTail(t, r, m), NEW f, Expands(f, r), NEW g, Expands(g, t)
  PROVE  \A i \in 1 .. n + 2, q \in BOOLEAN : f[m + i][q] = g[i][q]
<1> DEFINE S == {i \in 1 .. n + 2 : \A q \in BOOLEAN : f[m + i][q] = g[i][q]}
<1>0. PICK l \in Nat : l = m + n /\ Len(r) = l
  BY DEF IsTail
<1>1. ASSUME NEW i \in 1 .. n + 2, \A k \in 1 .. n + 2 : k > i => k \in S PROVE i \in S
  <2> SUFFICES ASSUME NEW q \in BOOLEAN PROVE f[m + i][q] = g[i][q]
    OBVIOUS
  <2>1. PICK x \in 1 .. l + 2 : x = m + i
    BY <1>0
  <2>2. /\ f[x][q] = ExpandFrom(r, f, x, q) /\ ExpandRules(r, f, x, q)
        /\ g[i][q] = ExpandFrom(t, g, i, q) /\ ExpandRules(t, g, i, q)
    BY <1>0, <2>1, ExpandSteps DEF Expands
  <2>3. ASSUME NEW k \in 1 .. n + 2, k > i, NEW p \in BOOLEAN PROVE f[m + k][p] = g[k][p]
    BY <1>1, <2>3
  <2>4. CASE i > n
    <3>1. x > l
      BY <1>0, <2>1, <2>4
    <3> QED BY <1>0, <2>1, <2>2, <2>4, <3>1 DEF ExpandRules
  <2>5. CASE i <= n
    <3>0. x <= l /\ (i < n <=> x < l) /\ (~q) \in BOOLEAN
      BY <1>0, <2>1, <2>5
    <3>1. r[x] = t[i]
      BY <2>1, <2>5 DEF IsTail
    <3>2. SameVariable(r, x, t, i, n + 1 - i)
      <4>1. Agree(r, x, t, i, n + 1 - i)
        <5>1. n + 1 - i \in Nat \ {0}
          BY <2>5
        <5>2. ASSUME NEW k \in 0 .. (n + 1 - i) - 1
              PROVE  x + k <= Len(r) /\ i + k <= Len(t) /\ r[x + k] = t[i + k]
          <6>1. i + k \in 1 .. n /\ x + k = m + (i + k)
            BY <2>1, <2>5
          <6>2. x + k <= Len(r)
            BY <1>0, <6>1
          <6> QED BY <6>1, <6>2 DEF IsTail
        <5>3. ~ (x + (n + 1 - i) <= Len(r)) /\ ~ (i + (n + 1 - i) <= Len(t))
          BY <1>0, <2>1
        <5> QED BY <5>1, <5>2, <5>3 DEF Agree
      <4>2. x \in 1 .. Len(r) /\ i \in 1 .. Len(t)
        BY <1>0, <2>5, <3>0
      <4> QED BY <4>1, <4>2, VariableAgrees
    <3>3. CASE VarEnd(t, i) # 0
      <4>1. PICK z \in 2 .. n + 1 - i : /\ VarEnd(t, i) = i + z /\ i + z <= n + 1
                                        /\ VarEnd(r, x) = x + z
                                        /\ ValueOf(r, x, x + z) = ValueOf(t, i, i + z)
        BY <3>2, <3>3 DEF SameVariable
      <4>2. PICK k \in 1 .. n + 2 : k = i + z /\ k > i /\ m + k = x + z
        BY <2>1, <4>1
      <4>3. f[x + z][q] = g[i + z][q]
        BY <2>3, <4>2
      <4>4. VarEnd(r, x) # 0
        BY <4>1
      <4>5. f[x][q] = ValueOf(r, x, x + z) \o f[x + z][q]
        BY <1>0, <2>2, <3>0, <4>1, <4>4, Zenon DEF ExpandRules
      <4>6. g[i][q] = ValueOf(t, i, i + z) \o g[i + z][q]
        BY <2>2, <2>5, <3>3, <4>1, Zenon DEF ExpandRules
      <4> QED BY <2>1, <4>1, <4>3, <4>5, <4>6, Zenon
    <3>4. VarEnd(t, i) = 0 => VarEnd(r, x) = 0
      BY <2>5, <3>2 DEF SameVariable
    <3>5. \A p \in BOOLEAN : f[x + 1][p] = g[i + 1][p]
      <4>1. i + 1 \in 1 .. n + 2 /\ i + 1 > i /\ m + (i + 1) = x + 1
        BY <2>1, <2>5
      <4> QED BY <2>3, <4>1
    <3>6. CASE t[i] = DoubleQuote
      <4>1. f[x][q] = f[x + 1][~q] /\ g[i][q] = g[i + 1][~q]
        BY <1>0, <2>2, <2>5, <3>0, <3>1, <3>6, Zenon DEF ExpandRules
      <4> QED BY <2>1, <3>0, <3>5, <4>1, Zenon
    <3>7. CASE t[i] = "\\" /\ i < n /\ q
      <4>1. f[x][q] = <<r[x + 1]>> \o f[x + 2][q] /\ g[i][q] = <<t[i + 1]>> \o g[i + 2][q]
        BY <1>0, <2>2, <3>0, <3>1, <3>7, Zenon DEF ExpandRules
      <4>2. i + 2 \in 1 .. n + 2 /\ i + 2 > i /\ m + (i + 2) = x + 2
        BY <2>1, <3>7
      <4>3. i + 1 \in 1 .. n /\ m + (i + 1) = x + 1
        BY <2>1, <3>7
      <4>4. f[x + 2][q] = g[i + 2][q]
        BY <2>3, <4>2
      <4>5. r[x + 1] = t[i + 1]
        BY <4>3 DEF IsTail
      <4> QED BY <2>1, <4>1, <4>4, <4>5, Zenon
    <3>8. CASE t[i] = "'" /\ ~q
      <4>1. PICK e \in i + 1 .. n + 1 : /\ e = SingleEnd(t, i + 1)
                                        /\ SingleEnd(r, x + 1) = m + e
        <5>1. /\ SingleClose(t, i + 1) \in {0} \cup (i + 1 .. n)
          BY <2>5, ClosesThere
        <5>2. i + 1 \in 1 .. n + 1 /\ m + (i + 1) = x + 1
          BY <2>1, <2>5
        <5>3. SingleClose(r, x + 1) =
                IF SingleClose(t, i + 1) = 0 THEN 0 ELSE m + SingleClose(t, i + 1)
          BY <5>2, TailCloses DEF SingleClose
        <5>4. CASE SingleClose(t, i + 1) = 0
          <6>1. SingleEnd(t, i + 1) = n + 1 /\ SingleEnd(r, x + 1) = l + 1
            BY <1>0, <5>3, <5>4 DEF SingleEnd
          <6>2. l + 1 = m + (n + 1) /\ n + 1 \in i + 1 .. n + 1
            BY <1>0, <2>5
          <6> QED BY <6>1, <6>2
        <5>5. CASE SingleClose(t, i + 1) # 0
          <6>1. PICK e \in i + 1 .. n : e = SingleClose(t, i + 1)
            BY <5>1, <5>5
          <6>2. m + e # 0 /\ e # 0
            BY <6>1
          <6>3. SingleEnd(t, i + 1) = e /\ SingleEnd(r, x + 1) = m + e
            BY <5>3, <6>1, <6>2 DEF SingleEnd
          <6>4. e \in i + 1 .. n + 1
            BY <6>1
          <6> QED BY <6>3, <6>4
        <5> QED BY <5>4, <5>5
      <4>2. /\ f[x][q] = SubSeq(r, x + 1, (m + e) - 1) \o f[(m + e) + 1][q]
            /\ g[i][q] = SubSeq(t, i + 1, e - 1) \o g[e + 1][q]
        BY <1>0, <2>2, <2>5, <3>0, <3>1, <3>8, <4>1, Zenon DEF ExpandRules
      <4>3. PICK a \in 1 .. n + 1, b \in 0 .. n :
              a = i + 1 /\ b = e - 1 /\ m + a = x + 1 /\ m + b = (m + e) - 1
        <5>1. i + 1 \in 1 .. n + 1 /\ e - 1 \in 0 .. n
          BY <2>5, <4>1
        <5>2. m + (i + 1) = x + 1 /\ m + (e - 1) = (m + e) - 1
          BY <2>1, <4>1
        <5> QED BY <5>1, <5>2
      <4>4. SubSeq(r, m + a, m + b) = SubSeq(t, a, b)
        BY TailPart
      <4>5. PICK k \in 1 .. n + 2 : k = e + 1 /\ k > i /\ m + k = (m + e) + 1
        BY <2>5, <4>1
      <4>6. f[(m + e) + 1][q] = g[e + 1][q]
        BY <2>3, <4>5
      <4> QED BY <2>1, <4>2, <4>3, <4>4, <4>6, Zenon
    <3>9. CASE /\ VarEnd(t, i) = 0 /\ t[i] # DoubleQuote
               /\ ~ (t[i] = "\\" /\ i < n /\ q) /\ ~ (t[i] = "'" /\ ~q)
      <4>1. f[x][q] = <<r[x]>> \o f[x + 1][q] /\ g[i][q] = <<t[i]>> \o g[i + 1][q]
        BY <1>0, <2>2, <2>5, <3>0, <3>1, <3>4, <3>9, Zenon DEF ExpandRules
      <4> QED BY <2>1, <3>1, <3>5, <4>1, Zenon
    <3> QED BY <3>3, <3>6, <3>7, <3>8, <3>9
  <2> QED BY <2>4, <2>5
<1>2. \A i \in 1 .. n + 2 : i \in S
  <2>1. n + 2 \in Nat
    OBVIOUS
  <2> HIDE DEF S
  <2> QED BY <1>1, <2>1, Downward
<1> QED BY <1>2

\* The characters of what is read: "word" before each word, "?" where a shell differs.
Read(C) == C \cup {"V", "word", "?"}

\* The value of a variable is a text.
LEMMA ValueTyped ==
  ASSUME NEW C, NEW s, NEW i, NEW after
  PROVE  ValueOf(s, i, after) \in Seq(Read(C))
<1>1. "V" \in Read(C)
  BY DEF Read
<1>2. <<"V">> \in Seq(Read(C)) /\ <<>> \in Seq(Read(C))
  BY <1>1
<1>3. ValueOf(s, i, after) = <<"V">> \/ ValueOf(s, i, after) = <<>>
  BY ValueIs, Zenon DEF ValueOfText
<1> QED BY <1>2, <1>3

\* What a part of a text is.
LEMMA PartTyped ==
  ASSUME NEW C, NEW s \in Seq(C), NEW a \in Nat \ {0}, NEW b \in Int, b <= Len(s)
  PROVE  SubSeq(s, a, b) \in Seq(Read(C))
<1>1. \A k \in a .. b : s[k] \in Read(C)
  <2>1. \A k \in a .. b : k \in 1 .. Len(s)
    BY LenProperties
  <2> QED BY <2>1 DEF Read
<1> QED BY <1>1, SubSeqProperties

\* What becomes of a word is a text.
LEMMA ExpandTyped ==
  ASSUME NEW C, NEW n \in Nat, NEW r \in Seq(C), Len(r) = n, NEW f, Expands(f, r)
  PROVE  \A i \in 1 .. n + 2, q \in BOOLEAN : f[i][q] \in Seq(Read(C))
<1> DEFINE S == {i \in 1 .. n + 2 : \A q \in BOOLEAN : f[i][q] \in Seq(Read(C))}
<1>1. ASSUME NEW i \in 1 .. n + 2, \A k \in 1 .. n + 2 : k > i => k \in S PROVE i \in S
  <2> SUFFICES ASSUME NEW q \in BOOLEAN PROVE f[i][q] \in Seq(Read(C))
    OBVIOUS
  <2>1. f[i][q] = ExpandFrom(r, f, i, q) /\ ExpandRules(r, f, i, q)
    BY ExpandSteps DEF Expands
  <2>2. ASSUME NEW k \in 1 .. n + 2, k > i, NEW p \in BOOLEAN PROVE f[k][p] \in Seq(Read(C))
    BY <1>1, <2>2
  <2>3. \A u \in Seq(Read(C)), v \in Seq(Read(C)) : u \o v \in Seq(Read(C))
    OBVIOUS
  <2>4. ASSUME NEW c \in C PROVE <<c>> \in Seq(Read(C))
    BY DEF Read
  <2>5. CASE i > n
    <3>1. f[i][q] = <<>>
      BY <2>1, <2>5 DEF ExpandRules
    <3> QED BY <3>1
  <2>6. CASE i <= n
    <3>0. r[i] \in C
      BY <2>6
    <3>1. \A p \in BOOLEAN : f[i + 1][p] \in Seq(Read(C))
      <4>1. i + 1 \in 1 .. n + 2 /\ i + 1 > i
        BY <2>6
      <4> QED BY <2>2, <4>1
    <3>2. CASE VarEnd(r, i) # 0
      <4>1. VarEnd(r, i) \in i + 1 .. n + 1
        BY <2>6, <3>2, VarThere
      <4>2. VarEnd(r, i) \in 1 .. n + 2 /\ VarEnd(r, i) > i
        BY <4>1
      <4>3. f[VarEnd(r, i)][q] \in Seq(Read(C))
        BY <2>2, <4>2
      <4>4. f[i][q] = ValueOf(r, i, VarEnd(r, i)) \o f[VarEnd(r, i)][q]
        BY <2>1, <2>6, <3>2, Zenon DEF ExpandRules
      <4> QED BY <2>3, <4>3, <4>4, ValueTyped, Zenon
    <3>3. CASE r[i] = DoubleQuote
      <4>1. (~q) \in BOOLEAN /\ f[i][q] = f[i + 1][~q]
        BY <2>1, <2>6, <3>3 DEF ExpandRules
      <4> QED BY <3>1, <4>1, Zenon
    <3>4. CASE i < n /\ r[i] = "\\" /\ q
      <4>1. f[i][q] = <<r[i + 1]>> \o f[i + 2][q]
        BY <2>1, <3>4, Zenon DEF ExpandRules
      <4>2. i + 2 \in 1 .. n + 2 /\ i + 2 > i /\ r[i + 1] \in C
        BY <3>4
      <4>3. f[i + 2][q] \in Seq(Read(C)) /\ <<r[i + 1]>> \in Seq(Read(C))
        BY <2>2, <2>4, <4>2
      <4> QED BY <2>3, <4>1, <4>3, Zenon
    <3>5. CASE r[i] = "'" /\ ~q
      <4>1. PICK e \in i + 1 .. n + 1 : e = SingleEnd(r, i + 1)
        <5>1. SingleEnd(r, i + 1) \in i + 1 .. n + 1
          BY <2>6, ClosesThere DEF SingleEnd
        <5> QED BY <5>1
      <4>2. f[i][q] = SubSeq(r, i + 1, e - 1) \o f[e + 1][q]
        BY <2>1, <2>6, <3>5, <4>1, Zenon DEF ExpandRules
      <4>3. i + 1 \in Nat \ {0} /\ e - 1 \in Int /\ e - 1 <= n /\ e + 1 \in 1 .. n + 2 /\ e + 1 > i
        BY <2>6, <4>1
      <4>4. SubSeq(r, i + 1, e - 1) \in Seq(Read(C))
        BY <4>3, PartTyped
      <4>5. f[e + 1][q] \in Seq(Read(C))
        BY <2>2, <4>3
      <4> QED BY <2>3, <4>2, <4>4, <4>5, Zenon
    <3>6. CASE /\ VarEnd(r, i) = 0 /\ r[i] # DoubleQuote
               /\ ~ (r[i] = "\\" /\ i < n /\ q) /\ ~ (r[i] = "'" /\ ~q)
      <4>1. f[i][q] = <<r[i]>> \o f[i + 1][q]
        BY <2>1, <2>6, <3>6, Zenon DEF ExpandRules
      <4> QED BY <2>3, <2>4, <3>0, <3>1, <4>1, Zenon
    <3> QED BY <3>2, <3>3, <3>4, <3>5, <3>6
  <2> QED BY <2>5, <2>6
<1>2. \A i \in 1 .. n + 2 : i \in S
  <2>1. n + 2 \in Nat
    OBVIOUS
  <2> HIDE DEF S
  <2> QED BY <1>1, <2>1, Downward
<1> QED BY <1>2

\* What becomes of a text in double quotes or not: Expand begins outside of them.
ExpandOn(r, q) == (CHOOSE f : Expands(f, r))[1][q]

\* r begins with what expands to u and goes on with t, in double quotes if p.
ExpandOnRules(r, t, m, q) ==
  /\ r = <<>> => ExpandOn(r, q) = <<>>
  /\ r # <<>> /\ VarEnd(r, 1) # 0 /\ VarEnd(r, 1) = 1 + m =>
       ExpandOn(r, q) = ValueOf(r, 1, 1 + m) \o ExpandOn(t, q)
  /\ r # <<>> /\ m = 1 /\ r[1] = DoubleQuote => ExpandOn(r, q) = ExpandOn(t, ~q)
  /\ m = 2 /\ r[1] = "\\" /\ q => ExpandOn(r, q) = <<r[2]>> \o ExpandOn(t, q)
  /\ r # <<>> /\ r[1] = "'" /\ ~q /\ SingleEnd(r, 2) = m =>
       ExpandOn(r, q) = SubSeq(r, 2, m - 1) \o ExpandOn(t, q)
  /\ /\ r # <<>> /\ m = 1 /\ VarEnd(r, 1) = 0 /\ r[1] # DoubleQuote
     /\ ~ (r[1] = "\\" /\ q) /\ ~ (r[1] = "'" /\ ~q)
     => ExpandOn(r, q) = <<r[1]>> \o ExpandOn(t, q)

\* Expand is ExpandOn outside of quotes, and ExpandOn goes through a text part by part.
LEMMA ExpandOnIs ==
  ASSUME NEW C, NEW r \in Seq(C)
  PROVE  /\ Expand(r) = ExpandOn(r, FALSE)
         /\ \A q \in BOOLEAN : ExpandOn(r, q) \in Seq(Read(C))
         /\ \A t \in Seq(C), m \in Nat, q \in BOOLEAN :
              IsTail(t, r, m) => ExpandOnRules(r, t, m, q)
<1>0. PICK n \in Nat : Len(r) = n
  BY LenProperties
<1>1. ASSUME NEW t \in Seq(C)
      PROVE  Expands(CHOOSE f : Expands(f, t), t)
  <2>1. PICK l \in Nat : Len(t) = l
    BY LenProperties
  <2>2. \E f : Expands(f, t)
    BY <2>1, ExpandSolved DEF Expands
  <2> QED BY <2>2
<1>2. PICK f : f = CHOOSE g : Expands(g, r)
  OBVIOUS
<1>3. Expands(f, r) /\ \A q : ExpandOn(r, q) = f[1][q]
  BY <1>1, <1>2 DEF ExpandOn
<1>4. 1 \in 1 .. n + 2 /\ FALSE \in BOOLEAN
  OBVIOUS
<1>5. Expand(r) = ExpandOn(r, FALSE)
  <2>1. PICK g : Expands(g, r) /\ Expand(r) = g[1][FALSE]
    BY <1>0, ExpandSolved DEF Expands
  <2>2. IsTail(r, r, 0)
    BY <1>0 DEF IsTail
  <2>3. \A i \in 1 .. n + 2, q \in BOOLEAN : f[0 + i][q] = g[i][q]
    BY <1>0, <1>3, <2>1, <2>2, ExpandTail
  <2>4. f[1][FALSE] = g[1][FALSE]
    <3>1. 0 + 1 = 1
      OBVIOUS
    <3> QED BY <1>4, <2>3, <3>1
  <2> QED BY <1>3, <2>1, <2>4
<1>6. \A q \in BOOLEAN : ExpandOn(r, q) \in Seq(Read(C))
  BY <1>0, <1>3, <1>4, ExpandTyped
<1>7. ASSUME NEW t \in Seq(C), NEW m \in Nat, NEW q \in BOOLEAN, IsTail(t, r, m)
      PROVE  ExpandOnRules(r, t, m, q)
  <2>1. PICK l \in Nat : Len(t) = l
    BY LenProperties
  <2>2. PICK g : g = CHOOSE h : Expands(h, t)
    OBVIOUS
  <2>3. Expands(g, t) /\ \A p : ExpandOn(t, p) = g[1][p]
    BY <1>1, <2>2 DEF ExpandOn
  <2>4. \A p \in BOOLEAN : f[1 + m][p] = ExpandOn(t, p)
    <3>1. \A i \in 1 .. l + 2, p \in BOOLEAN : f[m + i][p] = g[i][p]
      BY <1>3, <1>7, <2>1, <2>3, ExpandTail
    <3>2. 1 \in 1 .. l + 2 /\ m + 1 = 1 + m
      OBVIOUS
    <3> QED BY <2>3, <3>1, <3>2
  <2>5. ExpandOn(r, q) = ExpandFrom(r, f, 1, q) /\ ExpandRules(r, f, 1, q)
    BY <1>0, <1>3, <1>4, ExpandSteps DEF Expands
  <2>6. r = <<>> => ExpandOn(r, q) = <<>>
    <3>1. r = <<>> => 1 > Len(r)
      OBVIOUS
    <3> QED BY <2>5, <3>1, Zenon DEF ExpandRules
  <2>7. r # <<>> => 1 <= Len(r)
    BY <1>0
  <2>8. r # <<>> /\ VarEnd(r, 1) # 0 /\ VarEnd(r, 1) = 1 + m =>
          ExpandOn(r, q) = ValueOf(r, 1, 1 + m) \o ExpandOn(t, q)
    BY <2>4, <2>5, <2>7, Zenon DEF ExpandRules
  <2>9. r # <<>> /\ m = 1 /\ r[1] = DoubleQuote => ExpandOn(r, q) = ExpandOn(t, ~q)
    <3>1. (~q) \in BOOLEAN
      OBVIOUS
    <3> QED BY <2>4, <2>5, <2>7, <3>1, Zenon DEF ExpandRules
  <2>10. m = 2 /\ r[1] = "\\" /\ q => ExpandOn(r, q) = <<r[2]>> \o ExpandOn(t, q)
    <3>1. m = 2 => 1 < Len(r) /\ 1 + m = 1 + 2
      BY <1>7, <2>1 DEF IsTail
    <3>2. 1 + 1 = 2
      OBVIOUS
    <3> QED BY <2>4, <2>5, <3>1, <3>2, Zenon DEF ExpandRules
  <2>11. r # <<>> /\ r[1] = "'" /\ ~q /\ SingleEnd(r, 2) = m =>
           ExpandOn(r, q) = SubSeq(r, 2, m - 1) \o ExpandOn(t, q)
    <3>1. 1 + 1 = 2 /\ m + 1 = 1 + m
      OBVIOUS
    <3> QED BY <2>4, <2>5, <2>7, <3>1, Zenon DEF ExpandRules
  <2>12. /\ r # <<>> /\ m = 1 /\ VarEnd(r, 1) = 0 /\ r[1] # DoubleQuote
         /\ ~ (r[1] = "\\" /\ q) /\ ~ (r[1] = "'" /\ ~q)
         => ExpandOn(r, q) = <<r[1]>> \o ExpandOn(t, q)
    BY <2>4, <2>5, <2>7, Zenon DEF ExpandRules
  <2> QED BY <2>6, <2>8, <2>9, <2>10, <2>11, <2>12 DEF ExpandOnRules
<1> QED BY <1>5, <1>6, <1>7

-------------------------------------------------------------------------------
(* What a shell reads *)

\* A backslash in a word that a shell reads otherwise, outside of double quotes or in them.
OtherBare(s, i) ==
  \/ i = Len(s) \/ s[i + 1] \in {DoubleQuote, "\\", "$", "'"}
  \/ \E k \in 1 .. i : s[k] = "$"
OtherQuoted(s, i) == ~ (i < Len(s) /\ s[i + 1] \in {DoubleQuote, "\\", "$"})

\* What each kind of character in a word means to a shell.
InWordRules(s, R, i, mode) ==
  /\ i > Len(s) => InWord(s, R, i, mode) = <<>>
  /\ i <= Len(s) /\ VarEnd(s, i) # 0 =>
       InWord(s, R, i, mode) = ValueOf(s, i, VarEnd(s, i)) \o R[VarEnd(s, i)][mode]
  /\ i <= Len(s) /\ s[i] = DoubleQuote /\ mode = "word" =>
       InWord(s, R, i, mode) = R[i + 1]["quoted"]
  /\ i <= Len(s) /\ s[i] = DoubleQuote /\ mode = "quoted" =>
       InWord(s, R, i, mode) = R[i + 1]["word"]
  /\ i <= Len(s) /\ s[i] = "\\" /\ mode = "quoted" =>
       InWord(s, R, i, mode) =
         IF OtherQuoted(s, i) THEN <<"?">> ELSE <<s[i + 1]>> \o R[i + 2][mode]
  /\ i <= Len(s) /\ s[i] = "\\" /\ mode = "word" =>
       InWord(s, R, i, mode) =
         IF OtherBare(s, i) THEN <<"?">> ELSE <<s[i + 1]>> \o R[i + 2][mode]
  /\ i <= Len(s) /\ s[i] \in Blanks /\ mode = "word" => InWord(s, R, i, mode) = R[i + 1]["out"]
  /\ i <= Len(s) /\ s[i] = "#" /\ mode = "word" => InWord(s, R, i, mode) = <<"?">>
  /\ i <= Len(s) /\ s[i] = "'" /\ mode = "word" =>
       InWord(s, R, i, mode) =
         IF NextIs(s, i + 1, "'") = 0 THEN <<"?">>
         ELSE SubSeq(s, i + 1, NextIs(s, i + 1, "'") - 1) \o R[NextIs(s, i + 1, "'") + 1][mode]
  /\ /\ i <= Len(s) /\ VarEnd(s, i) = 0 /\ s[i] # DoubleQuote /\ s[i] # "\\"
     /\ ~ (mode = "word" /\ (s[i] \in Blanks \/ s[i] = "#" \/ s[i] = "'"))
     => InWord(s, R, i, mode) = <<s[i]>> \o R[i + 1][mode]

\* InWord as one rule for each kind of character.
LEMMA InWordSteps ==
  ASSUME NEW n \in Nat, NEW s, Len(s) = n, NEW R, NEW i \in 1 .. n + 2,
         NEW mode \in {"word", "quoted"}
  PROVE  InWordRules(s, R, i, mode)
<1>0. /\ i <= n => (VarEnd(s, i) # 0 => s[i] = "$")
      /\ ~ (i > n /\ i <= n) /\ (i > n \/ i <= n) /\ (i <= n => (i < n \/ i = n))
      /\ ~ (i < n /\ i = n)
  BY VarThere
<1>c. /\ DoubleQuote \notin Blanks \cup {"#", "'", "\\", "$"}
      /\ "\\" \notin Blanks \cup {"#", "'", "$"}
      /\ "#" \notin Blanks \cup {"'", "$"} /\ "'" \notin Blanks \cup {"$"} /\ "$" \notin Blanks
      /\ " " \notin {DoubleQuote, "\\", "$", "'"} /\ "word" # "quoted"
  BY Zenon DEF DoubleQuote, Blanks
<1>m. mode = "word" \/ mode = "quoted"
  OBVIOUS
<1> DEFINE I(text) == InWord(s, R, i, mode) = text
<1>1. ASSUME i > n PROVE I(<<>>)
  BY <1>0, <1>1, Zenon DEF InWord
<1>2. ASSUME i <= n, VarEnd(s, i) # 0 PROVE I(ValueOf(s, i, VarEnd(s, i)) \o R[VarEnd(s, i)][mode])
  <2>1. /\ s[i] = "$" /\ s[i] # DoubleQuote /\ s[i] # "\\" /\ s[i] \notin Blanks
        /\ s[i] # "#" /\ s[i] # "'"
    BY <1>0, <1>2, <1>c, Zenon
  <2> QED BY <1>0, <1>2, <2>1, Zenon DEF InWord
<1>3. ASSUME i <= n, s[i] = DoubleQuote
      PROVE  I(R[i + 1][IF mode = "word" THEN "quoted" ELSE "word"])
  <2>1. s[i] # "\\" /\ s[i] \notin Blanks /\ s[i] # "#" /\ s[i] # "'" /\ VarEnd(s, i) = 0
    BY <1>0, <1>3, <1>c, Zenon
  <2> QED BY <1>0, <1>3, <2>1, Zenon DEF InWord
<1>4. ASSUME i <= n, s[i] = "\\", mode = "quoted"
      PROVE  I(IF OtherQuoted(s, i) THEN <<"?">> ELSE <<s[i + 1]>> \o R[i + 2][mode])
  <2>1. s[i] # DoubleQuote /\ VarEnd(s, i) = 0 /\ mode # "word"
    BY <1>0, <1>4, <1>c, Zenon
  <2>2. I(LET next == IF i < n THEN s[i + 1] ELSE " "
          IN  IF next \notin {DoubleQuote, "\\", "$"} THEN <<"?">> ELSE <<next>> \o R[i + 2][mode])
    BY <1>0, <1>4, <2>1, Zenon DEF InWord
  <2>3. CASE i < n
    BY <1>4, <2>2, <2>3, Zenon DEF OtherQuoted
  <2>4. CASE ~ (i < n)
    BY <1>c, <2>2, <2>4, Zenon DEF OtherQuoted
  <2> QED BY <2>3, <2>4
<1>5. ASSUME i <= n, s[i] = "\\", mode = "word"
      PROVE  I(IF OtherBare(s, i) THEN <<"?">> ELSE <<s[i + 1]>> \o R[i + 2][mode])
  <2>1. /\ s[i] # DoubleQuote /\ VarEnd(s, i) = 0 /\ mode # "quoted"
        /\ s[i] \notin Blanks /\ s[i] # "#" /\ s[i] # "'"
    BY <1>0, <1>5, <1>c, Zenon
  <2>2. I(LET next == IF i < n THEN s[i + 1] ELSE " "
          IN  IF \/ next \in {DoubleQuote, "\\", "$"} \/ next = "'" \/ i = n
                 \/ \E k \in 1 .. i : s[k] = "$"
              THEN <<"?">> ELSE <<next>> \o R[i + 2][mode])
    BY <1>0, <1>5, <2>1, Zenon DEF InWord
  <2>3. CASE i < n
    BY <1>0, <1>5, <2>2, <2>3, Zenon DEF OtherBare
  <2>4. CASE i = n
    BY <2>2, <2>4, Zenon DEF OtherBare
  <2> QED BY <1>0, <1>5, <2>3, <2>4
<1>6. ASSUME i <= n, s[i] \in Blanks, mode = "word" PROVE I(R[i + 1]["out"])
  <2>1. s[i] # DoubleQuote /\ s[i] # "\\" /\ VarEnd(s, i) = 0 /\ s[i] # "#" /\ s[i] # "'"
    BY <1>0, <1>6, <1>c, Zenon
  <2> QED BY <1>0, <1>6, <2>1, Zenon DEF InWord
<1>7. ASSUME i <= n, s[i] = "#", mode = "word" PROVE I(<<"?">>)
  <2>1. s[i] # DoubleQuote /\ s[i] # "\\" /\ VarEnd(s, i) = 0 /\ s[i] \notin Blanks /\ s[i] # "'"
    BY <1>0, <1>7, <1>c, Zenon
  <2> QED BY <1>0, <1>7, <2>1, Zenon DEF InWord
<1>8. ASSUME i <= n, s[i] = "'", mode = "word"
      PROVE  I(IF NextIs(s, i + 1, "'") = 0 THEN <<"?">>
               ELSE SubSeq(s, i + 1, NextIs(s, i + 1, "'") - 1)
                      \o R[NextIs(s, i + 1, "'") + 1][mode])
  <2>1. s[i] # DoubleQuote /\ s[i] # "\\" /\ VarEnd(s, i) = 0 /\ s[i] \notin Blanks /\ s[i] # "#"
    BY <1>0, <1>8, <1>c, Zenon
  <2> QED BY <1>0, <1>8, <2>1, Zenon DEF InWord
<1>9. ASSUME i <= n, VarEnd(s, i) = 0, s[i] # DoubleQuote, s[i] # "\\",
             ~ (mode = "word" /\ (s[i] \in Blanks \/ s[i] = "#" \/ s[i] = "'"))
      PROVE  I(<<s[i]>> \o R[i + 1][mode])
  BY <1>0, <1>9, Zenon DEF InWord
<1> QED BY <1>1, <1>2, <1>3, <1>4, <1>5, <1>6, <1>7, <1>8, <1>9, <1>c, Zenon DEF InWordRules

ShellRules(s, R, i) ==
  /\ i > Len(s) => ShellFrom(s, R, i, "out") = <<>>
  /\ i <= Len(s) /\ s[i] = "#" => ShellFrom(s, R, i, "out") = <<>>
  /\ i <= Len(s) /\ s[i] \in Blanks => ShellFrom(s, R, i, "out") = R[i + 1]["out"]
  /\ i <= Len(s) /\ s[i] # "#" /\ s[i] \notin Blanks =>
       ShellFrom(s, R, i, "out") = <<"word">> \o InWord(s, R, i, "word")
  /\ \A mode \in {"word", "quoted"} : ShellFrom(s, R, i, mode) = InWord(s, R, i, mode)

\* ShellFrom as one rule for each mode and kind of character.
LEMMA ShellSteps ==
  ASSUME NEW n \in Nat, NEW s, Len(s) = n, NEW R, NEW i \in 1 .. n + 2
  PROVE  ShellRules(s, R, i)
<1>0. ~ (i > n /\ i <= n) /\ (i > n \/ i <= n)
  OBVIOUS
<1>c. "#" \notin Blanks /\ "word" # "out" /\ "quoted" # "out"
  BY Zenon DEF Blanks
<1>1. i > n => ShellFrom(s, R, i, "out") = <<>>
  BY <1>0, Zenon DEF ShellFrom
<1>2. i <= n /\ s[i] = "#" => ShellFrom(s, R, i, "out") = <<>>
  <2> SUFFICES ASSUME i <= n, s[i] = "#" PROVE ShellFrom(s, R, i, "out") = <<>>
    OBVIOUS
  <2>1. s[i] \notin Blanks
    BY <1>c, Zenon
  <2> QED BY <1>0, <2>1, Zenon DEF ShellFrom
<1>3. i <= n /\ s[i] \in Blanks => ShellFrom(s, R, i, "out") = R[i + 1]["out"]
  <2> SUFFICES ASSUME i <= n, s[i] \in Blanks PROVE ShellFrom(s, R, i, "out") = R[i + 1]["out"]
    OBVIOUS
  <2>1. s[i] # "#"
    BY <1>c, Zenon
  <2> QED BY <1>0, <2>1, Zenon DEF ShellFrom
<1>4. i <= n /\ s[i] # "#" /\ s[i] \notin Blanks =>
        ShellFrom(s, R, i, "out") = <<"word">> \o InWord(s, R, i, "word")
  BY <1>0, Zenon DEF ShellFrom
<1>5. ASSUME NEW mode \in {"word", "quoted"} PROVE ShellFrom(s, R, i, mode) = InWord(s, R, i, mode)
  <2>1. mode # "out"
    BY <1>c, Zenon
  <2> QED BY <2>1, Zenon DEF ShellFrom
<1> QED BY <1>1, <1>2, <1>3, <1>4, <1>5 DEF ShellRules

\* What a shell reads from i on depends on later positions only.
LEMMA InWordFromLater ==
  ASSUME NEW n \in Nat, NEW s, Len(s) = n, NEW i \in 1 .. n + 2, NEW f, NEW g,
         NEW mode \in {"word", "quoted"}, \A k \in 1 .. n + 2 : k > i => f[k] = g[k]
  PROVE  InWord(s, f, i, mode) = InWord(s, g, i, mode)
<1>0. InWordRules(s, f, i, mode) /\ InWordRules(s, g, i, mode)
  BY InWordSteps
<1>1. CASE i > n
  BY <1>0, <1>1, Zenon DEF InWordRules
<1>2. CASE i <= n
  <2>0. mode = "word" \/ mode = "quoted"
    OBVIOUS
  <2>1. f[i + 1] = g[i + 1] /\ f[i + 2] = g[i + 2]
    BY <1>2
  <2>2. VarEnd(s, i) # 0 => f[VarEnd(s, i)] = g[VarEnd(s, i)]
    <3>1. VarEnd(s, i) # 0 => VarEnd(s, i) \in i + 1 .. n + 1
      BY <1>2, VarThere
    <3> QED BY <3>1
  <2>3. NextIs(s, i + 1, "'") # 0 => f[NextIs(s, i + 1, "'") + 1] = g[NextIs(s, i + 1, "'") + 1]
    <3>1. NextIs(s, i + 1, "'") \in {0} \cup (i + 1 .. n)
      BY <1>2, ClosesThere DEF SingleClose
    <3>2. ASSUME NEW c \in i + 1 .. n PROVE f[c + 1] = g[c + 1]
      BY <1>2, <3>2
    <3> QED BY <3>1, <3>2
  <2>4. CASE VarEnd(s, i) # 0
    BY <1>0, <1>2, <2>2, <2>4, Zenon DEF InWordRules
  <2>5. CASE s[i] = DoubleQuote
    BY <1>0, <1>2, <2>0, <2>1, <2>5, Zenon DEF InWordRules
  <2>6. CASE s[i] = "\\"
    <3>1. CASE mode = "word"
      BY <1>0, <1>2, <2>1, <2>6, <3>1, Zenon DEF InWordRules
    <3>2. CASE mode = "quoted"
      BY <1>0, <1>2, <2>1, <2>6, <3>2, Zenon DEF InWordRules
    <3> QED BY <2>0, <3>1, <3>2
  <2>7. CASE mode = "word" /\ s[i] \in Blanks
    BY <1>0, <1>2, <2>1, <2>7, Zenon DEF InWordRules
  <2>8. CASE mode = "word" /\ s[i] = "#"
    BY <1>0, <1>2, <2>8, Zenon DEF InWordRules
  <2>9. CASE mode = "word" /\ s[i] = "'"
    BY <1>0, <1>2, <2>3, <2>9, Zenon DEF InWordRules
  <2>10. CASE /\ VarEnd(s, i) = 0 /\ s[i] # DoubleQuote /\ s[i] # "\\"
              /\ ~ (mode = "word" /\ (s[i] \in Blanks \/ s[i] = "#" \/ s[i] = "'"))
    BY <1>0, <1>2, <2>1, <2>10, Zenon DEF InWordRules
  <2> QED BY <2>4, <2>5, <2>6, <2>7, <2>8, <2>9, <2>10
<1> QED BY <1>1, <1>2

\* ... and so does what it reads between words.
LEMMA ShellFromLater ==
  ASSUME NEW n \in Nat, NEW s, Len(s) = n, NEW i \in 1 .. n + 2, NEW f, NEW g,
         NEW mode \in Modes, \A k \in 1 .. n + 2 : k > i => f[k] = g[k]
  PROVE  ShellFrom(s, f, i, mode) = ShellFrom(s, g, i, mode)
<1>0. ShellRules(s, f, i) /\ ShellRules(s, g, i)
  BY ShellSteps
<1>1. \A m \in {"word", "quoted"} : InWord(s, f, i, m) = InWord(s, g, i, m)
  BY InWordFromLater
<1>2. CASE mode \in {"word", "quoted"}
  BY <1>0, <1>1, <1>2, Zenon DEF ShellRules
<1>3. CASE mode = "out"
  <2>1. i <= n => f[i + 1] = g[i + 1]
    OBVIOUS
  <2>2. i <= n \/ i > n
    OBVIOUS
  <2>3. "word" \in {"word", "quoted"}
    OBVIOUS
  <2> QED BY <1>0, <1>1, <1>3, <2>1, <2>2, <2>3, Zenon DEF ShellRules
<1> QED BY <1>2, <1>3 DEF Modes

\* R is what a shell reads in s from each position on.
Shell(R, s) ==
  \A i \in 1 .. Len(s) + 2, mode \in Modes : R[i][mode] = ShellFrom(s, R, i, mode)

\* The recursion of ShellWords has a solution: it is built from the end of the text.
LEMMA ShellSolved ==
  ASSUME NEW n \in Nat, NEW s, Len(s) = n
  PROVE  \E R : Shell(R, s) /\ ShellWords(s) = R[1]["out"]
<1> DEFINE D == 1 .. n + 2
           All(f, j) == [mode \in Modes |-> ShellFrom(s, f, j, mode)]
           Solved(f, k) == \A j \in D : j > n + 2 - k => f[j] = All(f, j)
           S == {k \in Nat : k <= n + 2 => \E f : f = [j \in D |-> f[j]] /\ Solved(f, k)}
           reads == CHOOSE f : f = [j \in D |-> All(f, j)]
<1>1. ASSUME NEW f, NEW g, NEW j \in D, \A k \in D : k > j => f[k] = g[k]
      PROVE  All(f, j) = All(g, j)
  BY <1>1, ShellFromLater
<1> HIDE DEF All
<1>2. 0 \in S
  <2>1. Solved([j \in D |-> 0], 0)
    OBVIOUS
  <2> QED BY <2>1
<1>3. ASSUME NEW k \in Nat, k \in S PROVE k + 1 \in S
  <2> SUFFICES ASSUME k + 1 <= n + 2
               PROVE  \E f : f = [j \in D |-> f[j]] /\ Solved(f, k + 1)
    OBVIOUS
  <2> PICK f : f = [j \in D |-> f[j]] /\ Solved(f, k)
    BY <1>3
  <2> DEFINE h == [j \in D |-> IF j = n + 2 - k THEN All(f, j) ELSE f[j]]
  <2>1. ASSUME NEW j \in D, j > n + 2 - (k + 1)
        PROVE  h[j] = All(h, j)
    <3>1. \A i \in D : i > j => h[i] = f[i]
      BY <2>1
    <3>2. All(h, j) = All(f, j)
      <4> HIDE DEF h
      <4> QED BY <1>1, <3>1
    <3>3. h[j] = All(f, j)
      BY <2>1
    <3> QED BY <3>2, <3>3
  <2>2. h = [j \in D |-> h[j]]
    OBVIOUS
  <2> HIDE DEF h
  <2> QED BY <2>1, <2>2
<1>4. n + 2 \in S
  <2> HIDE DEF S
  <2> QED BY <1>2, <1>3, Upward
<1>5. \E f : f = [j \in D |-> All(f, j)]
  <2>1. PICK f : f = [j \in D |-> f[j]] /\ Solved(f, n + 2)
    BY <1>4
  <2>2. \A j \in D : f[j] = All(f, j)
    BY <2>1
  <2> QED BY <2>1, <2>2
<1>6. reads = [j \in D |-> All(reads, j)]
  BY <1>5
<1>7. ShellWords(s) = reads[1]["out"]
  BY Zenon DEF ShellWords, All
<1> HIDE DEF reads
<1>8. \A j \in D : reads[j] = All(reads, j)
  BY <1>6
<1>9. ASSUME NEW j \in D, NEW mode \in Modes PROVE reads[j][mode] = ShellFrom(s, reads, j, mode)
  BY <1>8, Zenon DEF All
<1>10. Shell(reads, s)
  BY <1>9 DEF Shell
<1> QED BY <1>7, <1>10

\* What a shell reads is text, with the marks in it.
LEMMA ShellTyped ==
  ASSUME NEW C, NEW n \in Nat, NEW s \in Seq(C), Len(s) = n, NEW R, Shell(R, s)
  PROVE  \A i \in 1 .. n + 2, mode \in Modes : R[i][mode] \in Seq(Read(C))
<1> DEFINE S == {i \in 1 .. n + 2 : \A mode \in Modes : R[i][mode] \in Seq(Read(C))}
<1>0. \A u \in Seq(Read(C)), v \in Seq(Read(C)) : u \o v \in Seq(Read(C))
  OBVIOUS
<1>m. "word" \in Modes /\ "quoted" \in Modes /\ "out" \in Modes
      /\ \A mode \in Modes : mode = "out" \/ mode = "word" \/ mode = "quoted"
  BY DEF Modes
<1>1. ASSUME NEW i \in 1 .. n + 2, \A k \in 1 .. n + 2 : k > i => k \in S PROVE i \in S
  <2>0. ASSUME NEW k \in 1 .. n + 2, k > i, NEW mode \in Modes
        PROVE  R[k][mode] \in Seq(Read(C))
    BY <1>1, <2>0
  <2>1. ShellRules(s, R, i) /\ \A mode \in Modes : R[i][mode] = ShellFrom(s, R, i, mode)
    BY ShellSteps DEF Shell
  <2>2. <<>> \in Seq(Read(C)) /\ <<"?">> \in Seq(Read(C)) /\ <<"word">> \in Seq(Read(C))
    <3>1. "?" \in Read(C) /\ "word" \in Read(C)
      BY DEF Read
    <3> QED BY <3>1
  <2>3. ASSUME NEW mode \in {"word", "quoted"} PROVE InWord(s, R, i, mode) \in Seq(Read(C))
    <3>0. InWordRules(s, R, i, mode) /\ mode \in Modes /\ (mode = "word" \/ mode = "quoted")
      BY <1>m, InWordSteps
    <3>1. CASE i > n
      BY <2>2, <3>0, <3>1, Zenon DEF InWordRules
    <3>2. CASE i <= n
      <4>0. ASSUME NEW m \in Modes
            PROVE  R[i + 1][m] \in Seq(Read(C)) /\ R[i + 2][m] \in Seq(Read(C))
        <5>1. i + 1 \in 1 .. n + 2 /\ i + 1 > i /\ i + 2 \in 1 .. n + 2 /\ i + 2 > i
          BY <3>2
        <5> QED BY <2>0, <5>1
      <4>c. \A k \in 1 .. n : <<s[k]>> \in Seq(Read(C))
        <5>1. \A k \in 1 .. n : s[k] \in Read(C)
          BY DEF Read
        <5> QED BY <5>1
      <4>i. i \in 1 .. n /\ (i < n => i + 1 \in 1 .. n) /\ (i < n \/ i = n)
        BY <3>2
      <4>1. CASE VarEnd(s, i) # 0
        <5>1. VarEnd(s, i) \in i + 1 .. n + 1
          BY <3>2, <4>1, VarThere
        <5>2. VarEnd(s, i) \in 1 .. n + 2 /\ VarEnd(s, i) > i
          BY <5>1
        <5>3. R[VarEnd(s, i)][mode] \in Seq(Read(C))
          BY <2>0, <3>0, <5>2
        <5>4. InWord(s, R, i, mode) = ValueOf(s, i, VarEnd(s, i)) \o R[VarEnd(s, i)][mode]
          BY <3>0, <3>2, <4>1, Zenon DEF InWordRules
        <5> QED BY <1>0, <5>3, <5>4, ValueTyped, Zenon
      <4>2. CASE s[i] = DoubleQuote
        <5>1. \E m \in Modes : InWord(s, R, i, mode) = R[i + 1][m]
          BY <1>m, <3>0, <3>2, <4>2, Zenon DEF InWordRules
        <5> QED BY <4>0, <5>1
      <4>3. CASE s[i] = "\\"
        <5>1. \/ InWord(s, R, i, mode) = <<"?">>
              \/ i < n /\ InWord(s, R, i, mode) = <<s[i + 1]>> \o R[i + 2][mode]
          BY <3>0, <3>2, <4>3, <4>i, Zenon DEF InWordRules, OtherBare, OtherQuoted
        <5>2. ASSUME i < n PROVE <<s[i + 1]>> \o R[i + 2][mode] \in Seq(Read(C))
          <6>1. <<s[i + 1]>> \in Seq(Read(C)) /\ R[i + 2][mode] \in Seq(Read(C))
            BY <3>0, <4>0, <4>c, <4>i, <5>2
          <6> QED BY <1>0, <6>1
        <5> QED BY <2>2, <5>1, <5>2, Zenon
      <4>4. CASE mode = "word" /\ s[i] \in Blanks
        <5>1. InWord(s, R, i, mode) = R[i + 1]["out"]
          BY <3>0, <3>2, <4>4, Zenon DEF InWordRules
        <5> QED BY <1>m, <4>0, <5>1
      <4>5. CASE mode = "word" /\ s[i] = "#"
        BY <2>2, <3>0, <3>2, <4>5, Zenon DEF InWordRules
      <4>6. CASE mode = "word" /\ s[i] = "'"
        <5>1. NextIs(s, i + 1, "'") \in {0} \cup (i + 1 .. n)
          BY <3>2, ClosesThere DEF SingleClose
        <5>2. PICK c : c = NextIs(s, i + 1, "'")
          OBVIOUS
        <5>3. \/ InWord(s, R, i, mode) = <<"?">>
              \/ c # 0 /\ InWord(s, R, i, mode) = SubSeq(s, i + 1, c - 1) \o R[c + 1][mode]
          BY <3>0, <3>2, <4>6, <5>2, Zenon DEF InWordRules
        <5>4. ASSUME c # 0
              PROVE  SubSeq(s, i + 1, c - 1) \in Seq(Read(C)) /\ R[c + 1][mode] \in Seq(Read(C))
          <6>1. c \in i + 1 .. n
            BY <5>1, <5>2, <5>4
          <6>2. /\ i + 1 \in Nat \ {0} /\ c - 1 \in Int /\ c - 1 <= n
                /\ c + 1 \in 1 .. n + 2 /\ c + 1 > i
            BY <6>1
          <6>3. SubSeq(s, i + 1, c - 1) \in Seq(Read(C))
            BY <6>2, PartTyped
          <6> QED BY <2>0, <3>0, <6>2, <6>3
        <5> QED BY <1>0, <2>2, <5>3, <5>4, Zenon
      <4>7. CASE /\ VarEnd(s, i) = 0 /\ s[i] # DoubleQuote /\ s[i] # "\\"
                 /\ ~ (mode = "word" /\ (s[i] \in Blanks \/ s[i] = "#" \/ s[i] = "'"))
        <5>1. InWord(s, R, i, mode) = <<s[i]>> \o R[i + 1][mode]
          BY <3>0, <3>2, <4>7, Zenon DEF InWordRules
        <5> QED BY <1>0, <3>0, <4>0, <4>c, <4>i, <5>1, Zenon
      <4> QED BY <4>1, <4>2, <4>3, <4>4, <4>5, <4>6, <4>7
    <3> QED BY <3>1, <3>2
  <2>4. ASSUME NEW mode \in Modes PROVE R[i][mode] \in Seq(Read(C))
    <3>1. CASE mode = "out"
      <4>1. i <= n => R[i + 1]["out"] \in Seq(Read(C))
        BY <1>m, <2>0
      <4>2. (i <= n \/ i > n) /\ "word" \in {"word", "quoted"}
        OBVIOUS
      <4>3. \/ R[i]["out"] = <<>>
            \/ i <= n /\ R[i]["out"] = R[i + 1]["out"]
            \/ R[i]["out"] = <<"word">> \o InWord(s, R, i, "word")
        BY <1>m, <2>1, <4>2, Zenon DEF ShellRules
      <4> QED BY <1>0, <2>2, <2>3, <3>1, <4>1, <4>2, <4>3, Zenon
    <3>2. CASE mode = "word" \/ mode = "quoted"
      <4>1. mode \in {"word", "quoted"}
        BY <3>2
      <4> QED BY <2>1, <2>3, <4>1, Zenon DEF ShellRules
    <3> QED BY <1>m, <3>1, <3>2
  <2> QED BY <2>4
<1>2. \A i \in 1 .. n + 2 : i \in S
  <2>1. n + 2 \in Nat
    OBVIOUS
  <2> HIDE DEF S
  <2> QED BY <1>1, <2>1, Downward
<1> QED BY <1>2

-------------------------------------------------------------------------------
(* Words that copy their text *)

\* r begins with m characters of s, those from j on, and goes on with t.
Copied(s, j, m, r, t) ==
  IsTail(t, r, m) /\ j + m <= Len(s) + 1 /\ \A k \in 0 .. m - 1 : r[1 + k] = s[j + k]

\* A part of a text that stands before w.
Before(s, j, c, w) == SubSeq(s, j, c) \o w

\* What begins with the part of s from j to c begins with the m characters from j on.
LEMMA CopiedFrom ==
  ASSUME NEW C, NEW n \in Nat, NEW s \in Seq(C), Len(s) = n, NEW w \in Seq(C),
         NEW j \in 1 .. n + 1, NEW c \in 0 .. n, NEW m \in Nat, j + m <= c + 1
  PROVE  /\ Before(s, j, c, w) \in Seq(C) /\ Before(s, j + m, c, w) \in Seq(C)
         /\ Copied(s, j, m, Before(s, j, c, w), Before(s, j + m, c, w))
<1>1. ASSUME NEW i \in Nat \ {0}, i <= c + 1, NEW r, r = Before(s, i, c, w)
      PROVE  /\ r \in Seq(C) /\ Len(r) = (c + 1 - i) + Len(w)
             /\ \A k \in i .. c : r[k + 1 - i] = s[k]
             /\ \A k \in 1 .. Len(w) : r[(c + 1 - i) + k] = w[k]
  <2>1. \A k \in i .. c : s[k] \in C
    BY <1>1
  <2>u. PICK u : u = SubSeq(s, i, c)
    OBVIOUS
  <2>2. /\ u \in Seq(C) /\ Len(u) = (IF i <= c THEN c - i + 1 ELSE 0)
        /\ \A k \in 1 .. c - i + 1 : u[k] = s[i + k - 1]
    BY <1>1, <2>1, <2>u, SubSeqProperties
  <2>3. PICK l \in Nat : l = c + 1 - i /\ Len(u) = l
    <3>1. c + 1 - i \in Nat /\ Len(u) = c + 1 - i
      BY <1>1, <2>2
    <3> QED BY <3>1
  <2>4. /\ r \in Seq(C) /\ Len(r) = Len(u) + Len(w)
        /\ \A k \in 1 .. Len(u) : r[k] = u[k]
        /\ \A k \in 1 .. Len(w) : r[Len(u) + k] = w[k]
    <3>1. r = u \o w
      BY <1>1, <2>u, Zenon DEF Before
    <3>2. u \in Seq(C) /\ w \in Seq(C)
      BY <2>2
    <3> QED BY <3>1, <3>2, Concat
  <2>5. ASSUME NEW k \in i .. c PROVE r[k + 1 - i] = s[k]
    <3>1. PICK d \in 1 .. l : d = k + 1 - i
      <4>1. k + 1 - i \in 1 .. l
        BY <2>3
      <4> QED BY <4>1
    <3>2. d \in 1 .. c - i + 1 /\ i + d - 1 = k
      BY <2>3, <3>1
    <3> QED BY <2>2, <2>3, <2>4, <3>1, <3>2
  <2> QED BY <2>3, <2>4, <2>5
<1>2. PICK x, y : x = Before(s, j, c, w) /\ y = Before(s, j + m, c, w)
  OBVIOUS
<1>3. PICK i \in Nat \ {0} : i = j + m
  OBVIOUS
<1>i. j \in Nat \ {0} /\ j <= c + 1 /\ i \in Nat \ {0} /\ i <= c + 1 /\ y = Before(s, i, c, w)
  BY <1>2, <1>3
<1>4. /\ x \in Seq(C) /\ Len(x) = (c + 1 - j) + Len(w)
      /\ \A k \in j .. c : x[k + 1 - j] = s[k]
      /\ \A k \in 1 .. Len(w) : x[(c + 1 - j) + k] = w[k]
  BY <1>1, <1>2, <1>i, ZenonT(30)
<1>5. /\ y \in Seq(C) /\ Len(y) = (c + 1 - i) + Len(w)
      /\ \A k \in i .. c : y[k + 1 - i] = s[k]
      /\ \A k \in 1 .. Len(w) : y[(c + 1 - i) + k] = w[k]
  BY <1>1, <1>i, ZenonT(30)
<1>6. Len(w) \in Nat
  BY LenProperties
<1>7. Len(x) = m + Len(y)
  BY <1>3, <1>4, <1>5, <1>6
<1>8. ASSUME NEW d \in 1 .. Len(y) PROVE x[m + d] = y[d]
  <2>1. CASE d <= c + 1 - i
    <3>1. PICK k \in i .. c : d = k + 1 - i /\ m + d = k + 1 - j /\ k \in j .. c
      <4>1. d + i - 1 \in i .. c /\ d = (d + i - 1) + 1 - i /\ m + d = (d + i - 1) + 1 - j
            /\ d + i - 1 \in j .. c
        BY <1>3, <2>1
      <4> QED BY <4>1
    <3> QED BY <1>4, <1>5, <3>1
  <2>2. CASE d > c + 1 - i
    <3>1. PICK k \in 1 .. Len(w) : d = (c + 1 - i) + k /\ m + d = (c + 1 - j) + k
      <4>1. d - (c + 1 - i) \in 1 .. Len(w)
        BY <1>3, <1>5, <1>6, <2>2
      <4>2. d = (c + 1 - i) + (d - (c + 1 - i)) /\ m + d = (c + 1 - j) + (d - (c + 1 - i))
        BY <1>3
      <4> QED BY <4>1, <4>2
    <3> QED BY <1>4, <1>5, <3>1
  <2>3. d <= c + 1 - i \/ d > c + 1 - i
    BY <1>3
  <2> QED BY <2>1, <2>2, <2>3
<1>9. ASSUME NEW k \in 0 .. m - 1 PROVE x[1 + k] = s[j + k]
  <2>1. j + k \in j .. c /\ (j + k) + 1 - j = 1 + k
    OBVIOUS
  <2> QED BY <1>4, <2>1
<1>10. Copied(s, j, m, x, y)
  BY <1>7, <1>8, <1>9 DEF Copied, IsTail
<1> QED BY <1>2, <1>4, <1>5, <1>10

\* The part itself.
LEMMA CopiedPart ==
  ASSUME NEW C, NEW n \in Nat, NEW s \in Seq(C), Len(s) = n, NEW w \in Seq(C),
         NEW j \in 1 .. n, NEW c \in j .. n
  PROVE  Before(s, j, c, w) \in Seq(C) /\ Copied(s, j, c + 1 - j, Before(s, j, c, w), w)
<1>1. PICK m \in Nat : m = c + 1 - j /\ j + m = c + 1
  <2>1. c + 1 - j \in Nat /\ j + (c + 1 - j) = c + 1
    OBVIOUS
  <2> QED BY <2>1
<1>2. SubSeq(s, c + 1, c) = <<>>
  <2>1. c + 1 \in Int /\ c \in Int /\ ~ (c + 1 <= c)
    OBVIOUS
  <2>2. \A k \in c + 1 .. c : s[k] \in C
    OBVIOUS
  <2>3. PICK u : u = SubSeq(s, c + 1, c)
    OBVIOUS
  <2>4. u \in Seq(C) /\ Len(u) = 0
    BY <2>1, <2>2, <2>3, SubSeqProperties
  <2> QED BY <2>3, <2>4
<1>3. Before(s, c + 1, c, w) = w
  BY <1>2 DEF Before
<1>4. j \in 1 .. n + 1 /\ c \in 0 .. n
  OBVIOUS
<1>5. Before(s, j, c, w) \in Seq(C) /\ Copied(s, j, m, Before(s, j, c, w), Before(s, j + m, c, w))
  BY <1>1, <1>4, CopiedFrom, SMTT(30)
<1> QED BY <1>1, <1>3, <1>5

\* A copy that is followed by a copy is one copy.
LEMMA CopiedAlong ==
  ASSUME NEW s, NEW j \in Nat, NEW m \in Nat, NEW p \in Nat, NEW r, NEW t, NEW u,
         Len(u) \in Nat, Len(s) \in Nat, Copied(s, j, m, r, t), Copied(s, j + m, p, t, u)
  PROVE  Copied(s, j, m + p, r, u)
<1>1. /\ Len(r) = m + Len(t) /\ \A d \in 1 .. Len(t) : r[m + d] = t[d]
      /\ Len(t) = p + Len(u) /\ \A d \in 1 .. Len(u) : t[p + d] = u[d]
      /\ (j + m) + p <= Len(s) + 1
      /\ \A k \in 0 .. m - 1 : r[1 + k] = s[j + k]
      /\ \A k \in 0 .. p - 1 : t[1 + k] = s[(j + m) + k]
  BY DEF Copied, IsTail
<1>2. m + p \in Nat /\ Len(r) = (m + p) + Len(u) /\ j + (m + p) <= Len(s) + 1
  BY <1>1
<1>3. ASSUME NEW d \in 1 .. Len(u) PROVE r[(m + p) + d] = u[d]
  <2>1. p + d \in 1 .. Len(t) /\ m + (p + d) = (m + p) + d
    BY <1>1
  <2> QED BY <1>1, <2>1
<1>4. ASSUME NEW k \in 0 .. (m + p) - 1 PROVE r[1 + k] = s[j + k]
  <2>1. CASE k < m
    BY <1>1, <2>1
  <2>2. CASE k >= m
    <3>1. PICK e \in 0 .. p - 1 : k = m + e
      <4>1. k - m \in 0 .. p - 1 /\ k = m + (k - m)
        BY <2>2
      <4> QED BY <4>1
    <3>2. 1 + e \in 1 .. Len(t) /\ m + (1 + e) = 1 + k /\ (j + m) + e = j + k
      BY <1>1, <3>1
    <3> QED BY <1>1, <3>2, ZenonT(30)
  <2> QED BY <2>1, <2>2
<1> QED BY <1>2, <1>3, <1>4 DEF Copied, IsTail

Escapes(s, j) == s[j] = "\\" /\ j < Len(s)

\* One step of a word that ends: it goes on at k.
WordStep(s, W, j, k) ==
  /\ W[k] # Bad /\ W[j].at = W[k].at /\ s[j] \notin {"&", "*"}
  /\ s[j] = "'" => SingleClose(s, j + 1) # 0 /\ k = SingleClose(s, j + 1) + 1
  /\ s[j] = DoubleQuote => DoubleClose(s, j + 1) # 0 /\ k = DoubleClose(s, j + 1) + 1
  /\ Escapes(s, j) => k = j + 2 /\ W[j].raw = <<s[j + 1]>> \o W[k].raw
  /\ ~Escapes(s, j) => W[j].raw = Before(s, j, k - 1, W[k].raw)
  /\ s[j] \notin {"'", DoubleQuote} /\ ~Escapes(s, j) => k = j + 1

\* W holds the words from each position of s on.
Lexes(W, s) ==
  \A j \in 1 .. Len(s) + 1 : W[j] = WordFrom(s, W, j) /\ LexWord(s, j) = W[j]

\* A word that does not end at j and does end later goes on by one step.
LEMMA WordStepIs ==
  ASSUME NEW C, NEW n \in Nat, NEW s \in Seq(C), Len(s) = n, NEW W, Lexes(W, s),
         NEW j \in 1 .. n + 1, ~EndsWord(s, j), W[j] # Bad
  PROVE  j \in 1 .. n /\ \E k \in j + 1 .. n + 1 : WordStep(s, W, j, k)
<1>0. W[j] = WordFrom(s, W, j) /\ WordRules(s, W, j)
  BY WordSteps DEF Lexes
<1>1. j \in 1 .. n
  BY DEF EndsWord
<1>q. DoubleQuote \notin {"&", "*", "$", "'", "\\"}
  BY Zenon DEF DoubleQuote
<1>2. s[j] \notin {"&", "*"}
  BY <1>0 DEF WordRules
<1>3. ASSUME NEW part, NEW k, W[j] = Then(part, W[k])
      PROVE  W[k] # Bad /\ W[j].raw = part \o W[k].raw /\ W[j].at = W[k].at
  <2>1. W[k] # Bad
    BY <1>3 DEF Then
  <2> QED BY <1>3, <2>1, SMTT(30) DEF Then
<1>4. CASE s[j] = "'"
  <2>1. PICK c : c = SingleClose(s, j + 1)
    OBVIOUS
  <2>2. c # 0 /\ W[j] = Then(SubSeq(s, j, c), W[c + 1])
    BY <1>0, <1>4, <2>1, Zenon DEF WordRules
  <2>3. c \in j + 1 .. n
    BY <1>1, <2>1, <2>2, ClosesThere
  <2>4. PICK k \in j + 1 .. n + 1 : k = c + 1 /\ k - 1 = c
    BY <2>3
  <2>5. W[k] # Bad /\ W[j].raw = SubSeq(s, j, c) \o W[k].raw /\ W[j].at = W[k].at
    BY <1>3, <2>2, <2>4
  <2>6. s[j] # DoubleQuote /\ ~Escapes(s, j)
    BY <1>4, <1>q DEF Escapes
  <2>7. WordStep(s, W, j, k)
    BY <1>2, <1>4, <2>1, <2>2, <2>4, <2>5, <2>6 DEF WordStep, Before
  <2> QED BY <1>1, <2>7
<1>5. CASE s[j] = DoubleQuote
  <2>1. PICK c : c = DoubleClose(s, j + 1)
    OBVIOUS
  <2>2. c # 0 /\ W[j] = Then(SubSeq(s, j, c), W[c + 1])
    BY <1>0, <1>5, <2>1, Zenon DEF WordRules
  <2>3. c \in j + 1 .. n
    BY <1>1, <2>1, <2>2, ClosesThere
  <2>4. PICK k \in j + 1 .. n + 1 : k = c + 1 /\ k - 1 = c
    BY <2>3
  <2>5. W[k] # Bad /\ W[j].raw = SubSeq(s, j, c) \o W[k].raw /\ W[j].at = W[k].at
    BY <1>3, <2>2, <2>4
  <2>6. s[j] # "'" /\ ~Escapes(s, j)
    BY <1>5, <1>q DEF Escapes
  <2>7. WordStep(s, W, j, k)
    BY <1>2, <1>5, <2>1, <2>2, <2>4, <2>5, <2>6 DEF WordStep, Before
  <2> QED BY <1>1, <2>7
<1>6. CASE Escapes(s, j)
  <2>1. s[j] = "\\" /\ j < n /\ s[j] # "'" /\ s[j] # DoubleQuote
    BY <1>6, <1>q DEF Escapes
  <2>2. W[j] = Then(<<s[j + 1]>>, W[j + 2])
    BY <1>0, <2>1, Zenon DEF WordRules
  <2>3. PICK k \in j + 1 .. n + 1 : k = j + 2
    BY <2>1
  <2>4. W[k] # Bad /\ W[j].raw = <<s[j + 1]>> \o W[k].raw /\ W[j].at = W[k].at
    BY <1>3, <2>2, <2>3
  <2>5. WordStep(s, W, j, k)
    BY <1>2, <1>6, <2>1, <2>3, <2>4 DEF WordStep
  <2> QED BY <1>1, <2>5
<1>7. CASE s[j] \notin {"'", DoubleQuote} /\ ~Escapes(s, j)
  <2>1. ~ (s[j] = "$" /\ j < n /\ s[j + 1] = "(")
    BY <1>0, Zenon DEF WordRules
  <2>2. W[j] = Then(<<s[j]>>, W[j + 1])
    BY <1>0, <1>2, <1>7, <2>1, Zenon DEF WordRules, Escapes
  <2>3. PICK k \in j + 1 .. n + 1 : k = j + 1 /\ k - 1 = j
    BY <1>1
  <2>4. W[k] # Bad /\ W[j].raw = <<s[j]>> \o W[k].raw /\ W[j].at = W[k].at
    BY <1>3, <2>2, <2>3
  <2>5. SubSeq(s, j, j) = <<s[j]>>
    <3>1. PICK u, v : u = SubSeq(s, j, j) /\ v = <<s[j]>>
      OBVIOUS
    <3>2. \A i \in j .. j : s[i] \in C
      BY <1>1
    <3>3. u \in Seq(C) /\ Len(u) = 1 /\ u[1] = s[j]
      <4>1. j \in Int /\ j - j + 1 = 1 /\ 1 \in 1 .. 1 /\ j + 1 - 1 = j /\ j <= j
        BY <1>1
      <4> QED BY <3>1, <3>2, <4>1, SubSeqProperties
    <3>4. v \in Seq(C) /\ Len(v) = 1 /\ v[1] = s[j]
      BY <1>1, <3>1
    <3>5. \A i \in 1 .. 1 : u[i] = v[i]
      BY <3>3, <3>4
    <3> QED BY <3>1, <3>3, <3>4, <3>5, SeqEqual
  <2>6. W[j].raw = Before(s, j, k - 1, W[k].raw)
    BY <2>3, <2>4, <2>5 DEF Before
  <2>7. WordStep(s, W, j, k)
    BY <1>2, <1>7, <2>3, <2>4, <2>6 DEF WordStep
  <2> QED BY <1>1, <2>7
<1> QED BY <1>4, <1>5, <1>6, <1>7

\* The rest of a word is a text, and ends within the text.
LEMMA WordTyped ==
  ASSUME NEW C, NEW n \in Nat, NEW s \in Seq(C), Len(s) = n, NEW W, Lexes(W, s)
  PROVE  \A j \in 1 .. n + 1 : /\ W[j].raw \in Seq(C)
                               /\ W[j] # Bad => W[j].at \in j .. n + 1
<1> DEFINE S == {j \in 1 .. n + 1 : /\ W[j].raw \in Seq(C)
                                    /\ W[j] # Bad => W[j].at \in j .. n + 1}
<1>1. ASSUME NEW j \in 1 .. n + 1, \A k \in 1 .. n + 1 : k > j => k \in S PROVE j \in S
  <2>1. CASE W[j] = Bad
    <3>1. W[j].raw = <<>> /\ <<>> \in Seq(C)
      BY <2>1 DEF Bad
    <3> QED BY <2>1, <3>1
  <2>2. CASE EndsWord(s, j)
    <3>1. W[j] = [raw |-> <<>>, at |-> j]
      <4>1. W[j] = WordFrom(s, W, j) /\ WordRules(s, W, j)
        BY WordSteps DEF Lexes
      <4> QED BY <2>2, <4>1, Zenon DEF WordRules
    <3>2. W[j].raw = <<>> /\ <<>> \in Seq(C) /\ W[j].at = j /\ j \in j .. n + 1
      BY <3>1
    <3> QED BY <3>2
  <2>3. CASE W[j] # Bad /\ ~EndsWord(s, j)
    <3>1. j \in 1 .. n
      BY <2>3, WordStepIs
    <3>2. PICK k \in j + 1 .. n + 1 : WordStep(s, W, j, k)
      BY <2>3, WordStepIs
    <3>3. W[k] # Bad /\ W[j].at = W[k].at
      BY <3>2 DEF WordStep
    <3>4. W[k].raw \in Seq(C) /\ W[k].at \in k .. n + 1
      BY <1>1, <3>3
    <3>5. CASE Escapes(s, j)
      <4>1. W[j].raw = <<s[j + 1]>> \o W[k].raw
        BY <3>2, <3>5 DEF WordStep
      <4>2. s[j + 1] \in C
        BY <3>1, <3>5 DEF Escapes
      <4>3. W[j].raw \in Seq(C)
        BY <3>4, <4>1, <4>2
      <4> QED BY <3>3, <3>4, <4>3
    <3>6. CASE ~Escapes(s, j)
      <4>1. k - 1 \in j .. n
        OBVIOUS
      <4>2. W[j].raw = Before(s, j, k - 1, W[k].raw)
        BY <3>2, <3>6 DEF WordStep
      <4>3. W[j].raw \in Seq(C)
        BY <3>1, <3>4, <4>1, <4>2, CopiedPart
      <4> QED BY <3>3, <3>4, <4>3
    <3> QED BY <3>5, <3>6
  <2> QED BY <2>1, <2>2, <2>3
<1>2. \A j \in 1 .. n + 1 : j \in S
  <2>1. n + 1 \in Nat
    OBVIOUS
  <2> HIDE DEF S
  <2> QED BY <1>1, <2>1, Downward
<1> QED BY <1>2

\* What a variable consists of.
VarChar(c) == c = "$" \/ InVariable(c)

\* No character of a variable has a meaning of its own.
LEMMA VarCharIs ==
  ASSUME NEW c, VarChar(c)
  PROVE  /\ c \notin {"'", DoubleQuote, "\\", "&", "*", "#"} /\ c \notin Blanks
         /\ c # "$" => InVariable(c)
BY Zenon DEF VarChar, InVariable, Letters, Digits, Blanks, DoubleQuote

\* The word from j on that has gone on up to j + k.
WordAt(s, W, j, k) ==
  W[j + k] # Bad /\ W[j + k].at = W[j].at /\ Copied(s, j, k, W[j].raw, W[j + k].raw)

\* A word goes through the characters of a variable one by one.
LEMMA WordRun ==
  ASSUME NEW C, NEW n \in Nat, NEW s \in Seq(C), Len(s) = n, NEW W, Lexes(W, s),
         NEW j \in 1 .. n, W[j] # Bad, NEW p \in j + 1 .. n + 1,
         \A i \in j .. p - 1 : ~EndsWord(s, i) /\ VarChar(s[i])
  PROVE  \A k \in Nat : j + k <= p => WordAt(s, W, j, k)
<1> DEFINE S == {k \in Nat : j + k <= p => WordAt(s, W, j, k)}
<1>t. \A i \in 1 .. n + 1 : W[i].raw \in Seq(C)
  BY WordTyped
<1>1. 0 \in S
  <2>1. j + 0 = j /\ W[j].raw \in Seq(C) /\ Len(W[j].raw) \in Nat
    BY <1>t
  <2>2. IsTail(W[j].raw, W[j].raw, 0)
    <3>1. PICK x : x = W[j].raw
      OBVIOUS
    <3>2. Len(x) = 0 + Len(x) /\ \A d \in 1 .. Len(x) : x[0 + d] = x[d]
      BY <2>1, <3>1
    <3> QED BY <3>1, <3>2 DEF IsTail
  <2>3. Copied(s, j, 0, W[j].raw, W[j].raw)
    BY <2>2 DEF Copied
  <2>4. WordAt(s, W, j, 0)
    BY <2>1, <2>3 DEF WordAt
  <2> QED BY <2>4
<1>2. ASSUME NEW k \in Nat, k \in S PROVE k + 1 \in S
  <2> SUFFICES ASSUME j + (k + 1) <= p PROVE WordAt(s, W, j, k + 1)
    OBVIOUS
  <2>1. PICK i \in 1 .. n : i = j + k /\ i \in j .. p - 1 /\ i + 1 = j + (k + 1)
    OBVIOUS
  <2>2. WordAt(s, W, j, k)
    BY <1>2
  <2>3. W[i] # Bad /\ W[i].at = W[j].at /\ Copied(s, j, k, W[j].raw, W[i].raw)
    BY <2>1, <2>2, Zenon DEF WordAt
  <2>4. ~EndsWord(s, i) /\ VarChar(s[i])
    BY <2>1
  <2>5. PICK x \in i + 1 .. n + 1 : WordStep(s, W, i, x)
    BY <2>1, <2>3, <2>4, WordStepIs
  <2>6. s[i] \notin {"'", DoubleQuote, "\\"} /\ ~Escapes(s, i)
    BY <2>4, VarCharIs DEF Escapes
  <2>7. x = i + 1 /\ W[x] # Bad /\ W[i].at = W[x].at /\ W[i].raw = Before(s, i, x - 1, W[x].raw)
    BY <2>5, <2>6 DEF WordStep
  <2>8. Copied(s, i, 1, W[i].raw, W[x].raw)
    <3>1. x - 1 \in i .. n /\ (x - 1) + 1 - i = 1
      BY <2>1, <2>7
    <3>2. W[x].raw \in Seq(C)
      BY <1>t, <2>1
    <3>3. Copied(s, i, (x - 1) + 1 - i, Before(s, i, x - 1, W[x].raw), W[x].raw)
      BY <2>1, <3>1, <3>2, CopiedPart
    <3> QED BY <2>7, <3>1, <3>3
  <2>9. Copied(s, j, k + 1, W[j].raw, W[x].raw)
    <3>1. Len(W[x].raw) \in Nat
      BY <1>t, <2>1
    <3>2. j \in Nat /\ 1 \in Nat /\ j + k = i
      BY <2>1
    <3> QED BY <2>3, <2>8, <3>1, <3>2, CopiedAlong
  <2>10. x = j + (k + 1)
    BY <2>1, <2>7
  <2> QED BY <2>3, <2>7, <2>9, <2>10 DEF WordAt
<1>3. \A k \in Nat : k \in S
  <2> HIDE DEF S
  <2> QED BY <1>1, <1>2, Upward
<1> QED BY <1>3

\* An operator is not the end of the word from j on, nor does a backslash follow the
\* variable there.
NoOperator(s, W, j) == \A p \in 1 .. Len(s) : OperatorAt(s, p) # 0 => W[j].at # p
NoEscape(s, j) ==
  \A p \in j + 1 .. Len(s) :
    (\A i \in j + 1 .. p - 1 : InVariable(s[i])) /\ ~InVariable(s[p]) /\ ~EndsWord(s, p)
      => ~Escapes(s, p)

\* The raw text of a word has the same variables as the text.
LEMMA WordFollows ==
  ASSUME NEW C, NEW n \in Nat, NEW s \in Seq(C), Len(s) = n, NEW W, Lexes(W, s),
         NEW j \in 1 .. n, W[j] # Bad, s[j] = "$", NoOperator(s, W, j), NoEscape(s, j)
  PROVE  \E d : Agree(W[j].raw, 1, s, j, d) /\ \A k \in 1 .. d : WordAt(s, W, j, k)
<1>t. \A i \in 1 .. n + 1 : W[i].raw \in Seq(C)
  BY WordTyped
<1>0. EndsWord(s, n + 1) /\ ~EndsWord(s, j) /\ ~InVariable("$")
  <2>1. "$" \notin OpChars /\ "$" \notin Blanks \cup {"#"} /\ ~InVariable("$")
    BY Zenon DEF OpChars, Blanks, InVariable, Letters, Digits
  <2>2. OperatorAt(s, j) = 0
    BY <2>1, OperatorThere
  <2>3. ~EndsWord(s, j)
    BY <2>1, <2>2 DEF EndsWord
  <2> QED BY <2>1, <2>3 DEF EndsWord
<1> DEFINE I == {i \in j + 1 .. n + 1 : EndsWord(s, i) \/ ~InVariable(s[i])}
<1>1. PICK p \in I : \A i \in I : p <= i
  <2>1. n + 1 \in I /\ I \in SUBSET Nat
    BY <1>0
  <2> HIDE DEF I
  <2> QED BY <2>1, Smallest
<1>2. p \in j + 1 .. n + 1 /\ (EndsWord(s, p) \/ ~InVariable(s[p]))
  BY <1>1
<1>3. ASSUME NEW i \in j + 1 .. p - 1 PROVE ~EndsWord(s, i) /\ InVariable(s[i])
  <2>1. i \notin I /\ i \in j + 1 .. n + 1
    BY <1>1, <1>2
  <2> QED BY <2>1
<1> HIDE DEF I
<1>4. ASSUME NEW i \in j .. p - 1 PROVE ~EndsWord(s, i) /\ VarChar(s[i])
  <2>1. CASE i = j
    BY <1>0, <2>1 DEF VarChar
  <2>2. CASE i # j
    <3>1. i \in j + 1 .. p - 1
      BY <1>2, <2>2
    <3> QED BY <1>3, <3>1 DEF VarChar
  <2> QED BY <2>1, <2>2
<1>5. \A k \in Nat : j + k <= p => WordAt(s, W, j, k)
  BY <1>2, <1>4, WordRun
<1>6. PICK d \in Nat \ {0} : p = j + d
  <2>1. p - j \in Nat \ {0} /\ p = j + (p - j)
    BY <1>2
  <2> QED BY <2>1
<1>7. \A k \in 1 .. d : WordAt(s, W, j, k)
  BY <1>5, <1>6
<1>8. PICK r, t : r = W[j].raw /\ t = W[p].raw
  OBVIOUS
<1>9. /\ W[p] # Bad /\ W[p].at = W[j].at /\ Len(r) = d + Len(t) /\ r[d + 1] = r[1 + d]
      /\ \A k \in 1 .. Len(t) : r[d + k] = t[k]
      /\ \A k \in 0 .. d - 1 : r[1 + k] = s[j + k]
  <2>1. d \in 1 .. d /\ d + 1 = 1 + d
    OBVIOUS
  <2>2. WordAt(s, W, j, d)
    BY <1>7, <2>1
  <2> QED BY <1>6, <1>8, <2>1, <2>2 DEF WordAt, Copied, IsTail
<1>10. t \in Seq(C) /\ Len(t) \in Nat
  BY <1>2, <1>8, <1>t
<1>11. EndsWord(s, p) => t = <<>> /\ (p <= n => ~InVariable(s[p]))
  <2> SUFFICES ASSUME EndsWord(s, p) PROVE t = <<>> /\ (p <= n => ~InVariable(s[p]))
    OBVIOUS
  <2>0. p \in 1 .. n + 1
    BY <1>2
  <2>1. W[p] = [raw |-> <<>>, at |-> p]
    <3>1. W[p] = WordFrom(s, W, p) /\ WordRules(s, W, p)
      BY <2>0, WordSteps DEF Lexes
    <3> QED BY <3>1, Zenon DEF WordRules
  <2>2. W[j].at = p /\ t = <<>>
    BY <1>8, <1>9, <2>1
  <2>3. ASSUME p <= n PROVE ~InVariable(s[p])
    <3>1. OperatorAt(s, p) = 0
      BY <2>0, <2>2, <2>3 DEF NoOperator
    <3>2. ~ (p > n)
      BY <2>3, <2>0
    <3>3. s[p] \in Blanks \cup {"#"}
      BY <3>1, <3>2, Zenon DEF EndsWord
    <3> QED BY <3>3, Zenon DEF Blanks, InVariable, Letters, Digits
  <2> QED BY <2>2, <2>3
<1>12. ASSUME ~EndsWord(s, p) PROVE p <= n /\ ~InVariable(s[p]) /\ Len(t) > 0 /\ t[1] = s[p]
  <2>0. p \in 1 .. n /\ p \in j + 1 .. n
    BY <1>2, <1>12 DEF EndsWord
  <2>1. ~InVariable(s[p])
    BY <1>2, <1>12
  <2>2. ~Escapes(s, p)
    BY <1>3, <1>12, <2>0, <2>1 DEF NoEscape
  <2>3. PICK k \in p + 1 .. n + 1 : WordStep(s, W, p, k)
    BY <1>9, <1>12, <2>0, WordStepIs
  <2>4. t = Before(s, p, k - 1, W[k].raw)
    BY <1>8, <2>2, <2>3 DEF WordStep
  <2>5. k - 1 \in p .. n /\ W[k].raw \in Seq(C)
    BY <1>t, <2>0
  <2>6. Copied(s, p, (k - 1) + 1 - p, t, W[k].raw)
    BY <2>0, <2>4, <2>5, CopiedPart
  <2>7. PICK m \in Nat \ {0} : m = (k - 1) + 1 - p
    <3>1. (k - 1) + 1 - p \in Nat \ {0}
      BY <2>0
    <3> QED BY <3>1
  <2>8. Len(t) = m + Len(W[k].raw) /\ 0 \in 0 .. m - 1 /\ \A i \in 0 .. m - 1 : t[1 + i] = s[p + i]
    BY <2>6, <2>7 DEF Copied, IsTail
  <2>9. t[1 + 0] = s[p + 0] /\ 1 + 0 = 1 /\ p + 0 = p
    BY <2>0, <2>8
  <2>10. Len(W[k].raw) \in Nat
    BY <2>5
  <2> QED BY <2>0, <2>1, <2>8, <2>9, <2>10
<1>13. Agree(r, 1, s, j, d)
  <2>1. ASSUME NEW k \in 0 .. d - 1
        PROVE  1 + k <= Len(r) /\ j + k <= Len(s) /\ r[1 + k] = s[j + k]
    BY <1>2, <1>6, <1>9, <1>10
  <2>2. 1 + d <= Len(r) => ~InVariable(r[1 + d])
    <3> SUFFICES ASSUME 1 + d <= Len(r) PROVE ~InVariable(r[1 + d])
      OBVIOUS
    <3>1. 1 \in 1 .. Len(t)
      BY <1>9, <1>10
    <3>2. ~EndsWord(s, p)
      BY <1>11, <3>1
    <3>3. r[d + 1] = t[1]
      BY <1>9, <3>1
    <3> QED BY <1>9, <1>12, <3>2, <3>3
  <2>3. j + d <= Len(s) => ~InVariable(s[j + d])
    BY <1>6, <1>11, <1>12
  <2> QED BY <2>1, <2>2, <2>3 DEF Agree
<1> QED BY <1>7, <1>8, <1>13

-------------------------------------------------------------------------------
(* Texts that rattan and a shell read alike *)

Unmarked(x) == \A i \in 1 .. Len(x) : x[i] # "?"

\* The parts of a text with no mark have no mark.
LEMMA UnmarkedParts ==
  ASSUME NEW A, NEW u \in Seq(A), NEW v \in Seq(A), Unmarked(u \o v)
  PROVE  Unmarked(u) /\ Unmarked(v)
<1>1. PICK w : w = u \o v
  OBVIOUS
<1>2. PICK l \in Nat, m \in Nat : l = Len(u) /\ m = Len(v)
  BY LenProperties
<1>3. /\ Len(w) = l + m /\ \A i \in 1 .. l : w[i] = u[i]
      /\ \A d \in 1 .. m : w[l + d] = v[d]
  BY <1>1, <1>2, Concat
<1>4. \A i \in 1 .. l + m : w[i] # "?"
  BY <1>1, <1>3 DEF Unmarked
<1>5. (\A i \in 1 .. l : i \in 1 .. l + m) /\ (\A d \in 1 .. m : l + d \in 1 .. l + m)
  OBVIOUS
<1> QED BY <1>2, <1>3, <1>4, <1>5 DEF Unmarked

\* A mark is marked.
LEMMA MarkIs == ~Unmarked(<<"?">>)
<1>1. Len(<<"?">>) = 1 /\ <<"?">>[1] = "?" /\ 1 \in 1 .. 1
  OBVIOUS
<1> QED BY <1>1 DEF Unmarked

\* A variable is read up to where its characters end.
LEMMA VariableEnds ==
  ASSUME NEW n \in Nat, NEW s, Len(s) = n, NEW j \in 1 .. n, NEW p \in j + 1 .. n + 1,
         p <= n => ~InVariable(s[p]), VarEnd(s, j) # 0
  PROVE  VarEnd(s, j) \in j + 1 .. p
<1>1. PICK z \in 2 .. n : VarEnd(s, j) = j + z /\ Variable(s, j, z)
  BY VariableIs
<1>2. j + z <= n + 1 /\ z \in Nat /\ j \in Nat
  <2>1. j + z <= n + 1
    BY <1>1, Zenon DEF Variable
  <2> QED BY <2>1
<1>3. ASSUME p < j + z PROVE FALSE
  <2>1. PICK k \in 1 .. z - 1 : p = j + k
    <3>1. p - j \in 1 .. z - 1 /\ p = j + (p - j)
      BY <1>3
    <3> QED BY <3>1
  <2>2. InVariable(s[j + k])
    BY <1>1, <1>2, VariableThere
  <2>3. p <= n
    BY <1>2, <1>3
  <2> QED BY <2>1, <2>2, <2>3
<1> QED BY <1>1, <1>2, <1>3

\* A variable hides no mark that stands behind it.
LEMMA ShellRun ==
  ASSUME NEW C, NEW n \in Nat, NEW s \in Seq(C), Len(s) = n, NEW R, Shell(R, s),
         NEW j \in 1 .. n, NEW p \in j + 1 .. n + 1, s[j] = "$",
         \A i \in j + 1 .. p - 1 : InVariable(s[i]), p <= n => ~InVariable(s[p]),
         Unmarked(R[j]["word"])
  PROVE  Unmarked(R[p]["word"])
<1>m. "word" \in {"word", "quoted"} /\ "word" \in Modes
  BY DEF Modes
<1>t. \A i \in 1 .. n + 2 : R[i]["word"] \in Seq(Read(C))
  BY <1>m, ShellTyped, Zenon
<1>r. ASSUME NEW i \in 1 .. n
      PROVE  InWordRules(s, R, i, "word") /\ R[i]["word"] = InWord(s, R, i, "word")
  <2>1. i \in 1 .. n + 2
    OBVIOUS
  <2>2. ShellRules(s, R, i) /\ InWordRules(s, R, i, "word")
    BY <1>m, <2>1, ShellSteps, InWordSteps
  <2>3. R[i]["word"] = ShellFrom(s, R, i, "word")
    BY <1>m, <2>1 DEF Shell
  <2> QED BY <1>m, <2>2, <2>3, Zenon DEF ShellRules
<1>c. ASSUME NEW c \in C PROVE <<c>> \in Seq(Read(C))
  BY DEF Read
<1>1. PICK q \in j + 1 .. p : Unmarked(R[q]["word"])
  <2>1. CASE VarEnd(s, j) # 0
    <3>1. VarEnd(s, j) \in j + 1 .. p
      BY <2>1, VariableEnds
    <3>2. j <= n
      OBVIOUS
    <3>3. R[j]["word"] = ValueOf(s, j, VarEnd(s, j)) \o R[VarEnd(s, j)]["word"]
      BY <1>r, <2>1, <3>2, Zenon DEF InWordRules
    <3>4. R[VarEnd(s, j)]["word"] \in Seq(Read(C))
      <4>1. VarEnd(s, j) \in 1 .. n + 2
        BY <3>1
      <4> QED BY <1>t, <4>1
    <3>5. Unmarked(R[VarEnd(s, j)]["word"])
      BY <3>3, <3>4, ValueTyped, UnmarkedParts
    <3> QED BY <3>1, <3>5
  <2>2. CASE VarEnd(s, j) = 0
    <3>1. s[j] # DoubleQuote /\ s[j] # "\\" /\ s[j] # "#" /\ s[j] # "'" /\ s[j] \notin Blanks
      BY VarCharIs DEF VarChar
    <3>2. j <= n
      OBVIOUS
    <3>3. R[j]["word"] = <<s[j]>> \o R[j + 1]["word"]
      BY <1>r, <2>2, <3>1, <3>2, Zenon DEF InWordRules
    <3>4. R[j + 1]["word"] \in Seq(Read(C)) /\ <<s[j]>> \in Seq(Read(C))
      <4>1. j + 1 \in 1 .. n + 2 /\ s[j] \in C
        OBVIOUS
      <4> QED BY <1>t, <1>c, <4>1
    <3>5. Unmarked(R[j + 1]["word"])
      BY <3>3, <3>4, UnmarkedParts
    <3> QED BY <3>5
  <2> QED BY <2>1, <2>2
<1>2. ASSUME NEW i \in j + 1 .. p - 1, Unmarked(R[i]["word"]) PROVE Unmarked(R[i + 1]["word"])
  <2>0. i \in 1 .. n /\ i <= n
    OBVIOUS
  <2>1. s[i] # DoubleQuote /\ s[i] # "\\" /\ s[i] # "#" /\ s[i] # "'" /\ s[i] \notin Blanks
        /\ s[i] # "$"
    <3>1. InVariable(s[i])
      BY <1>2
    <3>2. s[i] # "$"
      BY <3>1, Zenon DEF InVariable, Letters, Digits
    <3> QED BY <3>1, <3>2, VarCharIs DEF VarChar
  <2>2. VarEnd(s, i) = 0
    BY <2>0, <2>1, VarThere
  <2>3. R[i]["word"] = <<s[i]>> \o R[i + 1]["word"]
    BY <1>r, <2>0, <2>1, <2>2, Zenon DEF InWordRules
  <2>4. R[i + 1]["word"] \in Seq(Read(C)) /\ <<s[i]>> \in Seq(Read(C))
    <3>1. i + 1 \in 1 .. n + 2 /\ s[i] \in C
      BY <2>0
    <3> QED BY <1>t, <1>c, <3>1
  <2> QED BY <1>2, <2>3, <2>4, UnmarkedParts
<1> DEFINE S == {k \in Nat : q + k <= p => Unmarked(R[q + k]["word"])}
<1>3. 0 \in S
  BY <1>1
<1>4. ASSUME NEW k \in Nat, k \in S PROVE k + 1 \in S
  <2> SUFFICES ASSUME q + (k + 1) <= p PROVE Unmarked(R[q + (k + 1)]["word"])
    OBVIOUS
  <2>1. PICK i \in j + 1 .. p - 1 : i = q + k /\ i + 1 = q + (k + 1)
    <3>1. q + k \in j + 1 .. p - 1 /\ (q + k) + 1 = q + (k + 1)
      OBVIOUS
    <3> QED BY <3>1
  <2>2. Unmarked(R[i]["word"])
    BY <1>4, <2>1
  <2> QED BY <1>2, <2>1, <2>2
<1>5. \A k \in Nat : k \in S
  <2> HIDE DEF S
  <2> QED BY <1>3, <1>4, Upward
<1>6. p - q \in Nat /\ q + (p - q) = p
  OBVIOUS
<1> QED BY <1>5, <1>6, SMTT(30)

\* A backslash after a variable in a word is marked.
LEMMA NoEscapes ==
  ASSUME NEW C, NEW n \in Nat, NEW s \in Seq(C), Len(s) = n, NEW R, Shell(R, s),
         NEW j \in 1 .. n, s[j] = "$", Unmarked(R[j]["word"])
  PROVE  NoEscape(s, j)
<1> SUFFICES ASSUME NEW p \in j + 1 .. n, \A i \in j + 1 .. p - 1 : InVariable(s[i]),
                    ~InVariable(s[p]), Escapes(s, p)
             PROVE  FALSE
  BY DEF NoEscape
<1>1. p \in j + 1 .. n + 1 /\ p \in 1 .. n + 2 /\ p <= n /\ j \in 1 .. p
  OBVIOUS
<1>2. Unmarked(R[p]["word"])
  BY <1>1, ShellRun
<1>m. "word" \in {"word", "quoted"} /\ "word" \in Modes
  BY DEF Modes
<1>3. s[p] = "\\" /\ OtherBare(s, p)
  BY <1>1 DEF Escapes, OtherBare
<1>4. R[p]["word"] = <<"?">>
  <2>1. ShellRules(s, R, p) /\ InWordRules(s, R, p, "word")
    BY <1>m, <1>1, ShellSteps, InWordSteps
  <2>2. R[p]["word"] = ShellFrom(s, R, p, "word")
    BY <1>m, <1>1 DEF Shell
  <2>3. InWord(s, R, p, "word") = <<"?">>
    BY <1>1, <1>3, <2>1, Zenon DEF InWordRules
  <2> QED BY <1>m, <2>1, <2>2, <2>3, Zenon DEF ShellRules
<1> QED BY <1>2, <1>4, MarkIs

-------------------------------------------------------------------------------
(* In double quotes *)

\* Double quotes close at a double quote, and an escaped character does not close them.
LEMMA DoubleCloseMore ==
  ASSUME NEW n \in Nat, NEW s, Len(s) = n, NEW i \in 1 .. n + 1
  PROVE  /\ DoubleClose(s, i) # 0 =>
              DoubleClose(s, i) \in i .. n /\ s[DoubleClose(s, i)] = DoubleQuote
         /\ i <= n /\ Escapes(s, i) => DoubleClose(s, i) = DoubleClose(s, i + 2)
<1>1. PICK f : \A j \in 1 .. n + 1 :
                 f[j] = DoubleCloseFrom(s, f, j) /\ DoubleClose(s, j) = f[j]
  BY DoubleCloseSolved
<1> DEFINE S == {j \in 1 .. n + 1 : f[j] # 0 => s[f[j]] = DoubleQuote}
<1>2. ASSUME NEW j \in 1 .. n + 1, \A k \in 1 .. n + 1 : k > j => k \in S PROVE j \in S
  <2>1. j <= n => j + 1 \in S
    BY <1>2
  <2>2. j < n => j + 2 \in S
    BY <1>2
  <2> QED BY <1>1, <2>1, <2>2 DEF DoubleCloseFrom
<1>3. \A j \in 1 .. n + 1 : j \in S
  <2>1. n + 1 \in Nat
    OBVIOUS
  <2> HIDE DEF S
  <2> QED BY <1>2, <2>1, Downward
<1>4. DoubleClose(s, i) # 0 => DoubleClose(s, i) \in i .. n /\ s[DoubleClose(s, i)] = DoubleQuote
  BY <1>1, <1>3, DoubleCloseThere
<1>5. ASSUME i <= n, Escapes(s, i) PROVE DoubleClose(s, i) = DoubleClose(s, i + 2)
  <2>1. s[i] = "\\" /\ s[i] # DoubleQuote /\ i < n /\ ~ (i > n)
    BY <1>5 DEF Escapes, DoubleQuote
  <2>2. i + 2 \in 1 .. n + 1
    BY <2>1
  <2>3. DoubleCloseFrom(s, f, i) = f[i + 2]
    BY <2>1, Zenon DEF DoubleCloseFrom
  <2> QED BY <1>1, <2>2, <2>3
<1> QED BY <1>4, <1>5

\* Quotes stay open over a variable, which is the same in the raw text.
LEMMA QuotedFollows ==
  ASSUME NEW C, NEW n \in Nat, NEW s \in Seq(C), Len(s) = n, NEW j \in 1 .. n,
         s[j] = "$", NEW c, c = DoubleClose(s, j), c # 0, NEW w \in Seq(C)
  PROVE  \E d : /\ Agree(Before(s, j, c, w), 1, s, j, d)
                /\ \A k \in 1 .. d : j + k \in 1 .. c /\ DoubleClose(s, j + k) = c
<1>0. j \in 1 .. n + 1 /\ c \in j .. n /\ s[c] = DoubleQuote
  BY DoubleCloseMore
<1>1. ~InVariable(s[c]) /\ s[j] # DoubleQuote
  BY <1>0, Zenon DEF InVariable, Letters, Digits, DoubleQuote
<1> DEFINE I == {i \in j + 1 .. c : ~InVariable(s[i])}
<1>2. PICK p \in I : \A i \in I : p <= i
  <2>1. c \in I /\ I \in SUBSET Nat
    BY <1>0, <1>1
  <2> HIDE DEF I
  <2> QED BY <2>1, Smallest
<1>3. p \in j + 1 .. c /\ ~InVariable(s[p]) /\ p \in j + 1 .. n
  BY <1>0, <1>2
<1>4. ASSUME NEW i \in j .. p - 1 PROVE s[i] \notin {DoubleQuote, "\\"}
  <2>1. CASE i = j
    BY <1>1, <2>1
  <2>2. CASE i # j
    <3>1. i \notin I /\ i \in j + 1 .. c
      BY <1>0, <1>2, <1>3, <2>2
    <3>2. InVariable(s[i])
      BY <3>1
    <3> QED BY <3>2, VarCharIs DEF VarChar
  <2> QED BY <2>1, <2>2
<1> HIDE DEF I
<1>5. PICK d \in Nat \ {0} : p = j + d
  <2>1. p - j \in Nat \ {0} /\ p = j + (p - j)
    BY <1>3
  <2> QED BY <2>1
<1> DEFINE S == {k \in Nat : j + k <= p => DoubleClose(s, j + k) = c}
<1>6. \A k \in Nat : k \in S
  <2>1. 0 \in S
    OBVIOUS
  <2>2. ASSUME NEW k \in Nat, k \in S PROVE k + 1 \in S
    <3> SUFFICES ASSUME j + (k + 1) <= p PROVE DoubleClose(s, j + (k + 1)) = c
      OBVIOUS
    <3>1. PICK i \in j .. p - 1 : i = j + k /\ i + 1 = j + (k + 1)
      <4>1. j + k \in j .. p - 1 /\ (j + k) + 1 = j + (k + 1)
        BY <1>3
      <4> QED BY <4>1
    <3>2. i \in 1 .. n + 1 /\ i <= n
      BY <1>3
    <3>3. DoubleClose(s, i) = DoubleClose(s, i + 1)
      BY <1>4, <3>2, DoubleCloseThere
    <3>4. DoubleClose(s, i) = c
      BY <2>2, <1>3, <3>1
    <3> QED BY <3>1, <3>3, <3>4
  <2> HIDE DEF S
  <2> QED BY <2>1, <2>2, Upward
<1>7. ASSUME NEW k \in 1 .. d PROVE j + k \in 1 .. c /\ DoubleClose(s, j + k) = c
  <2>1. k \in Nat /\ j + k <= p /\ j + k \in 1 .. c
    BY <1>0, <1>3, <1>5
  <2>2. k \in S
    BY <1>6, <2>1
  <2> QED BY <2>1, <2>2
<1>8. PICK r : r = Before(s, j, c, w)
  OBVIOUS
<1>9. Copied(s, j, c + 1 - j, r, w)
  BY <1>0, <1>8, CopiedPart
<1>10. PICK m \in Nat : m = c + 1 - j /\ d <= m - 1
  <2>1. c + 1 - j \in Nat /\ d <= (c + 1 - j) - 1
    BY <1>0, <1>3, <1>5
  <2> QED BY <2>1
<1>11. Len(r) = m + Len(w) /\ Len(w) \in Nat /\ \A k \in 0 .. m - 1 : r[1 + k] = s[j + k]
  BY <1>9, <1>10, LenProperties DEF Copied, IsTail
<1>12. Agree(r, 1, s, j, d)
  <2>1. ASSUME NEW k \in 0 .. d - 1
        PROVE  1 + k <= Len(r) /\ j + k <= Len(s) /\ r[1 + k] = s[j + k]
    <3>1. k \in 0 .. m - 1 /\ 1 + k <= m
      BY <1>10
    <3>2. j + k <= n
      BY <1>3, <1>5
    <3>3. 1 + k <= Len(r)
      BY <1>11, <3>1
    <3> QED BY <1>11, <3>1, <3>2, <3>3
  <2>2. ~InVariable(r[1 + d]) /\ ~InVariable(s[j + d])
    <3>1. d \in 0 .. m - 1
      BY <1>10
    <3>2. r[1 + d] = s[j + d]
      BY <1>11, <3>1
    <3> QED BY <1>3, <1>5, <3>2
  <2> QED BY <2>1, <2>2 DEF Agree
<1> QED BY <1>7, <1>8, <1>12

-------------------------------------------------------------------------------
(* Words and their tokens *)

\* The first part of a sequence of sequences stands before the others.
LEMMA FlattenFirst ==
  ASSUME NEW A, NEW n \in Nat, NEW parts \in [1 .. n + 1 -> Seq(A)],
         NEW rest \in [1 .. n -> Seq(A)], \A i \in 1 .. n : rest[i] = parts[i + 1]
  PROVE  FlattenSeq(parts) = parts[1] \o FlattenSeq(rest)
<1>0. Len(parts) = n + 1 /\ Len(rest) = n /\ parts[1] \in Seq(A) /\ n + 1 > 0 /\ n + 1 \in Nat
  OBVIOUS
<1>1. PICK f : FlattenSteps(parts, f) /\ \A i \in 1 .. n + 1 : f[i] \in Seq(A)
  BY <1>0, FlattenSolved
<1>2. /\ f[1] = parts[1] /\ FlattenSeq(parts) = f[n + 1]
      /\ \A i \in 1 .. n : f[i + 1] = f[i] \o parts[i + 1]
  <2>1. PICK l \in Nat : l = n + 1 /\ l - 1 = n
    OBVIOUS
  <2>2. Len(parts) = l
    BY <1>0, <2>1
  <2> QED BY <1>1, <2>1, <2>2 DEF FlattenSteps
<1>3. CASE n = 0
  <2>1. FlattenSeq(rest) = <<>>
    <3>1. rest = <<>>
      BY <1>3
    <3> QED BY <3>1 DEF FlattenSeq
  <2>2. FlattenSeq(parts) = parts[1]
    BY <1>2, <1>3
  <2> QED BY <1>0, <2>1, <2>2
<1>4. CASE n > 0
  <2>1. PICK g : FlattenSteps(rest, g) /\ \A i \in 1 .. n : g[i] \in Seq(A)
    BY <1>4, FlattenSolved
  <2>2. /\ g[1] = rest[1] /\ FlattenSeq(rest) = g[n]
        /\ \A i \in 1 .. n - 1 : g[i + 1] = g[i] \o rest[i + 1]
    BY <1>0, <2>1 DEF FlattenSteps
  <2>3. PICK x \in Seq(A) : x = parts[1]
    BY <1>0
  <2>4. f[1 + 1] = x \o g[1]
    <3>1. 1 \in 1 .. n
      BY <1>4
    <3> QED BY <1>2, <2>2, <2>3, <3>1
  <2>5. ASSUME NEW i \in 1 .. n - 1, f[i + 1] = x \o g[i] PROVE f[(i + 1) + 1] = x \o g[i + 1]
    <3>1. PICK j \in 1 .. n : j = i + 1
      OBVIOUS
    <3>2. PICK y \in Seq(A), z \in Seq(A) : y = g[i] /\ z = rest[j]
      BY <2>1, <3>1
    <3>3. f[j + 1] = f[j] \o z /\ g[j] = y \o z
      BY <1>2, <2>2, <3>1, <3>2
    <3>4. PICK a, b : a = f[j] /\ b = g[j]
      OBVIOUS
    <3>5. a = x \o y /\ b = y \o z
      BY <2>5, <3>1, <3>2, <3>3, <3>4
    <3>6. (x \o y) \o z = x \o (y \o z)
      <4>1. PICK D : D = A
        OBVIOUS
      <4>2. x \in Seq(D) /\ y \in Seq(D) /\ z \in Seq(D)
        BY <4>1
      <4> QED BY <4>2, ConcatAssociative, SMTT(30)
    <3>7. a \o z = x \o b
      BY <3>5, <3>6, Zenon
    <3> QED BY <3>1, <3>3, <3>4, <3>7
  <2> DEFINE Ok(i) == f[i + 1] = x \o g[i]
             S == {k \in Nat : \A i \in 1 .. n : i <= k => Ok(i)}
  <2>6. Ok(1) /\ \A i \in 1 .. n - 1 : Ok(i) => Ok(i + 1)
    BY <2>4, <2>5
  <2> HIDE DEF Ok
  <2>7. 0 \in S
    OBVIOUS
  <2>8. ASSUME NEW k \in Nat, k \in S PROVE k + 1 \in S
    <3> SUFFICES ASSUME NEW i \in 1 .. n, i <= k + 1 PROVE Ok(i)
      OBVIOUS
    <3>1. CASE i = 1
      BY <2>6, <3>1
    <3>2. CASE i # 1
      <4>1. PICK j \in 1 .. n - 1 : i = j + 1 /\ j <= k /\ j \in 1 .. n
        <5>1. i - 1 \in 1 .. n - 1 /\ i = (i - 1) + 1 /\ i - 1 <= k /\ i - 1 \in 1 .. n
          BY <3>2
        <5> QED BY <5>1
      <4>2. Ok(j)
        BY <2>8, <4>1
      <4> QED BY <2>6, <4>1, <4>2
    <3> QED BY <3>1, <3>2
  <2>9. \A k \in Nat : k \in S
    <3> HIDE DEF S
    <3> QED BY <2>7, <2>8, Upward
  <2>10. Ok(n)
    <3>1. n \in 1 .. n /\ n <= n
      BY <1>4
    <3> QED BY <2>9, <3>1
  <2> QED BY <1>2, <2>2, <2>3, <2>10 DEF Ok
<1> QED BY <1>3, <1>4

\* The tokens of a text over C.
TokensOf(C) ==
  [kind : {"word"}, raw : Seq(C)] \cup {Token("op", Operators[k]) : k \in 1 .. 11}
    \cup {Token("error", <<>>)}

OnlyWords(ts) == \A i \in 1 .. Len(ts) : ts[i].kind = "word"

\* What Words makes of some tokens.
Reading(ts) == FlattenSeq([i \in 1 .. Len(ts) |-> <<"word">> \o Expand(ts[i].raw)])

\* The tokens of a text that is refused are no words.
LEMMA FailedIs == \A C : Failed \in Seq(TokensOf(C)) /\ ~OnlyWords(Failed)
<1> TAKE C
<1>1. Token("error", <<>>) \in TokensOf(C) /\ Token("error", <<>>).kind = "error"
  BY DEF TokensOf, Token
<1>2. Failed = <<Token("error", <<>>)>>
  BY DEF Failed
<1> HIDE DEF Failed
<1>3. PICK e : e = Token("error", <<>>)
  OBVIOUS
<1>4. Len(<<e>>) = 1 /\ <<e>>[1] = e /\ 1 \in 1 .. 1 /\ e \in TokensOf(C) /\ e.kind # "word"
  BY <1>1, <1>3
<1>5. <<e>> \in Seq(TokensOf(C))
  BY <1>4
<1> QED BY <1>2, <1>3, <1>4, <1>5 DEF OnlyWords

\* A token before others: all are words only if it is one and the others are.
LEMMA FollowingTyped ==
  ASSUME NEW C, NEW token \in TokensOf(C), NEW rest \in Seq(TokensOf(C))
  PROVE  /\ Following(token, rest) \in Seq(TokensOf(C))
         /\ OnlyWords(Following(token, rest)) =>
              /\ token.kind = "word" /\ OnlyWords(rest)
              /\ Following(token, rest) = <<token>> \o rest
<1>1. Failed \in Seq(TokensOf(C)) /\ ~OnlyWords(Failed)
  BY FailedIs
<1>2. CASE rest = Failed
  BY <1>1, <1>2 DEF Following
<1>3. CASE rest # Failed
  <2>1. PICK u, v : u = <<token>> /\ v = u \o rest
    OBVIOUS
  <2>2. Following(token, rest) = v
    BY <1>3, <2>1, Zenon DEF Following
  <2>3. u \in Seq(TokensOf(C)) /\ Len(u) = 1 /\ u[1] = token
    BY <2>1
  <2>4. PICK l \in Nat : l = Len(rest)
    BY LenProperties
  <2>5. /\ v \in Seq(TokensOf(C)) /\ Len(v) = 1 + l
        /\ \A i \in 1 .. 1 : v[i] = u[i] /\ \A d \in 1 .. l : v[1 + d] = rest[d]
    BY <2>1, <2>3, <2>4, Concat
  <2>6. ASSUME OnlyWords(v) PROVE token.kind = "word" /\ OnlyWords(rest)
    <3>1. \A i \in 1 .. 1 + l : v[i].kind = "word"
      BY <2>5, <2>6 DEF OnlyWords
    <3>2. v[1] = token /\ 1 \in 1 .. 1 + l /\ \A d \in 1 .. l : 1 + d \in 1 .. 1 + l
      BY <2>3, <2>5
    <3> QED BY <2>4, <2>5, <3>1, <3>2 DEF OnlyWords
  <2> QED BY <2>1, <2>2, <2>5, <2>6
<1> QED BY <1>2, <1>3

\* T holds the tokens from each position of s on.
Tokenizes(T, s) == \A j \in 1 .. Len(s) + 1 : T[j] = TokensFrom(s, T, j)

\* From each position on there are tokens of the text.
LEMMA TokensTyped ==
  ASSUME NEW C, NEW n \in Nat, NEW s \in Seq(C), Len(s) = n, NEW T, Tokenizes(T, s)
  PROVE  \A j \in 1 .. n + 1 : T[j] \in Seq(TokensOf(C))
<1> DEFINE S == {j \in 1 .. n + 1 : T[j] \in Seq(TokensOf(C))}
<1>0. <<>> \in Seq(TokensOf(C)) /\ Failed \in Seq(TokensOf(C))
  <2>1. Token("error", <<>>) \in TokensOf(C)
    BY DEF TokensOf
  <2> QED BY <2>1 DEF Failed
<1>1. ASSUME NEW j \in 1 .. n + 1, \A k \in 1 .. n + 1 : k > j => k \in S PROVE j \in S
  <2>0. T[j] = TokensFrom(s, T, j) /\ TokenRules(s, T, j)
    BY TokenSteps DEF Tokenizes
  <2>1. CASE j > n
    BY <1>0, <2>0, <2>1 DEF TokenRules
  <2>2. CASE j <= n /\ s[j] \in Blanks
    <3>1. T[j] = T[j + 1]
      BY <2>0, <2>2, Zenon DEF TokenRules
    <3>2. j + 1 \in 1 .. n + 1 /\ j + 1 > j
      BY <2>2
    <3> QED BY <1>1, <3>1, <3>2
  <2>3. CASE j <= n /\ s[j] = "#"
    BY <1>0, <2>0, <2>3 DEF TokenRules
  <2>4. CASE j <= n /\ OperatorAt(s, j) # 0
    <3>1. PICK k \in 1 .. 11 : k = OperatorAt(s, j) /\ StartsAt(s, j, Operators[k])
      <4>1. j \in Nat \ {0} /\ Len(s) \in Nat /\ j <= Len(s)
        BY <2>4
      <4>2. OperatorAt(s, j) \in 1 .. 11 /\ StartsAt(s, j, Operators[OperatorAt(s, j)])
        BY <2>4, <4>1, OperatorThere
      <4> QED BY <4>2
    <3>2. PICK m \in 1 .. 4 : m = Len(Operators[k])
      BY OperatorsAre
    <3>3. j + m \in 1 .. n + 1 /\ j + m > j
      <4>1. j + m - 1 <= n
        BY <3>1, <3>2 DEF StartsAt
      <4> QED BY <4>1
    <3>4. T[j] = Following(Token("op", Operators[k]), T[j + m])
      BY <2>0, <2>4, <3>1, <3>2, Zenon DEF TokenRules
    <3>5. Token("op", Operators[k]) \in TokensOf(C)
      BY DEF TokensOf
    <3>6. T[j + m] \in Seq(TokensOf(C))
      BY <1>1, <3>3
    <3> QED BY <3>4, <3>5, <3>6, FollowingTyped
  <2>5. CASE OpensVariable(s, j) /\ VarEnd(s, j) = 0
    BY <1>0, <2>0, <2>5 DEF TokenRules
  <2>6. CASE ~EndsWord(s, j) /\ ~ (OpensVariable(s, j) /\ VarEnd(s, j) = 0)
    <3>1. PICK w : w = LexWord(s, j)
      OBVIOUS
    <3>2. T[j] = IF w = Bad THEN Failed ELSE Following(Token("word", w.raw), T[w.at])
      BY <2>0, <2>6, <3>1, Zenon DEF TokenRules
    <3>3. CASE w = Bad
      BY <1>0, <3>2, <3>3
    <3>4. CASE w # Bad
      <4>1. w.at \in j + 1 .. n + 1
        BY <2>6, <3>1, <3>4, LexWordThere
      <4>2. w.raw \in Seq(C)
        <5>1. PICK W : \A k \in 1 .. n + 1 : W[k] = WordFrom(s, W, k) /\ LexWord(s, k) = W[k]
          BY WordSolved
        <5>2. Lexes(W, s)
          BY <5>1 DEF Lexes
        <5>3. W[j].raw \in Seq(C)
          BY <5>2, WordTyped
        <5> QED BY <3>1, <5>1, <5>3
      <4>3. T[w.at] \in Seq(TokensOf(C))
        BY <1>1, <4>1
      <4>4. Token("word", w.raw) \in TokensOf(C)
        BY <4>2 DEF TokensOf, Token
      <4>5. T[j] = Following(Token("word", w.raw), T[w.at])
        BY <3>2, <3>4
      <4> QED BY <4>3, <4>4, <4>5, FollowingTyped
    <3> QED BY <3>3, <3>4
  <2>7. EndsWord(s, j) <=> j > n \/ (j <= n /\ (s[j] \in Blanks \cup {"#"} \/ OperatorAt(s, j) # 0))
    BY Zenon DEF EndsWord
  <2> QED BY <2>1, <2>2, <2>3, <2>4, <2>5, <2>6, <2>7
<1>2. \A j \in 1 .. n + 1 : j \in S
  <2>1. n + 1 \in Nat
    OBVIOUS
  <2> HIDE DEF S
  <2> QED BY <1>1, <2>1, Downward
<1> QED BY <1>2

\* What is read of some words, and of one word more.
LEMMA ReadingIs ==
  ASSUME NEW C, NEW ts \in Seq(TokensOf(C)), OnlyWords(ts)
  PROVE  /\ Reading(ts) \in Seq(Read(C)) /\ (ts = <<>> => Reading(ts) = <<>>)
         /\ \A token \in TokensOf(C) :
              token.kind = "word" =>
                Reading(<<token>> \o ts) = (<<"word">> \o Expand(token.raw)) \o Reading(ts)
<1>0. PICK n \in Nat : n = Len(ts)
  BY LenProperties
<1>w. ASSUME NEW token \in TokensOf(C), token.kind = "word"
      PROVE  <<"word">> \o Expand(token.raw) \in Seq(Read(C))
  <2>1. token.raw \in Seq(C)
    BY <1>w DEF TokensOf, Token
  <2>2. Expand(token.raw) \in Seq(Read(C))
    BY <2>1, ExpandOnIs
  <2>3. <<"word">> \in Seq(Read(C))
    <3>1. "word" \in Read(C)
      BY DEF Read
    <3> QED BY <3>1
  <2> QED BY <2>2, <2>3
<1> DEFINE Part(token) == <<"word">> \o Expand(token.raw)
           rest == [i \in 1 .. n |-> Part(ts[i])]
<1> HIDE DEF Part
<1>1. \A i \in 1 .. n : Part(ts[i]) \in Seq(Read(C))
  BY <1>0, <1>w DEF OnlyWords, Part
<1>2. rest \in [1 .. n -> Seq(Read(C))] /\ Reading(ts) = FlattenSeq(rest)
  BY <1>0, <1>1 DEF Reading, Part
<1>3. Reading(ts) \in Seq(Read(C))
  <2> HIDE DEF rest
  <2> QED BY <1>2, Flattened
<1>4. ts = <<>> => Reading(ts) = <<>>
  <2> SUFFICES ASSUME ts = <<>> PROVE FlattenSeq(rest) = <<>>
    BY <1>2
  <2>1. rest = <<>>
    BY <1>0
  <2> HIDE DEF rest
  <2> QED BY <2>1 DEF FlattenSeq
<1>5. ASSUME NEW token \in TokensOf(C), token.kind = "word"
      PROVE  Reading(<<token>> \o ts) = Part(token) \o Reading(ts)
  <2>1. PICK v : v = <<token>> \o ts
    OBVIOUS
  <2>2. <<token>> \in Seq(TokensOf(C)) /\ Len(<<token>>) = 1 /\ <<token>>[1] = token
    OBVIOUS
  <2>3. /\ Len(v) = n + 1 /\ v[1] = token /\ \A d \in 1 .. n : v[1 + d] = ts[d]
    BY <1>0, <2>1, <2>2, Concat
  <2> DEFINE parts == [i \in 1 .. n + 1 |-> Part(v[i])]
  <2>4. Part(token) \in Seq(Read(C))
    BY <1>5, <1>w DEF Part
  <2>5. \A i \in 1 .. n + 1 : Part(v[i]) \in Seq(Read(C))
    <3> TAKE i \in 1 .. n + 1
    <3>1. CASE i = 1
      BY <2>3, <2>4, <3>1
    <3>2. CASE i # 1
      <4>1. i - 1 \in 1 .. n /\ 1 + (i - 1) = i
        BY <3>2
      <4>2. v[i] = ts[i - 1]
        BY <2>3, <4>1
      <4> QED BY <1>1, <4>1, <4>2
    <3> QED BY <3>1, <3>2
  <2>6. /\ parts \in [1 .. n + 1 -> Seq(Read(C))] /\ parts[1] = Part(token)
        /\ \A i \in 1 .. n : rest[i] = parts[i + 1]
    <3>1. \A i \in 1 .. n : i + 1 \in 1 .. n + 1 /\ i + 1 = 1 + i
      OBVIOUS
    <3> QED BY <2>3, <2>5, <3>1
  <2>7. Reading(v) = FlattenSeq(parts)
    BY <2>3 DEF Reading, Part
  <2> HIDE DEF parts, rest
  <2>8. FlattenSeq(parts) = parts[1] \o FlattenSeq(rest)
    BY <1>2, <2>6, FlattenFirst
  <2> QED BY <1>2, <2>1, <2>6, <2>7, <2>8
<1> QED BY <1>3, <1>4, <1>5 DEF Part

\* The l characters of x from i on are those of y from j on.
Same(x, i, y, j, l) ==
  /\ i + l <= Len(x) + 1 /\ j + l <= Len(y) + 1
  /\ \A k \in 0 .. l - 1 : x[i + k] = y[j + k]

\* u is the part of l characters of x from i, and reads as that part.
IsPartOf(u, x, i, l) == i + l <= Len(x) + 1 /\ u = SubSeq(x, i, (i + l) - 1)

ReadsAsPart(u, x, i, l) == Len(u) = l /\ \A k \in 1 .. l : u[k] = x[i + (k - 1)]

\* A part of a text is a text, and has the characters of the text at its place.
LEMMA PartReads ==
  ASSUME NEW C, NEW x \in Seq(C), NEW i \in Nat \ {0}, NEW l \in Nat, NEW u, IsPartOf(u, x, i, l)
  PROVE  u \in Seq(C) /\ ReadsAsPart(u, x, i, l)
<1>0. i + l <= Len(x) + 1 /\ u = SubSeq(x, i, (i + l) - 1)
  BY DEF IsPartOf
<1>1. PICK e \in Int : e = (i + l) - 1
  OBVIOUS
<1>2. PICK h \in Nat : h = Len(x)
  BY LenProperties
<1>3. \A k \in i .. e : x[k] \in C
  <2>1. \A k \in i .. e : k \in 1 .. h
    BY <1>0, <1>1, <1>2
  <2> QED BY <1>2, <2>1
<1>4. /\ u \in Seq(C) /\ Len(u) = (IF i <= e THEN e - i + 1 ELSE 0)
      /\ \A k \in 1 .. e - i + 1 : u[k] = x[i + k - 1]
  BY <1>0, <1>1, <1>3, SubSeqProperties
<1>5. e - i + 1 = l /\ (i <= e \/ l = 0)
  BY <1>1
<1>6. \A k \in 1 .. l : i + k - 1 = i + (k - 1)
  OBVIOUS
<1> QED BY <1>4, <1>5, <1>6 DEF ReadsAsPart

\* Parts of two texts with the same characters are equal.
LEMMA PartsEqual ==
  ASSUME NEW C, NEW r \in Seq(C), NEW s \in Seq(C), NEW a \in Nat \ {0}, NEW b \in Nat \ {0},
         NEW l \in Nat, Same(r, a, s, b, l)
  PROVE  SubSeq(r, a, (a + l) - 1) = SubSeq(s, b, (b + l) - 1)
<1>1. /\ a + l <= Len(r) + 1 /\ b + l <= Len(s) + 1
      /\ \A k \in 0 .. l - 1 : r[a + k] = s[b + k]
  BY DEF Same
<1>2. PICK u, v : u = SubSeq(r, a, (a + l) - 1) /\ v = SubSeq(s, b, (b + l) - 1)
  OBVIOUS
<1>3. u \in Seq(C) /\ Len(u) = l /\ \A k \in 1 .. l : u[k] = r[a + (k - 1)]
  <2>1. IsPartOf(u, r, a, l)
    BY <1>1, <1>2, Zenon DEF IsPartOf
  <2> QED BY <2>1, PartReads DEF ReadsAsPart
<1>4. v \in Seq(C) /\ Len(v) = l /\ \A k \in 1 .. l : v[k] = s[b + (k - 1)]
  <2>1. IsPartOf(v, s, b, l)
    BY <1>1, <1>2, Zenon DEF IsPartOf
  <2> QED BY <2>1, PartReads DEF ReadsAsPart
<1>5. ASSUME NEW k \in 1 .. l PROVE u[k] = v[k]
  <2>1. k - 1 \in 0 .. l - 1
    OBVIOUS
  <2> QED BY <1>1, <1>3, <1>4, <2>1
<1>6. u = v
  BY <1>3, <1>4, <1>5, SeqEqual
<1> QED BY <1>2, <1>6

\* The single quotes that close in s at c close in r at m, around the same text.
SameQuotes(r, m, s, j, c) ==
  SingleEnd(r, 2) = m /\ SubSeq(r, 2, m - 1) = SubSeq(s, j + 1, c - 1)

\* Between the quotes of a text of m characters stand m - 2.
LEMMA InsideQuotes ==
  ASSUME NEW j \in Nat, NEW c \in Nat, NEW m \in Nat, NEW l \in Nat, NEW a \in Nat,
         j + m = c + 1, l = m - 2, a = j + 1
  PROVE  /\ a + l = c
         /\ (2 + l) - 1 = m - 1
         /\ \A k \in 0 .. l - 1 : 1 + k \in 0 .. m - 1 /\ 1 + (1 + k) = 2 + k /\ j + (1 + k) = a + k
OBVIOUS

\* A text in single quotes is copied with its quotes.
LEMMA CopiedQuotes ==
  ASSUME NEW C, NEW n \in Nat, NEW s \in Seq(C), Len(s) = n, NEW j \in 1 .. n,
         NEW c \in j + 1 .. n, c = NextIs(s, j + 1, "'"), NEW r \in Seq(C), NEW t \in Seq(C),
         NEW m \in Nat, j + m = c + 1, Copied(s, j, m, r, t)
  PROVE  SameQuotes(r, m, s, j, c)
<1>a. m >= 2 /\ j \in Nat /\ c \in Nat /\ j + m = c + 1
  OBVIOUS
<1>0. /\ Len(r) \in Nat /\ m <= Len(r)
      /\ \A k \in 0 .. m - 1 : r[1 + k] = s[j + k]
  <2>1. PICK l \in Nat : Len(t) = l
    BY LenProperties
  <2>2. Len(r) = m + l /\ \A k \in 0 .. m - 1 : r[1 + k] = s[j + k]
    BY <2>1 DEF Copied, IsTail
  <2> QED BY <2>1, <2>2
<1>1. \A k \in 1 .. m : r[k] = s[j + k - 1]
  <2> TAKE k \in 1 .. m
  <2>1. k - 1 \in 0 .. m - 1 /\ 1 + (k - 1) = k /\ j + (k - 1) = j + k - 1
    OBVIOUS
  <2> QED BY <1>0, <2>1
<1>2. s[c] = "'" /\ \A q \in j + 1 .. c - 1 : s[q] # "'"
  <2>1. c # 0 /\ j + 1 \in Nat \ {0} /\ Len(s) \in Nat
    OBVIOUS
  <2> QED BY <2>1, NextIsThere, NextIsFirst
<1>3. NextIs(r, 2, "'") = m
  <2>1. r[m] = "'"
    <3>1. m \in 1 .. m /\ j + m - 1 = c
      BY <1>a, SMTT(30)
    <3> QED BY <1>1, <1>2, <3>1
  <2>2. \A q \in 2 .. m - 1 : r[q] # "'"
    <3> TAKE q \in 2 .. m - 1
    <3>1. q \in 1 .. m /\ j + q - 1 \in j + 1 .. c - 1
      OBVIOUS
    <3> QED BY <1>1, <1>2, <3>1
  <2>3. m \in 2 .. Len(r) /\ 2 \in Nat \ {0} /\ Len(r) \in Nat
    BY <1>0, <1>a
  <2> QED BY <2>1, <2>2, <2>3, NextIsThere
<1>4. SingleEnd(r, 2) = m
  <2>1. m # 0
    BY <1>a
  <2> QED BY <1>3, <2>1 DEF SingleEnd, SingleClose
<1>5. SubSeq(r, 2, m - 1) = SubSeq(s, j + 1, c - 1)
  <2>1. PICK l \in Nat, a \in Nat \ {0} : l = m - 2 /\ a = j + 1
    <3>1. m - 2 \in Nat /\ j + 1 \in Nat \ {0}
      BY <1>a
    <3> QED BY <3>1
  <2>0. /\ a + l = c /\ (2 + l) - 1 = m - 1
        /\ \A k \in 0 .. l - 1 : 1 + k \in 0 .. m - 1 /\ 1 + (1 + k) = 2 + k /\ j + (1 + k) = a + k
    <3>1. l = m - 2 /\ a = j + 1 /\ a \in Nat
      BY <2>1
    <3>2. j \in Nat /\ c \in Nat /\ j + m = c + 1
      BY <1>a
    <3> QED BY <3>1, <3>2, InsideQuotes, SMTT(30)
  <2>2. 2 + l <= Len(r) + 1 /\ a + l <= n + 1 /\ (2 + l) - 1 = m - 1 /\ (a + l) - 1 = c - 1
    BY <1>0, <2>0, <2>1
  <2>3. ASSUME NEW k \in 0 .. l - 1 PROVE r[2 + k] = s[a + k]
    <3>1. PICK i \in 0 .. m - 1 : i = 1 + k
      BY <2>0
    <3>2. 1 + i = 2 + k /\ j + i = a + k
      BY <2>0, <3>1
    <3> QED BY <1>0, <3>1, <3>2
  <2>4. SubSeq(r, 2, (2 + l) - 1) = SubSeq(s, a, (a + l) - 1)
    <3>1. PICK p \in Nat \ {0} : p = 2
      OBVIOUS
    <3>2. p + l <= Len(r) + 1 /\ a + l <= Len(s) + 1
      BY <2>2, <3>1
    <3>3. \A k \in 0 .. l - 1 : r[p + k] = s[a + k]
      BY <2>3, <3>1
    <3>4. SubSeq(r, p, (p + l) - 1) = SubSeq(s, a, (a + l) - 1)
      <4>1. Same(r, p, s, a, l)
        BY <3>2, <3>3 DEF Same
      <4> QED BY <4>1, PartsEqual, SMTT(30)
    <3> QED BY <3>1, <3>4
  <2> QED BY <2>1, <2>2, <2>4
<1> QED BY <1>4, <1>5 DEF SameQuotes

\* An operator is no word.
LEMMA NoOperators ==
  ASSUME NEW C, NEW n \in Nat, NEW s \in Seq(C), Len(s) = n, NEW T, Tokenizes(T, s),
         NEW p \in 1 .. n, OnlyWords(T[p])
  PROVE  OperatorAt(s, p) = 0
<1> SUFFICES ASSUME OperatorAt(s, p) # 0 PROVE FALSE
  OBVIOUS
<1>0. p \in Nat \ {0} /\ p <= Len(s) /\ Len(s) \in Nat /\ p \in 1 .. n + 1
  OBVIOUS
<1>1. PICK k \in 1 .. 11 : k = OperatorAt(s, p) /\ StartsAt(s, p, Operators[k])
  <2>1. OperatorAt(s, p) \in 1 .. 11 /\ StartsAt(s, p, Operators[OperatorAt(s, p)])
    BY <1>0, OperatorThere
  <2> QED BY <2>1
<1>2. PICK m \in 1 .. 4 : m = Len(Operators[k])
  BY OperatorsAre
<1>3. p + m \in 1 .. n + 1
  <2>1. p + m - 1 <= n
    BY <1>1, <1>2 DEF StartsAt
  <2> QED BY <2>1
<1>4. T[p] = Following(Token("op", Operators[k]), T[p + m])
  <2>1. T[p] = TokensFrom(s, T, p) /\ TokenRules(s, T, p)
    BY <1>0, TokenSteps DEF Tokenizes
  <2> QED BY <1>0, <1>1, <1>2, <2>1, Zenon DEF TokenRules
<1>5. Token("op", Operators[k]) \in TokensOf(C) /\ Token("op", Operators[k]).kind # "word"
  BY DEF TokensOf, Token
<1>6. T[p + m] \in Seq(TokensOf(C))
  BY <1>3, TokensTyped
<1> QED BY <1>4, <1>5, <1>6, FollowingTyped

\* What a shell reads from a position on is what becomes of the rest r of a word, in double
\* quotes if q, and then of the tokens after it.
ReadsAlike(x, r, q, ts) ==
  Unmarked(x) /\ OnlyWords(ts) => x = ExpandOn(r, q) \o Reading(ts)

\* A text u stands before what is read and before what becomes of the word.
GoesBefore(u, x, y, r, t, q) == x = u \o y /\ ExpandOn(r, q) = u \o ExpandOn(t, q)

\* If the rest is read alike, so is the text with u before it.
LEMMA AlikeOn ==
  ASSUME NEW C, NEW ts \in Seq(TokensOf(C)), NEW u \in Seq(Read(C)), NEW x, NEW y \in Seq(Read(C)),
         NEW r, NEW t \in Seq(C), NEW q \in BOOLEAN, GoesBefore(u, x, y, r, t, q),
         ReadsAlike(y, t, q, ts)
  PROVE  ReadsAlike(x, r, q, ts)
<1>0. x = u \o y /\ ExpandOn(r, q) = u \o ExpandOn(t, q)
  BY DEF GoesBefore
<1> SUFFICES ASSUME Unmarked(x), OnlyWords(ts) PROVE x = ExpandOn(r, q) \o Reading(ts)
  BY DEF ReadsAlike
<1>1. PICK a, b, c : a = ExpandOn(r, q) /\ b = ExpandOn(t, q) /\ c = Reading(ts)
  OBVIOUS
<1>2. b \in Seq(Read(C)) /\ c \in Seq(Read(C)) /\ a = u \o b
  BY <1>0, <1>1, ExpandOnIs, ReadingIs
<1>3. Unmarked(y)
  BY <1>0, UnmarkedParts
<1>4. y = b \o c
  BY <1>1, <1>3, Zenon DEF ReadsAlike
<1>5. a \o c = u \o y
  <2>1. PICK A : A = Read(C)
    OBVIOUS
  <2>2. u \in Seq(A) /\ b \in Seq(A) /\ c \in Seq(A)
    BY <1>2, <2>1
  <2>3. (u \o b) \o c = u \o (b \o c)
    BY <2>2, ConcatAssociative
  <2> QED BY <1>2, <1>4, <2>3, Zenon
<1> QED BY <1>0, <1>1, <1>5

\* The rules for what is read at a position in a word.
ReadAt(s, R, i, mode) ==
  InWordRules(s, R, i, mode) /\ R[i][mode] = InWord(s, R, i, mode)

\* What is read at a position in a word follows the rules, and is a text.
LEMMA ShellAt ==
  ASSUME NEW C, NEW n \in Nat, NEW s \in Seq(C), Len(s) = n, NEW R, Shell(R, s),
         NEW i \in 1 .. n + 2, NEW mode \in {"word", "quoted"}
  PROVE  ReadAt(s, R, i, mode) /\ R[i][mode] \in Seq(Read(C))
<1>1. mode \in Modes
  BY DEF Modes
<1>2. ShellRules(s, R, i) /\ InWordRules(s, R, i, mode)
  BY ShellSteps, InWordSteps
<1>3. R[i][mode] = ShellFrom(s, R, i, mode) /\ R[i][mode] \in Seq(Read(C))
  BY <1>1, ShellTyped DEF Shell
<1>4. R[i][mode] = InWord(s, R, i, mode)
  BY <1>2, <1>3 DEF ShellRules
<1> QED BY <1>2, <1>3, <1>4 DEF ReadAt

ModeOf(q) == IF q THEN "quoted" ELSE "word"

\* A character that stands for itself.
AsItIs(c, q) ==
  c \notin {"$", DoubleQuote, "\\"} /\ (~q => c # "'" /\ c # "#" /\ c \notin Blanks)

\* A character that stands for itself is read alike.
LEMMA AlikeOther ==
  ASSUME NEW C, NEW n \in Nat, NEW s \in Seq(C), Len(s) = n, NEW R, Shell(R, s),
         NEW ts \in Seq(TokensOf(C)), NEW j \in 1 .. n, NEW q \in BOOLEAN,
         AsItIs(s[j], q), NEW r \in Seq(C), NEW t \in Seq(C), Copied(s, j, 1, r, t),
         ReadsAlike(R[j + 1][ModeOf(q)], t, q, ts)
  PROVE  ReadsAlike(R[j][ModeOf(q)], r, q, ts)
<1>a. /\ s[j] \notin {"$", DoubleQuote, "\\"}
      /\ ~q => s[j] # "'" /\ s[j] # "#" /\ s[j] \notin Blanks
  BY DEF AsItIs
<1>m. PICK mode \in {"word", "quoted"} : mode = ModeOf(q) /\ (mode = "word" => ~q)
  BY DEF ModeOf
<1>l. PICK l \in Nat : l = Len(t)
  BY LenProperties
<1>1. Len(r) = 1 + l /\ r[1] = s[j] /\ IsTail(t, r, 1) /\ r # <<>>
  <2>1. IsTail(t, r, 1) /\ \A k \in 0 .. 1 - 1 : r[1 + k] = s[j + k]
    BY DEF Copied
  <2>2. 0 \in 0 .. 1 - 1 /\ 1 + 0 = 1 /\ j + 0 = j
    OBVIOUS
  <2>3. Len(r) = 1 + l
    BY <1>l, <2>1 DEF IsTail
  <2> QED BY <2>1, <2>2, <2>3
<1>2. VarEnd(s, j) = 0 /\ VarEnd(r, 1) = 0
  <2>1. PICK m \in Nat, i \in Nat \ {0} : m = Len(r) /\ i = 1 /\ i <= m
    BY <1>1
  <2>2. s[j] # "$" /\ r[i] # "$"
    BY <1>1, <1>a, <2>1
  <2>3. VarEnd(s, j) = 0
    BY <2>2, VarThere
  <2>4. VarEnd(r, i) = 0
    BY <2>1, <2>2, VarThere
  <2> QED BY <2>1, <2>3, <2>4
<1>3. R[j][mode] = <<s[j]>> \o R[j + 1][mode]
  <2>1. j \in 1 .. n + 2 /\ j <= n
    OBVIOUS
  <2>2. ReadAt(s, R, j, mode)
    BY <2>1, ShellAt
  <2> QED BY <1>a, <1>m, <1>2, <2>1, <2>2, Zenon DEF InWordRules, ReadAt
<1>4. R[j + 1][mode] \in Seq(Read(C)) /\ <<s[j]>> \in Seq(Read(C))
  <2>1. j + 1 \in 1 .. n + 2 /\ s[j] \in Read(C)
    BY DEF Read
  <2> QED BY <2>1, ShellAt
<1>5. ExpandOn(r, q) = <<s[j]>> \o ExpandOn(t, q)
  <2>1. ExpandOnRules(r, t, 1, q)
    BY <1>1, ExpandOnIs
  <2> QED BY <1>1, <1>2, <1>a, <2>1, Zenon DEF ExpandOnRules
<1>6. PICK x, y, u : x = R[j][mode] /\ y = R[j + 1][mode] /\ u = <<s[j]>>
  OBVIOUS
<1>7. /\ GoesBefore(u, x, y, r, t, q) /\ y \in Seq(Read(C)) /\ u \in Seq(Read(C))
      /\ ReadsAlike(y, t, q, ts)
  BY <1>m, <1>3, <1>4, <1>5, <1>6 DEF GoesBefore
<1>8. ReadsAlike(x, r, q, ts)
  BY <1>7, AlikeOn
<1> QED BY <1>m, <1>6, <1>8

\* t holds what follows the first characters of r, up to d, and all of it is read alike.
RestsAlike(C, s, R, j, r, d, t, q, ts) ==
  \A k \in 1 .. d : /\ t[k] \in Seq(C) /\ Copied(s, j, k, r, t[k])
                    /\ ReadsAlike(R[j + k][ModeOf(q)], t[k], q, ts)

\* A variable, or a $ that begins none.
LEMMA AlikeVariable ==
  ASSUME NEW C, NEW n \in Nat, NEW s \in Seq(C), Len(s) = n, NEW R, Shell(R, s),
         NEW ts \in Seq(TokensOf(C)), NEW j \in 1 .. n, NEW q \in BOOLEAN, s[j] = "$",
         NEW r \in Seq(C), NEW d, Agree(r, 1, s, j, d), NEW t,
         RestsAlike(C, s, R, j, r, d, t, q, ts)
  PROVE  ReadsAlike(R[j][ModeOf(q)], r, q, ts)
<1>a. \A k \in 1 .. d : /\ t[k] \in Seq(C) /\ Copied(s, j, k, r, t[k])
                        /\ ReadsAlike(R[j + k][ModeOf(q)], t[k], q, ts)
  BY DEF RestsAlike
<1>m. PICK mode \in {"word", "quoted"} : mode = ModeOf(q)
  BY DEF ModeOf
<1>0. d \in Nat \ {0} /\ Len(r) \in Nat /\ 1 <= Len(r) /\ r[1] = "$" /\ r # <<>>
  <2>1. d \in Nat \ {0} /\ \A k \in 0 .. d - 1 : 1 + k <= Len(r) /\ r[1 + k] = s[j + k]
    BY DEF Agree
  <2>2. 0 \in 0 .. d - 1 /\ 1 + 0 = 1 /\ j + 0 = j
    BY <2>1
  <2>3. Len(r) \in Nat
    BY LenProperties
  <2>4. 1 <= Len(r) /\ r[1] = s[j]
    BY <2>1, <2>2
  <2>5. r # <<>>
    BY <2>3, <2>4
  <2> QED BY <2>1, <2>3, <2>4, <2>5
<1>r. InWordRules(s, R, j, mode) /\ R[j][mode] = InWord(s, R, j, mode) /\ j <= n
  <2>1. j \in 1 .. n + 2 /\ j <= n
    OBVIOUS
  <2>2. ReadAt(s, R, j, mode)
    BY <2>1, ShellAt
  <2> QED BY <2>1, <2>2 DEF ReadAt
<1>1. SameVariable(r, 1, s, j, d)
  <2>1. 1 \in 1 .. Len(r) /\ j \in 1 .. Len(s)
    BY <1>0
  <2> QED BY <2>1, VariableAgrees
<1>2. ASSUME NEW k \in 1 .. d, j + k <= n + 1, NEW u \in Seq(Read(C)),
             R[j][mode] = u \o R[j + k][mode], ExpandOn(r, q) = u \o ExpandOn(t[k], q)
      PROVE  ReadsAlike(R[j][mode], r, q, ts)
  <2>1. PICK v : v = t[k]
    OBVIOUS
  <2>2. v \in Seq(C) /\ ReadsAlike(R[j + k][mode], v, q, ts)
    BY <1>a, <1>m, <2>1
  <2>3. R[j + k][mode] \in Seq(Read(C))
    <3>1. j + k \in 1 .. n + 2
      BY <1>2, <1>0
    <3> QED BY <3>1, ShellAt
  <2>4. PICK x, y : x = R[j][mode] /\ y = R[j + k][mode]
    OBVIOUS
  <2>5. GoesBefore(u, x, y, r, v, q) /\ y \in Seq(Read(C)) /\ ReadsAlike(y, v, q, ts)
    BY <1>2, <2>1, <2>2, <2>3, <2>4 DEF GoesBefore
  <2>6. ReadsAlike(x, r, q, ts)
    BY <2>2, <2>5, AlikeOn
  <2> QED BY <2>4, <2>6
<1>3. ASSUME NEW k \in 1 .. d PROVE ExpandOnRules(r, t[k], k, q)
  <2>1. PICK v : v = t[k]
    OBVIOUS
  <2>2. v \in Seq(C) /\ IsTail(v, r, k) /\ k \in Nat
    BY <1>0, <1>a, <2>1 DEF Copied
  <2> QED BY <2>1, <2>2, ExpandOnIs
<1>4. CASE VarEnd(s, j) = 0 /\ VarEnd(r, 1) = 0
  <2>1. 1 \in 1 .. d /\ j + 1 <= n + 1
    BY <1>0
  <2>2. s[j] # DoubleQuote /\ s[j] # "\\" /\ s[j] # "#" /\ s[j] # "'" /\ s[j] \notin Blanks
    BY VarCharIs DEF VarChar
  <2>3. R[j][mode] = <<s[j]>> \o R[j + 1][mode]
    BY <1>4, <1>r, <2>2, Zenon DEF InWordRules
  <2>4. ExpandOn(r, q) = <<s[j]>> \o ExpandOn(t[1], q)
    <3>1. ExpandOnRules(r, t[1], 1, q)
      BY <1>3, <2>1
    <3> QED BY <1>0, <1>4, <2>2, <3>1, Zenon DEF ExpandOnRules
  <2>5. <<s[j]>> \in Seq(Read(C))
    <3>1. s[j] \in Read(C)
      BY DEF Read
    <3> QED BY <3>1
  <2>6. ReadsAlike(R[j][mode], r, q, ts)
    BY <1>2, <2>1, <2>3, <2>4, <2>5
  <2> QED BY <1>m, <2>6
<1>5. ASSUME NEW z \in 2 .. d, VarEnd(s, j) = j + z, j + z <= Len(s) + 1, VarEnd(r, 1) = 1 + z,
             ValueOf(r, 1, 1 + z) = ValueOf(s, j, j + z)
      PROVE  ReadsAlike(R[j][mode], r, q, ts)
  <2>1. z \in 1 .. d /\ j + z <= n + 1 /\ j + z # 0 /\ 1 + z # 0
    BY <1>5
  <2>2. PICK u : u = ValueOf(s, j, j + z)
    OBVIOUS
  <2>3. R[j][mode] = u \o R[j + z][mode]
    BY <1>5, <1>r, <2>1, <2>2, Zenon DEF InWordRules
  <2>4. ExpandOn(r, q) = u \o ExpandOn(t[z], q)
    <3>1. ExpandOnRules(r, t[z], z, q)
      BY <1>3, <2>1
    <3> QED BY <1>0, <1>5, <2>1, <2>2, <3>1, Zenon DEF ExpandOnRules
  <2>5. u \in Seq(Read(C))
    BY <2>2, ValueTyped
  <2> QED BY <1>2, <2>1, <2>3, <2>4, <2>5
<1> QED BY <1>m, <1>1, <1>4, <1>5 DEF SameVariable

\* A text in single quotes.
LEMMA AlikeSingle ==
  ASSUME NEW C, NEW n \in Nat, NEW s \in Seq(C), Len(s) = n, NEW R, Shell(R, s),
         NEW ts \in Seq(TokensOf(C)), NEW j \in 1 .. n, s[j] = "'",
         NEW c \in j + 1 .. n, c = NextIs(s, j + 1, "'"), NEW t \in Seq(C),
         ReadsAlike(R[c + 1]["word"], t, FALSE, ts)
  PROVE  ReadsAlike(R[j]["word"], Before(s, j, c, t), FALSE, ts)
<1>m. PICK mode \in {"word", "quoted"} : mode = "word"
  OBVIOUS
<1>1. PICK r : r = Before(s, j, c, t)
  OBVIOUS
<1>2. PICK m \in Nat : m = c + 1 - j /\ j + m = c + 1 /\ m >= 2
  <2>1. c + 1 - j \in Nat /\ j + (c + 1 - j) = c + 1 /\ c + 1 - j >= 2
    OBVIOUS
  <2> QED BY <2>1
<1>3. r \in Seq(C) /\ Copied(s, j, m, r, t)
  <2>1. c \in j .. n
    OBVIOUS
  <2> QED BY <1>1, <1>2, <2>1, CopiedPart
<1>4. IsTail(t, r, m) /\ r[1] = "'" /\ r # <<>>
  <2>1. PICK l \in Nat : l = Len(t)
    BY LenProperties
  <2>2. IsTail(t, r, m) /\ \A k \in 0 .. m - 1 : r[1 + k] = s[j + k]
    BY <1>3 DEF Copied
  <2>3. 0 \in 0 .. m - 1 /\ 1 + 0 = 1 /\ j + 0 = j
    BY <1>2
  <2>4. Len(r) = m + l
    BY <2>1, <2>2 DEF IsTail
  <2>5. r # <<>>
    BY <1>2, <2>4, SMTT(30)
  <2> QED BY <2>2, <2>3, <2>5
<1>5. PICK u : u = SubSeq(s, j + 1, c - 1)
  OBVIOUS
<1>6. SingleEnd(r, 2) = m /\ SubSeq(r, 2, m - 1) = u
  <2>1. SameQuotes(r, m, s, j, c)
    BY <1>2, <1>3, CopiedQuotes
  <2> QED BY <1>5, <2>1 DEF SameQuotes
<1>7. ExpandOn(r, FALSE) = u \o ExpandOn(t, FALSE)
  <2>1. ExpandOnRules(r, t, m, FALSE)
    BY <1>3, <1>4, ExpandOnIs
  <2> QED BY <1>4, <1>6, <2>1, Zenon DEF ExpandOnRules
<1>8. R[j][mode] = u \o R[c + 1][mode]
  <2>1. j \in 1 .. n + 2 /\ j <= n /\ c # 0
    OBVIOUS
  <2>2. ReadAt(s, R, j, mode)
    BY <2>1, ShellAt
  <2> QED BY <1>m, <1>5, <2>1, <2>2, Zenon DEF ReadAt, InWordRules
<1>9. u \in Seq(Read(C)) /\ R[c + 1][mode] \in Seq(Read(C))
  <2>1. j + 1 \in Nat \ {0} /\ c - 1 \in Int /\ c - 1 <= Len(s) /\ c + 1 \in 1 .. n + 2
    OBVIOUS
  <2>2. R[c + 1][mode] \in Seq(Read(C))
    BY <2>1, ShellAt
  <2>3. SubSeq(s, j + 1, c - 1) \in Seq(Read(C))
    BY <2>1, PartTyped
  <2> QED BY <1>5, <2>2, <2>3
<1>10. PICK x, y : x = R[j][mode] /\ y = R[c + 1][mode]
  OBVIOUS
<1>11. GoesBefore(u, x, y, r, t, FALSE) /\ y \in Seq(Read(C)) /\ ReadsAlike(y, t, FALSE, ts)
  BY <1>m, <1>7, <1>8, <1>9, <1>10 DEF GoesBefore
<1>12. ReadsAlike(x, r, FALSE, ts)
  BY <1>9, <1>11, AlikeOn
<1> QED BY <1>m, <1>1, <1>10, <1>12

\* A text that begins with a character of s.
LEMMA CopiedOne ==
  ASSUME NEW C, NEW s, NEW j \in Nat, NEW m \in Nat \ {0}, NEW r \in Seq(C), NEW t \in Seq(C),
         Copied(s, j, m, r, t)
  PROVE  IsTail(t, r, m) /\ r[1] = s[j] /\ r # <<>> /\ Len(r) \in Nat \ {0}
<1>1. PICK l \in Nat : l = Len(t)
  BY LenProperties
<1>2. IsTail(t, r, m) /\ \A k \in 0 .. m - 1 : r[1 + k] = s[j + k]
  BY DEF Copied
<1>3. 0 \in 0 .. m - 1 /\ 1 + 0 = 1 /\ j + 0 = j
  OBVIOUS
<1>4. Len(r) = m + l
  BY <1>1, <1>2 DEF IsTail
<1>5. r # <<>> /\ Len(r) \in Nat \ {0}
  BY <1>4
<1> QED BY <1>2, <1>3, <1>5

\* A double quote.
LEMMA AlikeDouble ==
  ASSUME NEW C, NEW n \in Nat, NEW s \in Seq(C), Len(s) = n, NEW R, Shell(R, s),
         NEW ts \in Seq(TokensOf(C)), NEW j \in 1 .. n, s[j] = DoubleQuote, NEW q \in BOOLEAN,
         NEW r \in Seq(C), NEW t \in Seq(C), Copied(s, j, 1, r, t),
         ReadsAlike(R[j + 1][ModeOf(~q)], t, ~q, ts)
  PROVE  ReadsAlike(R[j][ModeOf(q)], r, q, ts)
<1>m. PICK mode \in {"word", "quoted"} : mode = ModeOf(q)
  BY DEF ModeOf
<1>0. IsTail(t, r, 1) /\ r[1] = DoubleQuote /\ r # <<>>
  <2>1. j \in Nat /\ 1 \in Nat \ {0}
    OBVIOUS
  <2> QED BY <2>1, CopiedOne
<1>1. R[j][mode] = R[j + 1][ModeOf(~q)]
  <2>1. j \in 1 .. n + 2 /\ j <= n
    OBVIOUS
  <2>2. ReadAt(s, R, j, mode)
    BY <2>1, ShellAt
  <2>3. CASE q
    BY <1>m, <2>1, <2>2, <2>3, Zenon DEF ReadAt, InWordRules, ModeOf
  <2>4. CASE ~q
    BY <1>m, <2>1, <2>2, <2>4, Zenon DEF ReadAt, InWordRules, ModeOf
  <2> QED BY <2>3, <2>4
<1>2. ExpandOn(r, q) = ExpandOn(t, ~q)
  <2>1. ExpandOnRules(r, t, 1, q)
    BY <1>0, ExpandOnIs
  <2> QED BY <1>0, <2>1, Zenon DEF ExpandOnRules
<1> QED BY <1>m, <1>1, <1>2, Zenon DEF ReadsAlike

\* A backslash, outside of double quotes ...
LEMMA AlikeEscape ==
  ASSUME NEW C, NEW n \in Nat, NEW s \in Seq(C), Len(s) = n, NEW R, Shell(R, s),
         NEW ts \in Seq(TokensOf(C)), NEW j \in 1 .. n, s[j] = "\\",
         NEW r \in Seq(C), NEW t \in Seq(C), Escapes(s, j) => r = <<s[j + 1]>> \o t,
         Escapes(s, j) => ReadsAlike(R[j + 2]["word"], t, FALSE, ts)
  PROVE  ReadsAlike(R[j]["word"], r, FALSE, ts)
<1>m. PICK mode \in {"word", "quoted"} : mode = "word"
  OBVIOUS
<1>r. ReadAt(s, R, j, mode) /\ j <= n
  <2>1. j \in 1 .. n + 2 /\ j <= n
    OBVIOUS
  <2> QED BY <2>1, ShellAt
<1>1. CASE OtherBare(s, j)
  <2>1. R[j][mode] = <<"?">>
    BY <1>m, <1>1, <1>r, Zenon DEF ReadAt, InWordRules
  <2> QED BY <1>m, <2>1, MarkIs DEF ReadsAlike
<1>2. CASE ~OtherBare(s, j)
  <2>0. j # n /\ s[j + 1] \notin {DoubleQuote, "\\", "$", "'"}
    BY <1>2 DEF OtherBare
  <2>1. j + 1 \in 1 .. n /\ j + 2 \in 1 .. n + 2 /\ j < n
    BY <2>0
  <2>2. PICK d \in C : d = s[j + 1]
    BY <2>1
  <2>3. R[j][mode] = <<d>> \o R[j + 2][mode]
    BY <1>m, <1>2, <1>r, <2>2, Zenon DEF ReadAt, InWordRules
  <2>4. r = <<d>> \o t /\ ReadsAlike(R[j + 2][mode], t, FALSE, ts)
    BY <1>m, <2>1, <2>2 DEF Escapes
  <2>5. IsTail(t, r, 1) /\ r[1] = d /\ r # <<>> /\ Len(r) \in Nat /\ 1 <= Len(r)
    <3>1. PICK u \in Seq(C) : u = <<d>> /\ Len(u) = 1 /\ u[1] = d
      <4>1. <<d>> \in Seq(C) /\ Len(<<d>>) = 1 /\ <<d>>[1] = d
        OBVIOUS
      <4> QED BY <4>1
    <3>2. PICK l \in Nat : l = Len(t)
      BY LenProperties
    <3>3. /\ Len(r) = 1 + l /\ r[1] = d /\ \A k \in 1 .. l : r[1 + k] = t[k]
      BY <2>4, <3>1, <3>2, Concat
    <3>4. r # <<>>
      BY <3>3
    <3> QED BY <3>2, <3>3, <3>4 DEF IsTail
  <2>6. VarEnd(r, 1) = 0
    <3>1. PICK i \in Nat \ {0} : i = 1
      OBVIOUS
    <3>2. i <= Len(r) /\ r[i] # "$"
      BY <2>0, <2>2, <2>5, <3>1
    <3>3. VarEnd(r, i) = 0
      BY <2>5, <3>2, VarThere
    <3> QED BY <3>1, <3>3
  <2>7. ExpandOn(r, FALSE) = <<d>> \o ExpandOn(t, FALSE)
    <3>1. ExpandOnRules(r, t, 1, FALSE)
      BY <2>5, ExpandOnIs
    <3> QED BY <2>0, <2>2, <2>5, <2>6, <3>1, Zenon DEF ExpandOnRules
  <2>8. PICK x, y, u : x = R[j][mode] /\ y = R[j + 2][mode] /\ u = <<d>>
    OBVIOUS
  <2>9. /\ GoesBefore(u, x, y, r, t, FALSE) /\ y \in Seq(Read(C)) /\ u \in Seq(Read(C))
        /\ ReadsAlike(y, t, FALSE, ts)
    <3>1. R[j + 2][mode] \in Seq(Read(C))
      BY <2>1, ShellAt
    <3>2. d \in Read(C)
      BY DEF Read
    <3>3. <<d>> \in Seq(Read(C))
      BY <3>2
    <3>4. GoesBefore(u, x, y, r, t, FALSE)
      BY <2>3, <2>7, <2>8, Zenon DEF GoesBefore
    <3> QED BY <2>4, <2>8, <3>1, <3>3, <3>4
  <2>10. ReadsAlike(x, r, FALSE, ts)
    BY <2>9, AlikeOn
  <2> QED BY <1>m, <2>8, <2>10
<1> QED BY <1>1, <1>2

\* ... and in them.
LEMMA AlikeQuoted ==
  ASSUME NEW C, NEW n \in Nat, NEW s \in Seq(C), Len(s) = n, NEW R, Shell(R, s),
         NEW ts \in Seq(TokensOf(C)), NEW j \in 1 .. n, s[j] = "\\",
         NEW r \in Seq(C), NEW t \in Seq(C), Escapes(s, j) => Copied(s, j, 2, r, t),
         Escapes(s, j) => ReadsAlike(R[j + 2]["quoted"], t, TRUE, ts)
  PROVE  ReadsAlike(R[j]["quoted"], r, TRUE, ts)
<1>m. PICK mode \in {"word", "quoted"} : mode = "quoted"
  OBVIOUS
<1>r. ReadAt(s, R, j, mode) /\ j <= n
  <2>1. j \in 1 .. n + 2 /\ j <= n
    OBVIOUS
  <2> QED BY <2>1, ShellAt
<1>1. CASE OtherQuoted(s, j)
  <2>1. R[j][mode] = <<"?">>
    BY <1>m, <1>1, <1>r, Zenon DEF ReadAt, InWordRules
  <2> QED BY <1>m, <2>1, MarkIs DEF ReadsAlike
<1>2. CASE ~OtherQuoted(s, j)
  <2>0. j < n
    BY <1>2 DEF OtherQuoted
  <2>1. j + 1 \in 1 .. n /\ j + 2 \in 1 .. n + 2
    BY <2>0
  <2>2. PICK d \in C : d = s[j + 1]
    BY <2>1
  <2>3. R[j][mode] = <<d>> \o R[j + 2][mode]
    BY <1>m, <1>2, <1>r, <2>2, Zenon DEF ReadAt, InWordRules
  <2>4. Copied(s, j, 2, r, t) /\ ReadsAlike(R[j + 2][mode], t, TRUE, ts)
    BY <1>m, <2>0 DEF Escapes
  <2>5. IsTail(t, r, 2) /\ r[1] = "\\" /\ r[2] = d
    <3>1. j \in Nat /\ 2 \in Nat \ {0} /\ 1 \in 0 .. 2 - 1 /\ 1 + 1 = 2
      OBVIOUS
    <3>2. IsTail(t, r, 2) /\ r[1] = "\\"
      BY <2>4, <3>1, CopiedOne
    <3>3. r[1 + 1] = s[j + 1]
      BY <2>4, <3>1 DEF Copied
    <3> QED BY <2>2, <3>1, <3>2, <3>3
  <2>7. ExpandOn(r, TRUE) = <<d>> \o ExpandOn(t, TRUE)
    <3>1. ExpandOnRules(r, t, 2, TRUE)
      BY <2>5, ExpandOnIs
    <3> QED BY <2>5, <3>1, Zenon DEF ExpandOnRules
  <2>8. PICK x, y, u : x = R[j][mode] /\ y = R[j + 2][mode] /\ u = <<d>>
    OBVIOUS
  <2>9. /\ GoesBefore(u, x, y, r, t, TRUE) /\ y \in Seq(Read(C)) /\ u \in Seq(Read(C))
        /\ ReadsAlike(y, t, TRUE, ts)
    <3>1. R[j + 2][mode] \in Seq(Read(C))
      BY <2>1, ShellAt
    <3>2. d \in Read(C)
      BY DEF Read
    <3>3. <<d>> \in Seq(Read(C))
      BY <3>2
    <3>4. GoesBefore(u, x, y, r, t, TRUE)
      BY <2>3, <2>7, <2>8, Zenon DEF GoesBefore
    <3> QED BY <2>4, <2>8, <3>1, <3>3, <3>4
  <2>10. ReadsAlike(x, r, TRUE, ts)
    BY <2>9, AlikeOn
  <2> QED BY <1>m, <2>8, <2>10
<1> QED BY <1>1, <1>2

\* What a shell reads from j on is what rattan reads: in a word, in double quotes that close
\* at c and in the rest of that word, and between words.
WordAlike(W, T, R, j) ==
  W[j] # Bad => ReadsAlike(R[j]["word"], W[j].raw, FALSE, T[W[j].at])
QuotedAlike(s, W, T, R, j) ==
  \A c \in 1 .. Len(s) :
    c = DoubleClose(s, j) /\ W[c + 1] # Bad =>
      ReadsAlike(R[j]["quoted"], Before(s, j, c, W[c + 1].raw), TRUE, T[W[c + 1].at])
OutAlike(T, R, j) ==
  Unmarked(R[j]["out"]) /\ OnlyWords(T[j]) => R[j]["out"] = Reading(T[j])

\* All of these, from all later positions on.
LaterAlike(s, W, T, R, j) ==
  \A k \in j + 1 .. Len(s) + 1 :
    WordAlike(W, T, R, k) /\ QuotedAlike(s, W, T, R, k) /\ OutAlike(T, R, k)

ModesAre == ModeOf(FALSE) = "word" /\ ModeOf(TRUE) = "quoted"

\* The names of the modes.
LEMMA ModesThere == ModesAre
BY DEF ModesAre, ModeOf

\* The end of a word.
LEMMA WordEndAlike ==
  ASSUME NEW C, NEW n \in Nat, NEW s \in Seq(C), Len(s) = n, NEW W, Lexes(W, s),
         NEW T, Tokenizes(T, s), NEW R, Shell(R, s), NEW j \in 1 .. n + 1,
         LaterAlike(s, W, T, R, j), EndsWord(s, j)
  PROVE  WordAlike(W, T, R, j)
<1>1. W[j].raw = <<>> /\ W[j].at = j
  <2>1. W[j] = WordFrom(s, W, j) /\ WordRules(s, W, j)
    BY WordSteps DEF Lexes
  <2>2. W[j] = [raw |-> <<>>, at |-> j]
    BY <2>1, Zenon DEF WordRules
  <2> QED BY <2>2
<1>2. PICK x, ts : x = R[j]["word"] /\ ts = T[j]
  OBVIOUS
<1>3. ts \in Seq(TokensOf(C)) /\ ts = TokensFrom(s, T, j) /\ TokenRules(s, T, j)
  BY <1>2, TokensTyped, TokenSteps DEF Tokenizes
<1>4. ReadAt(s, R, j, "word") /\ x \in Seq(Read(C))
  <2>1. PICK mode \in {"word", "quoted"} : mode = "word"
    OBVIOUS
  <2>2. j \in 1 .. n + 2
    OBVIOUS
  <2>3. ReadAt(s, R, j, mode) /\ R[j][mode] \in Seq(Read(C))
    BY <2>2, ShellAt
  <2> QED BY <1>2, <2>1, <2>3
<1>5. ASSUME Unmarked(x), OnlyWords(ts) PROVE x = Reading(ts)
  <2>0. j > n \/ (j <= n /\ j \in 1 .. n)
    OBVIOUS
  <2>1. CASE j > n
    <3>1. x = <<>>
      BY <1>2, <1>4, <2>1, Zenon DEF ReadAt, InWordRules
    <3>2. ts = <<>>
      BY <1>3, <2>1, Zenon DEF TokenRules
    <3> QED BY <1>3, <1>5, <3>1, <3>2, ReadingIs
  <2>2. CASE j <= n /\ s[j] \in Blanks
    <3>1. x = R[j + 1]["out"]
      BY <1>2, <1>4, <2>2, Zenon DEF ReadAt, InWordRules
    <3>2. ts = T[j + 1]
      BY <1>3, <2>2, Zenon DEF TokenRules
    <3>3. j + 1 \in j + 1 .. n + 1
      BY <2>2
    <3>4. OutAlike(T, R, j + 1)
      BY <3>3 DEF LaterAlike
    <3> QED BY <1>5, <3>1, <3>2, <3>4, Zenon DEF OutAlike
  <2>3. CASE j <= n /\ s[j] = "#"
    <3>1. x = <<"?">>
      BY <1>2, <1>4, <2>3, Zenon DEF ReadAt, InWordRules
    <3> QED BY <1>5, <3>1, MarkIs
  <2>4. CASE j <= n /\ OperatorAt(s, j) # 0
    <3>1. j \in 1 .. n
      BY <2>4
    <3>2. OperatorAt(s, j) = 0
      BY <1>2, <1>5, <3>1, NoOperators
    <3> QED BY <2>4, <3>2
  <2> QED BY <2>1, <2>2, <2>3, <2>4 DEF EndsWord
<1>6. ASSUME Unmarked(x), OnlyWords(ts) PROVE x = ExpandOn(<<>>, FALSE) \o Reading(ts)
  <2>1. PICK r \in Seq(C) : r = <<>>
    <3>1. <<>> \in Seq(C)
      OBVIOUS
    <3> QED BY <3>1
  <2>2. ExpandOn(r, FALSE) = <<>>
    <3>1. \A t \in Seq(C), m \in Nat, q \in BOOLEAN :
            IsTail(t, r, m) => ExpandOnRules(r, t, m, q)
      BY ExpandOnIs
    <3>2. IsTail(r, r, 0)
      <4>1. Len(r) = 0
        BY <2>1
      <4> QED BY <4>1 DEF IsTail
    <3>3. ExpandOnRules(r, r, 0, FALSE)
      BY <3>1, <3>2
    <3> QED BY <2>1, <3>3, Zenon DEF ExpandOnRules
  <2>3. PICK y \in Seq(Read(C)) : y = Reading(ts)
    BY <1>3, <1>6, ReadingIs
  <2>4. <<>> \o y = y
    OBVIOUS
  <2>5. x = y
    BY <1>5, <1>6, <2>3
  <2> QED BY <2>1, <2>2, <2>3, <2>4, <2>5, Zenon
<1>7. ReadsAlike(x, <<>>, FALSE, ts)
  BY <1>6 DEF ReadsAlike
<1> QED BY <1>1, <1>2, <1>7, Zenon DEF WordAlike

\* A word that goes on.
LEMMA WordOnAlike ==
  ASSUME NEW C, NEW n \in Nat, NEW s \in Seq(C), Len(s) = n, NEW W, Lexes(W, s),
         NEW T, Tokenizes(T, s), NEW R, Shell(R, s), NEW j \in 1 .. n + 1,
         LaterAlike(s, W, T, R, j), ~EndsWord(s, j)
  PROVE  WordAlike(W, T, R, j)
<1> SUFFICES ASSUME W[j] # Bad, Unmarked(R[j]["word"]), OnlyWords(T[W[j].at])
             PROVE  ReadsAlike(R[j]["word"], W[j].raw, FALSE, T[W[j].at])
  BY DEF WordAlike, ReadsAlike
<1>t. \A i \in 1 .. n + 1 : W[i].raw \in Seq(C) /\ (W[i] # Bad => W[i].at \in i .. n + 1)
  BY WordTyped
<1>1. PICK r, ts : r = W[j].raw /\ ts = T[W[j].at]
  OBVIOUS
<1>2. r \in Seq(C) /\ ts \in Seq(TokensOf(C))
  <2>1. W[j].at \in 1 .. n + 1
    BY <1>t
  <2> QED BY <1>1, <1>t, <2>1, TokensTyped
<1>3. j \in 1 .. n
  BY WordStepIs
<1>4. PICK k \in j + 1 .. n + 1 : WordStep(s, W, j, k)
  BY WordStepIs
<1>5. ASSUME NEW i \in j + 1 .. n + 1, W[i] # Bad, W[i].at = W[j].at
      PROVE  W[i].raw \in Seq(C) /\ ReadsAlike(R[i]["word"], W[i].raw, FALSE, ts)
  <2>1. WordAlike(W, T, R, i) /\ i \in 1 .. n + 1
    BY <1>5 DEF LaterAlike
  <2> QED BY <1>1, <1>5, <1>t, <2>1, Zenon DEF WordAlike
<1>6. PICK t \in Seq(C) : t = W[k].raw /\ ReadsAlike(R[k]["word"], t, FALSE, ts)
  <2>1. W[k] # Bad /\ W[k].at = W[j].at
    BY <1>4 DEF WordStep
  <2> QED BY <1>5, <2>1
<1>m. ModeOf(FALSE) = "word" /\ ModeOf(TRUE) = "quoted"
  BY ModesThere DEF ModesAre
<1>7. ASSUME ~Escapes(s, j) PROVE r = Before(s, j, k - 1, t) /\ Copied(s, j, k - j, r, t)
  <2>1. r = Before(s, j, k - 1, t)
    BY <1>1, <1>4, <1>6, <1>7 DEF WordStep
  <2>2. k - 1 \in j .. n /\ (k - 1) + 1 - j = k - j
    BY <1>3
  <2>3. Copied(s, j, (k - 1) + 1 - j, Before(s, j, k - 1, t), t)
    BY <1>3, <2>2, CopiedPart
  <2> QED BY <2>1, <2>2, <2>3
<1>8. CASE s[j] = "'"
  <2>1. PICK c \in j + 1 .. n : c = NextIs(s, j + 1, "'") /\ k = c + 1 /\ k - 1 = c
    <3>1. SingleClose(s, j + 1) # 0 /\ k = SingleClose(s, j + 1) + 1
      BY <1>4, <1>8 DEF WordStep
    <3>2. SingleClose(s, j + 1) \in j + 1 .. n
      BY <1>3, <3>1, ClosesThere
    <3>3. PICK c \in j + 1 .. n : c = SingleClose(s, j + 1)
      BY <3>2
    <3>4. k = c + 1 /\ k - 1 = c
      BY <3>1, <3>3
    <3> QED BY <3>3, <3>4 DEF SingleClose
  <2>2. ~Escapes(s, j)
    BY <1>8 DEF Escapes
  <2>3. r = Before(s, j, c, t) /\ ReadsAlike(R[c + 1]["word"], t, FALSE, ts)
    BY <1>6, <1>7, <2>1, <2>2
  <2>4. ReadsAlike(R[j]["word"], Before(s, j, c, t), FALSE, ts)
    BY <1>2, <1>3, <1>8, <2>1, <2>3, AlikeSingle
  <2> QED BY <1>1, <2>3, <2>4
<1>9. CASE s[j] = DoubleQuote
  <2>1. PICK c \in j + 1 .. n : c = DoubleClose(s, j + 1) /\ k = c + 1 /\ k - 1 = c
    <3>1. DoubleClose(s, j + 1) # 0 /\ k = DoubleClose(s, j + 1) + 1
      BY <1>4, <1>9 DEF WordStep
    <3>2. DoubleClose(s, j + 1) \in j + 1 .. n
      BY <1>3, <3>1, ClosesThere
    <3> QED BY <3>1, <3>2
  <2>2. ~Escapes(s, j)
    BY <1>9 DEF Escapes, DoubleQuote
  <2>3. PICK v : v = Before(s, j + 1, c, t)
    OBVIOUS
  <2>4. v \in Seq(C) /\ Copied(s, j, 1, r, v)
    <3>1. j + 1 <= c + 1 /\ 1 \in Nat /\ c \in 0 .. n
      BY <1>3
    <3>2. /\ Before(s, j + 1, c, t) \in Seq(C)
          /\ Copied(s, j, 1, Before(s, j, c, t), Before(s, j + 1, c, t))
      BY <1>3, <3>1, CopiedFrom
    <3> QED BY <1>7, <2>1, <2>2, <2>3, <3>2
  <2>5. ReadsAlike(R[j + 1]["quoted"], v, TRUE, ts)
    <3>1. QuotedAlike(s, W, T, R, j + 1)
      <4>1. j + 1 \in j + 1 .. n + 1
        BY <1>3
      <4> QED BY <4>1 DEF LaterAlike
    <3>2. c \in 1 .. n /\ W[c + 1] # Bad /\ W[c + 1].raw = t /\ T[W[c + 1].at] = ts
      BY <1>1, <1>3, <1>4, <1>6, <2>1 DEF WordStep
    <3> QED BY <2>1, <2>3, <3>1, <3>2 DEF QuotedAlike
  <2>6. ReadsAlike(R[j][ModeOf(FALSE)], r, FALSE, ts)
    <3>1. ReadsAlike(R[j + 1][ModeOf(~FALSE)], v, ~FALSE, ts)
      <4>1. PICK q \in BOOLEAN : q = ~FALSE /\ q = TRUE
        OBVIOUS
      <4>2. ReadsAlike(R[j + 1][ModeOf(q)], v, q, ts)
        BY <1>m, <2>5, <4>1
      <4> QED BY <4>1, <4>2
    <3> QED BY <1>2, <1>3, <1>9, <2>4, <3>1, AlikeDouble
  <2> QED BY <1>1, <1>m, <2>6
<1>10. CASE s[j] = "\\"
  <2>1. ASSUME Escapes(s, j)
        PROVE  r = <<s[j + 1]>> \o t /\ ReadsAlike(R[j + 2]["word"], t, FALSE, ts)
    <3>1. k = j + 2 /\ W[j].raw = <<s[j + 1]>> \o W[k].raw
      BY <1>4, <2>1 DEF WordStep
    <3> QED BY <1>1, <1>6, <3>1
  <2>2. ReadsAlike(R[j]["word"], r, FALSE, ts)
    BY <1>2, <1>3, <1>10, <2>1, AlikeEscape
  <2> QED BY <1>1, <2>2
<1>11. CASE s[j] = "$"
  <2>1. NoOperator(s, W, j)
    <3>1. ASSUME NEW p \in 1 .. n, OperatorAt(s, p) # 0, W[j].at = p PROVE FALSE
      <4>1. OnlyWords(T[p])
        BY <3>1
      <4> QED BY <3>1, <4>1, NoOperators
    <3> QED BY <3>1 DEF NoOperator
  <2>2. NoEscape(s, j)
    BY <1>3, <1>11, NoEscapes
  <2>3. PICK d : Agree(W[j].raw, 1, s, j, d) /\ \A i \in 1 .. d : WordAt(s, W, j, i)
    BY <1>3, <1>11, <2>1, <2>2, WordFollows
  <2>4. Agree(r, 1, s, j, d) /\ d \in Nat \ {0}
    BY <1>1, <2>3 DEF Agree
  <2> DEFINE v == [i \in 1 .. d |-> W[j + i].raw]
  <2>5. \A i \in 1 .. d : v[i] = W[j + i].raw
    OBVIOUS
  <2> HIDE DEF v
  <2>6. ASSUME NEW i \in 1 .. d
        PROVE  /\ v[i] \in Seq(C) /\ Copied(s, j, i, r, v[i])
               /\ ReadsAlike(R[j + i]["word"], v[i], FALSE, ts)
    <3>1. WordAt(s, W, j, i)
      BY <2>3
    <3>2. W[j + i] # Bad /\ W[j + i].at = W[j].at /\ Copied(s, j, i, r, v[i])
      BY <1>1, <2>5, <3>1 DEF WordAt
    <3>3. j + i <= n + 1
      BY <3>2 DEF Copied
    <3>4. PICK p \in j + 1 .. n + 1 : p = j + i
      BY <1>3, <2>4, <3>3
    <3>5. W[p] # Bad /\ W[p].at = W[j].at
      BY <3>2, <3>4
    <3>6. W[p].raw \in Seq(C) /\ ReadsAlike(R[p]["word"], W[p].raw, FALSE, ts)
      BY <1>5, <3>5
    <3>7. v[i] = W[p].raw
      BY <2>5, <3>4
    <3> QED BY <3>2, <3>4, <3>6, <3>7
  <2>7. ReadsAlike(R[j][ModeOf(FALSE)], r, FALSE, ts)
    <3>1. PICK q \in BOOLEAN : q = FALSE
      OBVIOUS
    <3>2. \A i \in 1 .. d : /\ v[i] \in Seq(C) /\ Copied(s, j, i, r, v[i])
                            /\ ReadsAlike(R[j + i][ModeOf(q)], v[i], q, ts)
      BY <1>m, <2>6, <3>1
    <3>3. RestsAlike(C, s, R, j, r, d, v, q, ts)
      BY <3>2 DEF RestsAlike
    <3>4. ReadsAlike(R[j][ModeOf(q)], r, q, ts)
      BY <1>2, <1>3, <1>11, <2>4, <3>3, AlikeVariable
    <3> QED BY <3>1, <3>4
  <2> QED BY <1>1, <1>m, <2>7
<1>12. CASE s[j] \notin {"'", DoubleQuote, "\\", "$"}
  <2>1. ~Escapes(s, j)
    BY <1>12 DEF Escapes
  <2>2. k = j + 1 /\ k - j = 1
    <3>1. k = j + 1
      BY <1>4, <1>12, <2>1 DEF WordStep
    <3> QED BY <1>3, <3>1
  <2>3. Copied(s, j, 1, r, t)
    BY <1>7, <2>1, <2>2
  <2>4. s[j] # "#" /\ s[j] \notin Blanks
    BY <1>3 DEF EndsWord
  <2>5. ReadsAlike(R[j][ModeOf(FALSE)], r, FALSE, ts)
    <3>1. PICK q \in BOOLEAN : q = FALSE
      OBVIOUS
    <3>2. ReadsAlike(R[j + 1][ModeOf(q)], t, q, ts)
      BY <1>6, <1>m, <2>2, <3>1
    <3>3. AsItIs(s[j], q)
      BY <1>12, <2>4 DEF AsItIs
    <3>4. ReadsAlike(R[j][ModeOf(q)], r, q, ts)
      BY <1>2, <1>3, <2>3, <3>2, <3>3, AlikeOther
    <3> QED BY <3>1, <3>4
  <2> QED BY <1>1, <1>m, <2>5
<1> QED BY <1>8, <1>9, <1>10, <1>11, <1>12

\* In double quotes.
LEMMA QuotedOnAlike ==
  ASSUME NEW C, NEW n \in Nat, NEW s \in Seq(C), Len(s) = n, NEW W, Lexes(W, s),
         NEW T, Tokenizes(T, s), NEW R, Shell(R, s), NEW j \in 1 .. n + 1,
         LaterAlike(s, W, T, R, j)
  PROVE  QuotedAlike(s, W, T, R, j)
<1> SUFFICES ASSUME NEW c \in 1 .. n, c = DoubleClose(s, j), W[c + 1] # Bad
             PROVE  ReadsAlike(R[j]["quoted"], Before(s, j, c, W[c + 1].raw), TRUE, T[W[c + 1].at])
  BY DEF QuotedAlike
<1>1. PICK w, ts, r : w = W[c + 1].raw /\ ts = T[W[c + 1].at] /\ r = Before(s, j, c, w)
  OBVIOUS
<1>2. w \in Seq(C) /\ ts \in Seq(TokensOf(C))
  <2>1. PICK i \in 1 .. n + 1 : i = c + 1
    OBVIOUS
  <2>2. W[i].raw \in Seq(C) /\ W[i].at \in i .. n + 1
    BY <2>1, WordTyped
  <2>3. W[i].at \in 1 .. n + 1
    BY <2>2
  <2> QED BY <1>1, <2>1, <2>2, <2>3, TokensTyped
<1>3. c \in j .. n /\ s[c] = DoubleQuote /\ j \in 1 .. n /\ c \in 0 .. n
  <2>1. c # 0 /\ (c # 0 => c \in j .. n /\ s[c] = DoubleQuote)
    BY DoubleCloseMore
  <2> QED BY <2>1
<1>m. ModeOf(FALSE) = "word" /\ ModeOf(TRUE) = "quoted"
  BY ModesThere DEF ModesAre
<1>r. r \in Seq(C)
  BY <1>1, <1>2, <1>3, CopiedPart
<1>4. ASSUME NEW k \in Nat, k >= 1, j + k <= c, DoubleClose(s, j + k) = c,
             NEW v, v = Before(s, j + k, c, w)
      PROVE  v \in Seq(C) /\ Copied(s, j, k, r, v) /\ ReadsAlike(R[j + k]["quoted"], v, TRUE, ts)
  <2>1. j + k <= c + 1 /\ j + k \in j + 1 .. n + 1
    BY <1>3, <1>4
  <2>2. /\ Before(s, j + k, c, w) \in Seq(C)
        /\ Copied(s, j, k, Before(s, j, c, w), Before(s, j + k, c, w))
    BY <1>2, <1>3, <2>1, CopiedFrom
  <2>3. QuotedAlike(s, W, T, R, j + k)
    BY <2>1 DEF LaterAlike
  <2>4. ReadsAlike(R[j + k]["quoted"], v, TRUE, ts)
    BY <1>1, <1>4, <2>3 DEF QuotedAlike
  <2> QED BY <1>1, <1>4, <2>2, <2>4
<1>5. CASE s[j] = DoubleQuote
  <2>1. c = j
    BY <1>3, <1>5, DoubleCloseThere
  <2>2. Copied(s, j, 1, r, w)
    <3>1. j \in j .. n /\ j + 1 - j = 1
      BY <1>3
    <3>2. Copied(s, j, j + 1 - j, Before(s, j, j, w), w)
      BY <1>2, <1>3, <3>1, CopiedPart
    <3> QED BY <1>1, <2>1, <3>1, <3>2
  <2>3. ReadsAlike(R[j + 1]["word"], w, FALSE, ts)
    <3>1. WordAlike(W, T, R, j + 1)
      <4>1. j + 1 \in j + 1 .. n + 1
        BY <1>3
      <4> QED BY <4>1 DEF LaterAlike
    <3> QED BY <1>1, <2>1, <3>1 DEF WordAlike
  <2>4. ReadsAlike(R[j][ModeOf(TRUE)], r, TRUE, ts)
    <3>1. ReadsAlike(R[j + 1][ModeOf(~TRUE)], w, ~TRUE, ts)
      <4>1. PICK q \in BOOLEAN : q = ~TRUE /\ q = FALSE
        OBVIOUS
      <4>2. ReadsAlike(R[j + 1][ModeOf(q)], w, q, ts)
        BY <1>m, <2>3, <4>1
      <4> QED BY <4>1, <4>2
    <3> QED BY <1>2, <1>3, <1>5, <1>r, <2>2, <3>1, AlikeDouble
  <2> QED BY <1>1, <1>m, <2>4
<1>6. CASE s[j] = "\\"
  <2>1. PICK v : v = IF Escapes(s, j) THEN Before(s, j + 2, c, w) ELSE w
    OBVIOUS
  <2>2. ASSUME Escapes(s, j)
        PROVE  v \in Seq(C) /\ Copied(s, j, 2, r, v) /\ ReadsAlike(R[j + 2]["quoted"], v, TRUE, ts)
    <3>1. DoubleClose(s, j + 2) = c
      BY <1>3, <2>2, DoubleCloseMore
    <3>2. j + 2 <= c
      <4>1. j + 2 \in 1 .. n + 1
        BY <1>3, <2>2 DEF Escapes
      <4>2. c \in j + 2 .. n
        BY <3>1, <4>1, DoubleCloseMore
      <4> QED BY <4>2
    <3>3. 2 \in Nat /\ 2 >= 1
      OBVIOUS
    <3>4. v = Before(s, j + 2, c, w)
      BY <2>1, <2>2
    <3> QED BY <1>4, <3>1, <3>2, <3>3, <3>4
  <2>3. v \in Seq(C)
    BY <1>2, <2>1, <2>2
  <2>4. ReadsAlike(R[j]["quoted"], r, TRUE, ts)
    BY <1>2, <1>3, <1>6, <1>r, <2>2, <2>3, AlikeQuoted
  <2> QED BY <1>1, <2>4
<1>7. CASE s[j] = "$"
  <2>1. PICK d : /\ Agree(Before(s, j, c, w), 1, s, j, d)
                 /\ \A k \in 1 .. d : j + k \in 1 .. c /\ DoubleClose(s, j + k) = c
    <3>1. c # 0
      BY <1>3
    <3> QED BY <1>2, <1>3, <1>7, <3>1, QuotedFollows
  <2>2. Agree(r, 1, s, j, d) /\ d \in Nat \ {0}
    BY <1>1, <2>1 DEF Agree
  <2> DEFINE v == [k \in 1 .. d |-> Before(s, j + k, c, w)]
  <2>3. \A k \in 1 .. d : v[k] = Before(s, j + k, c, w)
    OBVIOUS
  <2> HIDE DEF v
  <2>4. ASSUME NEW k \in 1 .. d
        PROVE  /\ v[k] \in Seq(C) /\ Copied(s, j, k, r, v[k])
               /\ ReadsAlike(R[j + k]["quoted"], v[k], TRUE, ts)
    <3>1. k \in Nat /\ k >= 1 /\ j + k <= c /\ DoubleClose(s, j + k) = c
      BY <1>3, <2>1, <2>2
    <3>2. PICK x : x = v[k] /\ x = Before(s, j + k, c, w)
      BY <2>3
    <3>3. x \in Seq(C) /\ Copied(s, j, k, r, x) /\ ReadsAlike(R[j + k]["quoted"], x, TRUE, ts)
      BY <1>4, <3>1, <3>2
    <3> QED BY <3>2, <3>3
  <2>5. ReadsAlike(R[j][ModeOf(TRUE)], r, TRUE, ts)
    <3>1. PICK q \in BOOLEAN : q = TRUE
      OBVIOUS
    <3>2. RestsAlike(C, s, R, j, r, d, v, q, ts)
      BY <1>m, <2>4, <3>1 DEF RestsAlike
    <3>3. ReadsAlike(R[j][ModeOf(q)], r, q, ts)
      BY <1>2, <1>3, <1>7, <1>r, <2>2, <3>2, AlikeVariable
    <3> QED BY <3>1, <3>3
  <2> QED BY <1>1, <1>m, <2>5
<1>8. CASE s[j] \notin {DoubleQuote, "\\", "$"}
  <2>1. PICK v : v = Before(s, j + 1, c, w)
    OBVIOUS
  <2>2. v \in Seq(C) /\ Copied(s, j, 1, r, v) /\ ReadsAlike(R[j + 1]["quoted"], v, TRUE, ts)
    <3>1. DoubleClose(s, j + 1) = c
      BY <1>3, <1>8, DoubleCloseThere
    <3>2. j + 1 <= c
      <4>1. c # j
        BY <1>3, <1>8
      <4> QED BY <1>3, <4>1
    <3>3. 1 \in Nat /\ 1 >= 1
      OBVIOUS
    <3> QED BY <1>4, <2>1, <3>1, <3>2, <3>3
  <2>3. ReadsAlike(R[j][ModeOf(TRUE)], r, TRUE, ts)
    <3>1. PICK q \in BOOLEAN : q = TRUE
      OBVIOUS
    <3>2. ReadsAlike(R[j + 1][ModeOf(q)], v, q, ts)
      BY <1>m, <2>2, <3>1
    <3>3. AsItIs(s[j], q)
      BY <1>8, <3>1 DEF AsItIs
    <3>4. ReadsAlike(R[j][ModeOf(q)], r, q, ts)
      BY <1>2, <1>3, <1>r, <2>2, <3>2, <3>3, AlikeOther
    <3> QED BY <3>1, <3>4
  <2> QED BY <1>1, <1>m, <2>3
<1> QED BY <1>5, <1>6, <1>7, <1>8

\* Between two words.
LEMMA OutOnAlike ==
  ASSUME NEW C, NEW n \in Nat, NEW s \in Seq(C), Len(s) = n, NEW W, Lexes(W, s),
         NEW T, Tokenizes(T, s), NEW R, Shell(R, s), NEW j \in 1 .. n + 1,
         LaterAlike(s, W, T, R, j), WordAlike(W, T, R, j)
  PROVE  OutAlike(T, R, j)
<1> SUFFICES ASSUME Unmarked(R[j]["out"]), OnlyWords(T[j]) PROVE R[j]["out"] = Reading(T[j])
  BY DEF OutAlike
<1>1. T[j] = TokensFrom(s, T, j) /\ TokenRules(s, T, j) /\ T[j] \in Seq(TokensOf(C))
  BY TokensTyped, TokenSteps DEF Tokenizes
<1>2. ShellRules(s, R, j) /\ R[j]["out"] = ShellFrom(s, R, j, "out")
  <2>1. j \in 1 .. n + 2 /\ "out" \in Modes
    BY DEF Modes
  <2> QED BY <2>1, ShellSteps DEF Shell
<1>3. (j > n \/ (j <= n /\ j \in 1 .. n)) /\ ~ (j > n /\ j <= n)
  OBVIOUS
<1>4. T[j] = <<>> => Reading(T[j]) = <<>>
  BY <1>1, ReadingIs
<1>5. CASE j > n
  <2>1. T[j] = <<>> /\ R[j]["out"] = <<>>
    BY <1>1, <1>2, <1>5, Zenon DEF TokenRules, ShellRules
  <2> QED BY <1>4, <2>1
<1>6. CASE j <= n /\ s[j] = "#"
  <2>1. T[j] = <<>> /\ R[j]["out"] = <<>>
    BY <1>1, <1>2, <1>6, Zenon DEF TokenRules, ShellRules
  <2> QED BY <1>4, <2>1
<1>7. CASE j <= n /\ s[j] \in Blanks
  <2>1. T[j] = T[j + 1] /\ R[j]["out"] = R[j + 1]["out"]
    BY <1>1, <1>2, <1>7, Zenon DEF TokenRules, ShellRules
  <2>2. OutAlike(T, R, j + 1)
    <3>1. j + 1 \in j + 1 .. n + 1
      BY <1>7
    <3> QED BY <3>1 DEF LaterAlike
  <2> QED BY <2>1, <2>2, Zenon DEF OutAlike
<1>8. CASE j <= n /\ OperatorAt(s, j) # 0
  BY <1>3, <1>8, NoOperators
<1>9. CASE OpensVariable(s, j) /\ VarEnd(s, j) = 0
  <2>1. T[j] = Failed
    BY <1>1, <1>9, Zenon DEF TokenRules
  <2>2. ~OnlyWords(Failed)
    BY FailedIs
  <2> QED BY <2>1, <2>2
<1>10. CASE ~EndsWord(s, j) /\ ~ (OpensVariable(s, j) /\ VarEnd(s, j) = 0)
  <2>1. PICK x : x = W[j]
    OBVIOUS
  <2>2. T[j] = IF x = Bad THEN Failed ELSE Following(Token("word", x.raw), T[x.at])
    <3>1. LexWord(s, j) = x
      BY <2>1 DEF Lexes
    <3> QED BY <1>1, <1>10, <3>1, Zenon DEF TokenRules
  <2>3. x # Bad
    BY <2>2, FailedIs
  <2>4. PICK ts, token : ts = T[x.at] /\ token = Token("word", x.raw)
    OBVIOUS
  <2>5. /\ ts \in Seq(TokensOf(C)) /\ token \in TokensOf(C) /\ token.kind = "word"
        /\ token.raw = x.raw /\ x.raw \in Seq(C)
    <3>1. x.raw \in Seq(C) /\ x.at \in j .. n + 1
      BY <2>1, <2>3, WordTyped
    <3>2. x.at \in 1 .. n + 1
      BY <3>1
    <3>3. ts \in Seq(TokensOf(C))
      BY <2>4, <3>2, TokensTyped
    <3>4. token = [kind |-> "word", raw |-> x.raw]
      BY <2>4 DEF Token
    <3>5. token \in TokensOf(C)
      BY <3>1, <3>4 DEF TokensOf
    <3> QED BY <3>1, <3>3, <3>4, <3>5
  <2>6. T[j] = Following(token, ts)
    BY <2>2, <2>3, <2>4
  <2>7. OnlyWords(ts) /\ T[j] = <<token>> \o ts
    BY <2>5, <2>6, FollowingTyped
  <2>8. PICK e, y, z : e = Expand(x.raw) /\ y = Reading(ts) /\ z = R[j]["word"]
    OBVIOUS
  <2>9. Reading(T[j]) = (<<"word">> \o e) \o y
    BY <2>5, <2>7, <2>8, ReadingIs
  <2>10. /\ e \in Seq(Read(C)) /\ y \in Seq(Read(C)) /\ <<"word">> \in Seq(Read(C))
         /\ e = ExpandOn(x.raw, FALSE)
    <3>1. "word" \in Read(C)
      BY DEF Read
    <3>2. <<"word">> \in Seq(Read(C))
      BY <3>1
    <3>3. Expand(x.raw) = ExpandOn(x.raw, FALSE) /\ ExpandOn(x.raw, FALSE) \in Seq(Read(C))
      BY <2>5, ExpandOnIs
    <3>4. Reading(ts) \in Seq(Read(C))
      BY <2>5, <2>7, ReadingIs
    <3> QED BY <2>8, <3>2, <3>3, <3>4
  <2>11. R[j]["out"] = <<"word">> \o z /\ z \in Seq(Read(C))
    <3>0. PICK mode \in {"word", "quoted"} : mode = "word"
      OBVIOUS
    <3>1. j \in 1 .. n + 2
      OBVIOUS
    <3>2. ReadAt(s, R, j, mode) /\ R[j][mode] \in Seq(Read(C))
      BY <3>1, ShellAt
    <3>3. j <= n /\ s[j] # "#" /\ s[j] \notin Blanks
      BY <1>3, <1>10 DEF EndsWord
    <3>4. R[j]["out"] = <<"word">> \o InWord(s, R, j, "word")
      BY <1>2, <3>3, Zenon DEF ShellRules
    <3> QED BY <2>8, <3>0, <3>2, <3>4 DEF ReadAt
  <2>12. Unmarked(z)
    BY <2>10, <2>11, UnmarkedParts
  <2>13. z = e \o y
    <3>1. ReadsAlike(z, x.raw, FALSE, ts)
      BY <2>1, <2>3, <2>4, <2>8, Zenon DEF WordAlike
    <3> QED BY <2>7, <2>8, <2>10, <2>12, <3>1, Zenon DEF ReadsAlike
  <2>14. (<<"word">> \o e) \o y = <<"word">> \o (e \o y)
    <3>0. PICK A : A = Read(C)
      OBVIOUS
    <3>1. PICK u \in Seq(A) : u = <<"word">>
      BY <2>10, <3>0
    <3>2. (u \o e) \o y = u \o (e \o y)
      <4>1. e \in Seq(A) /\ y \in Seq(A)
        BY <2>10, <3>0
      <4> QED BY <4>1, ConcatAssociative
    <3> QED BY <3>1, <3>2
  <2> QED BY <2>9, <2>11, <2>13, <2>14, Zenon
<1> QED BY <1>3, <1>5, <1>6, <1>7, <1>8, <1>9, <1>10 DEF EndsWord

\* By induction from the end of the text.
LEMMA AlikeEverywhere ==
  ASSUME NEW C, NEW n \in Nat, NEW s \in Seq(C), Len(s) = n, NEW W, Lexes(W, s),
         NEW T, Tokenizes(T, s), NEW R, Shell(R, s)
  PROVE  OutAlike(T, R, 1)
<1> DEFINE S == {j \in 1 .. n + 1 :
                   WordAlike(W, T, R, j) /\ QuotedAlike(s, W, T, R, j) /\ OutAlike(T, R, j)}
<1>1. ASSUME NEW j \in 1 .. n + 1, \A k \in 1 .. n + 1 : k > j => k \in S PROVE j \in S
  <2>1. LaterAlike(s, W, T, R, j)
    <3>1. ASSUME NEW k \in j + 1 .. n + 1
          PROVE  WordAlike(W, T, R, k) /\ QuotedAlike(s, W, T, R, k) /\ OutAlike(T, R, k)
      <4>1. k \in 1 .. n + 1 /\ k > j
        OBVIOUS
      <4> QED BY <1>1, <4>1
    <3> QED BY <3>1 DEF LaterAlike
  <2>2. WordAlike(W, T, R, j)
    BY <2>1, WordEndAlike, WordOnAlike
  <2>3. QuotedAlike(s, W, T, R, j)
    BY <2>1, QuotedOnAlike
  <2>4. OutAlike(T, R, j)
    BY <2>1, <2>2, OutOnAlike
  <2> QED BY <2>2, <2>3, <2>4
<1>2. \A j \in 1 .. n + 1 : j \in S
  <2>1. n + 1 \in Nat
    OBVIOUS
  <2> HIDE DEF S
  <2> QED BY <1>1, <2>1, Downward
<1>3. 1 \in 1 .. n + 1
  OBVIOUS
<1> QED BY <1>2, <1>3

\* A text of words alone is read as a shell reads it, whatever its length and its
\* characters.
THEOREM WordsReadAlike == ASSUME NEW C, NEW s \in Seq(C) PROVE WordAsShell(s)
<1>0. PICK n \in Nat : n = Len(s)
  BY LenProperties
<1> SUFFICES ASSUME \A i \in 1 .. Len(Tokens(s)) : Tokens(s)[i].kind = "word",
                    ~Contains(ShellWords(s), "?")
             PROVE  Words(s) = ShellWords(s)
  BY DEF WordAsShell
<1>1. PICK W : Lexes(W, s)
  BY <1>0, WordSolved DEF Lexes
<1>2. PICK T : Tokenizes(T, s) /\ Tokens(s) = T[1]
  BY <1>0, TokensSolved DEF Tokenizes
<1>3. PICK R : Shell(R, s) /\ ShellWords(s) = R[1]["out"]
  BY <1>0, ShellSolved
<1>4. OutAlike(T, R, 1)
  BY <1>0, <1>1, <1>2, <1>3, AlikeEverywhere
<1>5. OnlyWords(T[1])
  BY <1>2 DEF OnlyWords
<1>6. Unmarked(R[1]["out"])
  BY <1>3 DEF Unmarked, Contains
<1>7. Words(s) = Reading(T[1])
  BY <1>2 DEF Words, Reading
<1> QED BY <1>3, <1>4, <1>5, <1>6, <1>7 DEF OutAlike
===============================================================================
