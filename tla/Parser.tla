-------------------------------- MODULE Parser --------------------------------
(***************************************************************************)
(* From the text of a command line to words and commands.  The text is     *)
(* read twice: _tokenize finds the words, with their quotes, and           *)
(* _parse_word_parts reads each word again to take the quotes off and to   *)
(* find the variables.                                                     *)
(*                                                                         *)
(* A text is a sequence of characters.  "a" stands for all letters, "*"    *)
(* for all the characters that _lex_word_text refuses, and "V" for the     *)
(* value of $a, the only variable that is set.                             *)
(***************************************************************************)
EXTENDS Naturals, Sequences, SequencesExt

CONSTANTS
  Chars,     \* characters of Texts
  MaxText,   \* bound: characters of such a text
  MaxTokens  \* bound: tokens in TokenLists

ASSUME ParserAssumption == MaxText \in Nat /\ MaxTokens \in Nat

Blanks  == {" ", "\n"}
Letters == {"a"}
Digits  == {"1", "2"}

\* Longest first.
Operators ==
  << <<"2", ">", ">">>, <<"2", ">", "&", "1">>, <<"2", ">">>, <<"1", ">", "&", "2">>,
     <<">", ">">>, <<">">>, <<"<">>, <<"|", "|">>, <<"&", "&">>, <<"|">>, <<";">> >>

StartsAt(s, i, op) ==
  /\ i + Len(op) - 1 <= Len(s)
  /\ \A k \in 1 .. Len(op) : s[i + k - 1] = op[k]

\* The operator at i, or 0.
OperatorAt(s, i) ==
  LET Here(op) == StartsAt(s, i, op) IN SelectInSeq(Operators, Here)

\* The next c from i on, or 0.
NextIs(s, i, c) ==
  LET Is(d) == d = c IN SelectInSubSeq(s, i, Len(s), Is)

\* The end of the longest name that begins at i, or i - 1.
NameEnd(s, i) ==
  LET names == {j \in i .. Len(s) :
                  s[i] \in Letters /\ \A k \in i .. j : s[k] \in Letters \cup Digits}
  IN  IF names = {} THEN i - 1 ELSE CHOOSE j \in names : \A k \in names : k <= j

\* _VAR_RE: $name or ${name} at i; the position after it, or 0.
VarEnd(s, i) ==
  IF s[i] # "$" \/ i = Len(s) THEN 0
  ELSE LET braced == s[i + 1] = "{"
           from   == IF braced THEN i + 2 ELSE i + 1
           end    == NameEnd(s, from)
       IN  CASE end < from -> 0
             [] end >= from /\ ~braced -> end + 1
             [] end >= from /\ braced  -> IF end < Len(s) /\ s[end + 1] = "}" THEN end + 2 ELSE 0

\* The value of the variable between i and the position after it.
ValueOf(s, i, after) ==
  IF SelectSeq(SubSeq(s, i + 1, after - 1), LAMBDA c : c \notin {"{", "}"}) = <<"a">>
  THEN <<"V">> ELSE <<>>

-------------------------------------------------------------------------------
(* Tokens *)

DoubleQuote == "\""

\* mutant: a backslash in double quotes is an ordinary character
DoubleCloseFirst(s, i) == NextIs(s, i, DoubleQuote)

\* Where the double quotes close that are open at j, or 0, if closes is that of the
\* later positions.
DoubleCloseFrom(s, closes, j) ==
  IF j > Len(s) THEN 0
  ELSE IF s[j] = DoubleQuote THEN j
  ELSE IF s[j] = "\\" /\ j < Len(s) THEN closes[j + 2] ELSE closes[j + 1]

DoubleClose(s, i) ==
  LET closes[j \in 1 .. Len(s) + 1] == DoubleCloseFrom(s, closes, j) IN closes[i]

\* mutant: a backslash before a quote in single quotes keeps them open
SingleCloseEscaped(s, i) ==
  LET closes == {j \in i .. Len(s) : s[j] = "'" /\ (j = i \/ s[j - 1] # "\\")}
  IN  IF closes = {} THEN 0 ELSE CHOOSE j \in closes : \A k \in closes : j <= k

SingleClose(s, i) == NextIs(s, i, "'")

\* What the rest of a word is: its raw text and where the word ends, or Bad.
Bad == [raw |-> <<>>, at |-> 0]
Then(part, rest) ==
  IF rest = Bad THEN Bad ELSE [raw |-> part \o rest.raw, at |-> rest.at]

EndsWord(s, j) ==
  j > Len(s) \/ (j <= Len(s) /\ (s[j] \in Blanks \cup {"#"} \/ OperatorAt(s, j) # 0))

\* The rest of the word from j on, if words is that from the later positions.  Quotes
\* stay, and a backslash outside of them goes.
WordFrom(s, words, j) ==
  LET Closed(close) ==
        IF close = 0 THEN Bad ELSE Then(SubSeq(s, j, close), words[close + 1])
  IN  CASE EndsWord(s, j) -> [raw |-> <<>>, at |-> j]
        [] ~EndsWord(s, j) /\ s[j] \in {"&", "*"} -> Bad
        [] ~EndsWord(s, j) /\ s[j] = "$" /\ j < Len(s) /\ s[j + 1] = "(" -> Bad
        [] ~EndsWord(s, j) /\ s[j] = "'" -> Closed(SingleClose(s, j + 1))
        [] ~EndsWord(s, j) /\ s[j] = DoubleQuote -> Closed(DoubleClose(s, j + 1))
        [] ~EndsWord(s, j) /\ s[j] = "\\" /\ j < Len(s) -> Then(<<s[j + 1]>>, words[j + 2])
        [] OTHER -> Then(<<s[j]>>, words[j + 1])

\* _lex_word_text
LexWord(s, i) == LET words[j \in 1 .. Len(s) + 1] == WordFrom(s, words, j) IN words[i]

\* A token is an operator, or "word" with its raw text.
Token(kind, raw) == [kind |-> kind, raw |-> raw]
Failed == <<Token("error", <<>>)>>
Following(token, rest) == IF rest = Failed THEN Failed ELSE <<token>> \o rest

OpensVariable(s, i) == i < Len(s) /\ s[i] = "$" /\ s[i + 1] = "{"

\* The tokens from i on, if tokens are those from the later positions.
TokensFrom(s, tokens, i) ==
  LET op   == OperatorAt(s, i)
      word == LexWord(s, i)
  IN  CASE i > Len(s) -> <<>>
        [] i <= Len(s) /\ s[i] \in Blanks -> tokens[i + 1]
        [] i <= Len(s) /\ s[i] = "#" -> <<>>
        [] i <= Len(s) /\ op # 0 ->
             Following(Token("op", Operators[op]), tokens[i + Len(Operators[op])])
        [] OpensVariable(s, i) /\ VarEnd(s, i) = 0 -> Failed
        [] OTHER -> IF word = Bad THEN Failed
                    ELSE Following(Token("word", word.raw), tokens[word.at])

\* _tokenize, with the tokens of a ParseError.
Tokens(s) == LET tokens[i \in 1 .. Len(s) + 1] == TokensFrom(s, tokens, i) IN tokens[1]

-------------------------------------------------------------------------------
(* Words *)

\* Where a text ends that begins at i and is in single quotes.
SingleEnd(raw, i) ==
  IF SingleClose(raw, i) = 0 THEN Len(raw) + 1 ELSE SingleClose(raw, i)

\* What becomes of the raw text from i on, in double quotes or not, if texts is what
\* becomes of it from the later positions.
ExpandFrom(raw, texts, i, quoted) ==
  LET var == VarEnd(raw, i)
      end == SingleEnd(raw, i + 1)
  IN  CASE i > Len(raw) -> <<>>
        [] i <= Len(raw) /\ var # 0 -> ValueOf(raw, i, var) \o texts[var][quoted]
        [] i <= Len(raw) /\ raw[i] = DoubleQuote -> texts[i + 1][~quoted]
        [] i < Len(raw) /\ raw[i] = "\\" /\ quoted -> <<raw[i + 1]>> \o texts[i + 2][quoted]
        [] i <= Len(raw) /\ raw[i] = "'" /\ ~quoted ->
             SubSeq(raw, i + 1, end - 1) \o texts[end + 1][quoted]
        [] OTHER -> <<raw[i]>> \o texts[i + 1][quoted]

\* _parse_word_parts and Word.expand: what becomes of the raw text of a word.
Expand(raw) ==
  LET texts[i \in 1 .. Len(raw) + 2] ==
        [quoted \in BOOLEAN |-> ExpandFrom(raw, texts, i, quoted)]
  IN  texts[1][FALSE]

\* shlex.quote
Safe(c) == c \in Letters \cup Digits \cup {"=", "/"}
NeedsNoQuotes(s) == s # <<>> /\ \A i \in 1 .. Len(s) : Safe(s[i])
InQuotes(c) == IF c = "'" THEN <<"'", DoubleQuote, "'", DoubleQuote, "'">> ELSE <<c>>
Quote(s) ==
  IF NeedsNoQuotes(s) THEN s
  ELSE <<"'">> \o FlattenSeq([i \in 1 .. Len(s) |-> InQuotes(s[i])]) \o <<"'">>

\* The words that are no operators, each behind a mark.
Words(s) ==
  FlattenSeq([i \in 1 .. Len(Tokens(s)) |-> <<"word">> \o Expand(Tokens(s)[i].raw)])

\* What a shell makes of the character at i in a word, in double quotes or not, if reads
\* is what it makes of the later positions.  A "?" marks what rattan is known to read
\* otherwise: a backslash outside of quotes before a quote, a $ or a backslash, or after
\* a $; one in double quotes before any other character; a # inside a word.
InWord(s, reads, i, mode) ==
  LET var     == VarEnd(s, i)
      next    == IF i < Len(s) THEN s[i + 1] ELSE " "
      special == next \in {DoubleQuote, "\\", "$"}
      close   == NextIs(s, i + 1, "'")
      Marked(differs, text) == IF differs THEN <<"?">> ELSE text
  IN  CASE i > Len(s) -> <<>>
        [] i <= Len(s) /\ var # 0 -> ValueOf(s, i, var) \o reads[var][mode]
        [] i <= Len(s) /\ s[i] = DoubleQuote ->
             reads[i + 1][IF mode = "word" THEN "quoted" ELSE "word"]
        [] i <= Len(s) /\ s[i] = "\\" /\ mode = "quoted" ->
             Marked(~special, <<next>> \o reads[i + 2][mode])
        [] i <= Len(s) /\ s[i] = "\\" /\ mode = "word" ->
             Marked(special \/ next = "'" \/ i = Len(s) \/ \E k \in 1 .. i : s[k] = "$",
                    <<next>> \o reads[i + 2][mode])
        [] i <= Len(s) /\ s[i] \in Blanks /\ mode = "word" -> reads[i + 1]["out"]
        [] i <= Len(s) /\ s[i] = "#" /\ mode = "word" -> <<"?">>
        [] i <= Len(s) /\ s[i] = "'" /\ mode = "word" ->
             Marked(close = 0, SubSeq(s, i + 1, close - 1) \o reads[close + 1][mode])
        [] OTHER -> <<s[i]>> \o reads[i + 1][mode]

\* ... and at i between two words ("out") or in one.
ShellFrom(s, reads, i, mode) ==
  CASE mode # "out" -> InWord(s, reads, i, mode)
    [] mode = "out" /\ i > Len(s) -> <<>>
    [] mode = "out" /\ i <= Len(s) /\ s[i] = "#" -> <<>>
    [] mode = "out" /\ i <= Len(s) /\ s[i] \in Blanks -> reads[i + 1]["out"]
    [] OTHER -> <<"word">> \o InWord(s, reads, i, "word")

\* What a shell reads in the same text as Words in one pass, as long as it has no operator
\* in it.
Modes == {"out", "word", "quoted"}
ShellWords(s) ==
  LET reads[i \in 1 .. Len(s) + 2] == [mode \in Modes |-> ShellFrom(s, reads, i, mode)]
  IN  reads[1]["out"]

-------------------------------------------------------------------------------
(* Commands *)

Semicolon == <<";">>
Bar       == <<"|">>
Links     == { <<"&", "&">>, <<"|", "|">> }
WholeOps  == { <<"1", ">", "&", "2">>, <<"2", ">", "&", "1">> }
Separator == {Semicolon, Bar} \cup Links

IsOp(t, raws)  == t.kind = "op" /\ t.raw \in raws
IsRedirect(t)  == t.kind = "op" /\ t.raw \notin Separator

\* mutant: 2>&1 takes the next word, too
NeedsTargetAlways(t) == IsRedirect(t)

NeedsTarget(t) == IsRedirect(t) /\ t.raw \notin WholeOps

\* _ASSIGN_RE
Assigns(raw) == raw # <<>> /\ LET end == NameEnd(raw, 1)
                              IN  end > 0 /\ end < Len(raw) /\ raw[end + 1] = "="

\* The numbers of a set in their order.
InOrder(S) ==
  [k \in 1 .. Cardinality(S) |-> CHOOSE i \in S : Cardinality({j \in S : j <= i}) = k]

\* The parts of ts between the operators in raws.
Cuts(ts, raws) == {0, Len(ts) + 1} \cup {i \in 1 .. Len(ts) : IsOp(ts[i], raws)}
Split(ts, raws) ==
  LET at == InOrder(Cuts(ts, raws))
  IN  [k \in 1 .. Len(at) - 1 |-> SubSeq(ts, at[k] + 1, at[k + 1] - 1)]

Chosen(ts, S) == [k \in 1 .. Cardinality(S) |-> ts[InOrder(S)[k]]]

\* Is the token at i an assignment: it and all before it?
Prefix(ts, i) == \A j \in 1 .. i : ts[j].kind = "word" /\ Assigns(ts[j].raw)

\* parse_command, of the tokens up to an operator that ends a command.  A redirect
\* is its operator and its target.
Command(ts) ==
  LET target == {i \in 2 .. Len(ts) : NeedsTarget(ts[i - 1])}
      words  == {i \in 1 .. Len(ts) : ts[i].kind = "word"} \ target
      prefix == {i \in words : Prefix(ts, i)}
  IN  [assignments |-> Chosen(ts, prefix), argv |-> Chosen(ts, words \ prefix),
       redirects   |-> Chosen(ts, (1 .. Len(ts)) \ words)]

\* parse_pipeline, parse_andor
PipelineOf(ts) == LET stages == Split(ts, {Bar}) IN [k \in 1 .. Len(stages) |-> Command(stages[k])]
AndOr(ts) ==
  LET parts == Split(ts, Links)
  IN  [pipelines |-> [k \in 1 .. Len(parts) |-> PipelineOf(parts[k])],
       ops       |-> Chosen(ts, {i \in 1 .. Len(ts) : IsOp(ts[i], Links)})]

\* parse raises ParseError.
Rejected(ts) ==
  \/ ts = <<>> \/ ts = Failed
  \/ \E i \in 1 .. Len(ts) : NeedsTarget(ts[i]) /\ (i = Len(ts) \/ ts[i + 1].kind # "word")
  \/ \E k \in 1 .. Len(Split(ts, {Semicolon} \cup Links)) :
       Len(Split(Split(ts, {Semicolon} \cup Links)[k], {Bar})) > 2

\* parse; a last semicolon begins no other list.
Parsed(ts) ==
  LET lists == Split(ts, {Semicolon})
      parts == IF Len(lists) > 1 /\ Last(lists) = <<>> THEN Front(lists) ELSE lists
  IN  [k \in 1 .. Len(parts) |-> AndOr(parts[k])]

-------------------------------------------------------------------------------
(* Properties.  They are about values alone; the module that takes a text says when *)

Texts == UNION {[1 .. n -> Chars] : n \in 0 .. MaxText}

\* In "a <quoted text> | a" the quoted text is one word, which stands for itself, and the
\* rest is parsed as if it were any other.
QuoteHolds(s) ==
  LET ts   == Tokens(<<"a", " ">> \o Quote(s) \o <<"|", "a">>)
      a    == Token("word", <<"a">>)
      word == ts[2]
      Stage(words) == [assignments |-> <<>>, argv |-> words, redirects |-> <<>>]
  IN  /\ ~Rejected(ts)
      /\ Parsed(ts) = <<[pipelines |-> << <<Stage(<<a, word>>), Stage(<<a>>)>> >>,
                        ops |-> <<>>]>>
      /\ Expand(word.raw) = s

\* A text of words alone, which is not one that rattan is known to read otherwise, is
\* read as a shell reads it.
WordAsShell(s) ==
  LET ts == Tokens(s)
  IN  ~Rejected(ts) /\ (\A i \in 1 .. Len(ts) : ts[i].kind = "word")
        /\ ~Contains(ShellWords(s), "?") => Words(s) = ShellWords(s)

\* Some tokens of each kind: an assignment, a word, the separators and redirects.
SomeTokens ==
  {Token("word", <<"a", "=", "2">>), Token("word", <<"a">>)}
    \cup {Token("op", raw) : raw \in Separator \cup {<<">">>, <<"<">>, <<"2", ">", "&", "1">>}}

TokenLists == UNION {[1 .. n -> SomeTokens] : n \in 0 .. MaxTokens}

\* The parts with an operator between each two.
Joined(parts, ops) ==
  FlattenSeq([k \in 1 .. Len(parts) |-> IF k = 1 THEN parts[k] ELSE <<ops[k - 1]>> \o parts[k]])

\* The words of a program, or its redirects, with the operators between its commands.
Halves == {"words", "redirects"}
Half(c, which) == IF which = "words" THEN c.assignments \o c.argv ELSE c.redirects
Piped(p, which) ==
  Joined([k \in 1 .. Len(p) |-> Half(p[k], which)], [k \in 1 .. Len(p) |-> Token("op", Bar)])
Linked(l, which) ==
  Joined([k \in 1 .. Len(l.pipelines) |-> Piped(l.pipelines[k], which)], l.ops)
Line(program, which) ==
  Joined([k \in 1 .. Len(program) |-> Linked(program[k], which)],
         [k \in 1 .. Len(program) |-> Token("op", Semicolon)])

\* Where these stand in the tokens.
HalfOf(ts, which) ==
  LET Target(i) == i > 1 /\ IsOp(ts[i - 1], {<<">">>, <<"<">>})
      words     == {i \in 1 .. Len(ts) : ts[i].kind = "word" /\ ~Target(i)}
  IN  IF which = "words" THEN words \cup {i \in 1 .. Len(ts) : IsOp(ts[i], Separator)}
                         ELSE (1 .. Len(ts)) \ words

\* Every word but the one after < or > is a word of the command that it stands in, and
\* every redirect with its target belongs to the command that it stands in.
Keeps(ts) ==
  ~Rejected(ts) =>
    LET text == IF IsOp(Last(ts), {Semicolon}) THEN Len(ts) - 1 ELSE Len(ts)
    IN  \A which \in Halves :
          Line(Parsed(ts), which) = Chosen(ts, HalfOf(ts, which) \cap (1 .. text))
===============================================================================
