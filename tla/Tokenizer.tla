----------------------------- MODULE Tokenizer -----------------------------
(***************************************************************************)
(* lib/b_string.c, bk_string_tokenize_split: a string is split into tokens *)
(* one character at a time, with quotes, braces, backslashes and variables *)
(* that nest.  A state is a set of the S_ bits.  bk_string_quote writes    *)
(* what the splitting should read back.  Characters are their codes, and a *)
(* 0 ends the string.                                                      *)
(***************************************************************************)
EXTENDS Integers, Sequences, SequencesExt, TLC

CONSTANTS
  Cases,         \* [in, limit, flags]: the strings to split and how
  SplitOn,       \* spliton
  Left, Right,   \* braces
  Variables      \* variabledb: name -> value; <<>> for none

VARIABLES
  tkCase,        \* the arguments of the call
  tkAt,          \* curloc: the position of the next character
  tk             \* state, limit, startseq, brace_cnt, tokenx and splitx

tvars == <<tkCase, tkAt, tk>>

Backslash == 92
SingleQuote == 39
DoubleQuote == 34
Dollar == 36
Zero == 48
Octals == 48 .. 55
NameChars == Octals \union {56, 57, 95} \union (65 .. 90) \union (97 .. 122)
Ansi == (110 :> 10) @@ (114 :> 13) @@ (116 :> 9) @@ (118 :> 8) @@ (102 :> 12) @@ (98 :> 8) @@ (97 :> 7)

Has(flag) == flag \in tkCase.flags
CharAt(i) == IF i <= Len(tkCase.in) THEN tkCase.in[i] ELSE 0
Here == CharAt(tkAt)
In(bit) == bit \in tk.state
Expands == Variables # <<>>
Magic == \E f \in {"BACKSLASH", "CHAR", "OCT"} : Has(f)

\* Mutant: leading separators are passed over unasked
LeadingAlways(case) ==
  CHOOSE n \in 0 .. Len(case.in) :
    /\ \A i \in 1 .. n : case.in[i] \in SplitOn
    /\ n = Len(case.in) \/ case.in[n + 1] \notin SplitOn
\* What BK_STRING_TOKENIZE_SKIPLEADING passes over: strspn
Leading(case) ==
  IF "SKIPLEADING" \notin case.flags THEN 0
  ELSE CHOOSE n \in 0 .. Len(case.in) :
         /\ \A i \in 1 .. n : case.in[i] \in SplitOn
         /\ n = Len(case.in) \/ case.in[n + 1] \notin SplitOn

Init ==
  /\ tkCase \in Cases
  /\ tkAt = Leading(tkCase) + 1
  /\ tk = [state |-> {"BASE"}, limit |-> tkCase.limit, start |-> 0, braces |-> 0, token |-> <<>>,
           split |-> <<>>, done |-> tkCase.in = <<>> /\ ~Has("WANT_EMPTY")]

\* Mutant: the limit is not looked at
LimitUnread == TRUE
\* LIMITNOTREACHED, and what evaluating it leaves of the limit
LimitNotReached == tk.limit = 0 \/ tk.limit > 1
Less == IF tk.limit > 1 THEN tk.limit - 1 ELSE tk.limit
Separates == Here = 0 \/ Here \in SplitOn
-----------------------------------------------------------------------------
(* What the states do with a character: goto addnormal, tokenizeme, ... *)

Consumed == tkAt' = tkAt + 1
Kept == tkAt' = tkAt

\* addnormal
AddNormal(t) == [t EXCEPT !.token = Append(@, Here)]

\* tokenizeme: the token joins the array; the string's end ends it all
Tokenized(t) ==
  [t EXCEPT !.split = Append(@, t.token), !.token = <<>>,
            !.state = IF Here = 0 THEN @ ELSE {"SPLIT"}, !.done = Here = 0]

InSplit ==
  /\ In("SPLIT")
  /\ IF Separates /\ LimitNotReached
     THEN LET t == [tk EXCEPT !.limit = IF Here = 0 THEN @ ELSE Less] IN
          /\ Consumed
          /\ tk' = CASE Here = 0 -> [t EXCEPT !.done = TRUE]
                     [] Here # 0 /\ Has("MULTISPLIT") -> t
                     [] OTHER -> Tokenized(t)
     ELSE Kept /\ tk' = [tk EXCEPT !.state = {"BASE"}]

\* Mutant: three digits whatever the first is
OctalThree == tkAt - tk.start > 3
\* \0 and up to three octal digits, two when the first is above 3
OctalLong ==
  LET digits == tkAt - tk.start IN
  IF CharAt(tk.start + 1) \in 48 .. 51 THEN digits > 3 ELSE digits > 2
OctalValue ==
  FoldLeft(LAMBDA v, c : (v * 8 + c - Zero) % 256, 0, SubSeq(tkCase.in, tk.start, tkAt - 1))

InOctal ==
  /\ In("OCTAL")
  /\ IF OctalLong \/ Here \notin Octals
     THEN Kept /\ tk' = [tk EXCEPT !.state = @ \ {"OCTAL"}, !.token = Append(@, OctalValue)]
     ELSE Consumed /\ UNCHANGED tk

InBackslash ==
  /\ In("BSLASH") /\ ~In("OCTAL")
  /\ LET t == [tk EXCEPT !.state = @ \ {"BSLASH"}, !.start = tkAt] IN
     CASE Has("CHAR") /\ Here \in DOMAIN Ansi ->
            Consumed /\ tk' = [t EXCEPT !.token = Append(@, Ansi[Here])]
       [] ~(Has("CHAR") /\ Here \in DOMAIN Ansi) /\ Has("OCT") /\ Here = Zero ->
            Consumed /\ tk' = [t EXCEPT !.state = @ \union {"OCTAL"}]
       [] ~(Has("CHAR") /\ Here \in DOMAIN Ansi) /\ ~(Has("OCT") /\ Here = Zero) /\ Has("BACKSLASH") ->
            Consumed /\ tk' = IF Here = 0 THEN Tokenized(tk) ELSE AddNormal(t)
       [] OTHER -> Kept /\ tk' = [t EXCEPT !.token = Append(@, Backslash)]

\* A variable's value; := or :- gives one for a variable that has none
Value(text) ==
  LET colons == {i \in 1 .. Len(text) - 1 : text[i] = 58 /\ text[i + 1] \in {61, 45}}
      first == CHOOSE i \in colons : \A j \in colons : i <= j
      name == IF colons = {} THEN text ELSE SubSeq(text, 1, first - 1)
      value == IF name \in DOMAIN Variables THEN Variables[name] ELSE <<>> IN
  IF value = <<>> /\ colons # {} THEN SubSeq(text, first + 2, Len(text)) ELSE value

Replaced(text) ==
  [tk EXCEPT !.state = @ \ {"VARIABLE", "DELIM"}, !.token = @ \o Value(text)]

InVariable ==
  /\ In("VARIABLE")
  /\ IF Here = 123 /\ tkAt = tk.start + 1
     THEN Consumed /\ tk' = [tk EXCEPT !.state = (@ \ {"VARIABLE"}) \union {"DELIM"}]
     ELSE IF Here \in NameChars THEN Consumed /\ UNCHANGED tk
     ELSE Kept /\ tk' = Replaced(SubSeq(tkCase.in, tk.start + 1, tkAt - 1))

\* ${name} or ${name:=default}; what is neither is passed over
Closing ==
  IF Here = 58 /\ CharAt(tkAt + 1) = 61
  THEN CHOOSE i \in tkAt .. Len(tkCase.in) + 1 :
         CharAt(i) \in {0, 125} /\ \A j \in tkAt .. i - 1 : CharAt(j) \notin {0, 125}
  ELSE tkAt
InDelimited ==
  /\ In("DELIM")
  /\ IF Here \in NameChars THEN Consumed /\ UNCHANGED tk
     ELSE IF CharAt(Closing) = 125
     THEN tkAt' = Closing + 1 /\ tk' = Replaced(SubSeq(tkCase.in, tk.start + 2, Closing - 1))
     ELSE tkAt' = Closing /\ tk' = [tk EXCEPT !.state = @ \ {"DELIM"}]

Plain == ~\E bit \in {"OCTAL", "BSLASH", "VARIABLE", "DELIM"} : In(bit)

\* Variables and backslashes are magic outside quotes, in "" and in braces
Opens ==
  IF Expands /\ Here = Dollar THEN {"VARIABLE"} ELSE IF Here = Backslash /\ Magic THEN {"BSLASH"} ELSE {}
Opened == Consumed /\ tk' = [tk EXCEPT !.state = @ \union Opens, !.start = tkAt]

InBase ==
  /\ In("BASE") /\ Plain
  /\ CASE Separates /\ (Here = 0 \/ LimitNotReached) ->
            Consumed /\ tk' = Tokenized([tk EXCEPT !.limit = IF Here = 0 THEN @ ELSE Less])
       [] ~(Separates /\ (Here = 0 \/ LimitNotReached)) /\ Opens = {"VARIABLE"} -> Opened
       [] Here = SingleQuote /\ Has("SINGLEQUOTE") -> Consumed /\ tk' = [tk EXCEPT !.state = {"SQUOTE"}]
       [] Here = DoubleQuote /\ Has("DOUBLEQUOTE") -> Consumed /\ tk' = [tk EXCEPT !.state = {"DQUOTE"}]
       [] Here \in Left ->
            LET t == [tk EXCEPT !.state = {"BRACE"}, !.braces = 1] IN
            Consumed /\ tk' = IF Has("KEEP_BRACES") THEN AddNormal(t) ELSE t
       [] Opens = {"BSLASH"} -> Opened
       [] OTHER -> Consumed /\ tk' = AddNormal(tk)

InSingleQuote ==
  /\ In("SQUOTE") /\ Consumed
  /\ tk' = CASE Here = SingleQuote -> [tk EXCEPT !.state = {"BASE"}]
             [] Here = 0 -> Tokenized(tk)
             [] OTHER -> AddNormal(tk)

InDoubleQuote ==
  /\ In("DQUOTE") /\ Plain
  /\ CASE Here = DoubleQuote -> Consumed /\ tk' = [tk EXCEPT !.state = {"BASE"}]
       [] Here = 0 -> Consumed /\ tk' = Tokenized(tk)
       [] Opens # {} -> Opened
       [] OTHER -> Consumed /\ tk' = AddNormal(tk)

InBrace ==
  /\ In("BRACE") /\ Plain
  /\ CASE Here = 0 -> Consumed /\ tk' = Tokenized(tk)
       [] Here \in Left -> Consumed /\ tk' = AddNormal([tk EXCEPT !.braces = @ + 1])
       [] Here \in Right ->
            LET t == [tk EXCEPT !.braces = @ - 1, !.state = IF tk.braces = 1 THEN {"BASE"} ELSE @] IN
            Consumed /\ tk' = IF tk.braces = 1 /\ ~Has("KEEP_BRACES") THEN t ELSE AddNormal(t)
       [] Opens # {} -> Opened
       [] OTHER -> Consumed /\ tk' = AddNormal(tk)

Next ==
  /\ ~tk.done /\ UNCHANGED tkCase
  /\ \/ InSplit \/ InOctal \/ InBackslash \/ InVariable \/ InDelimited
     \/ InBase \/ InSingleQuote \/ InDoubleQuote \/ InBrace

Spec == Init /\ [][Next]_tvars /\ WF_tvars(Next)
-----------------------------------------------------------------------------
(* bk_string_quote, and what calls of it are to be split *)

Digits(n) == IF n < 8 THEN <<Zero + n>> ELSE IF n < 64 THEN <<Zero + n \div 8, Zero + (n % 8)>>
             ELSE <<Zero + n \div 64, Zero + ((n \div 8) % 8), Zero + (n % 8)>>
NeedsQuote(c, nonprint) == c \in {Backslash, DoubleQuote} \/ (nonprint /\ c \notin 32 .. 126)
StringQuote(word, nonprint) ==
  FlattenSeq([i \in DOMAIN word |->
    IF NeedsQuote(word[i], nonprint) THEN <<Backslash, Zero>> \o Digits(word[i]) ELSE <<word[i]>>])

\* Words, each quoted and in double quotes, with a separator between them
QuotedLine(words, nonprint) ==
  FlattenSeq([i \in DOMAIN words |->
    (IF i = 1 THEN <<>> ELSE <<32>>) \o <<DoubleQuote>> \o StringQuote(words[i], nonprint) \o <<DoubleQuote>>])
-----------------------------------------------------------------------------
\* What bk_string_quote quoted and put in double quotes is split into the words it
\* was made of, whatever separators, quotes and backslashes they hold, and so is what
\* is put in single quotes, in which nothing is magic.
QuoteComesBack == tk.done /\ "words" \in DOMAIN tkCase => tk.split = tkCase.words

\* No more tokens than the limit, and with no character magic nothing is lost:
\* the tokens with separators between them are the string, but for one
\* separator at its very end.
LimitKept == tkCase.limit > 0 => Len(tk.split) <= tkCase.limit
NothingLost ==
  tk.done /\ tkCase.flags = {} /\ tkCase.in # <<>> /\ Left = {} =>
    LET n == Len(tk.split)
        Sizes == FoldLeft(LAMBDA a, t : a + Len(t), 0, tk.split)
        Begins(i) == FoldLeft(LAMBDA a, t : a + Len(t) + 1, 0, SubSeq(tk.split, 1, i - 1)) IN
    /\ Sizes + n - 1 \in {Len(tkCase.in) - 1, Len(tkCase.in)}
    /\ \A i \in 1 .. n : tk.split[i] = SubSeq(tkCase.in, Begins(i) + 1, Begins(i) + Len(tk.split[i]))

\* The splitting goes on to the NUL and not beyond, whatever is left open there: a
\* quote, a brace, a variable, a backslash or an octal number.
ReadsWithin ==
  /\ tkAt <= Len(tkCase.in) + (IF tk.done THEN 2 ELSE 1)
  /\ tk.done /\ tkCase.in # <<>> => tkAt = Len(tkCase.in) + 2
=============================================================================
