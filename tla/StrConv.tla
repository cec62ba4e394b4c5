------------------------------ MODULE StrConv ------------------------------
(***************************************************************************)
(* lib/b_strconv.c: strings to numbers of a width and back, flags to a     *)
(* string of their names and back, symbols to names and back.  A state is  *)
(* a string to convert, or flags.  Of the bits of u_int64_t and of         *)
(* u_int32_t and bk_flags there are Wide and Narrow; characters are their  *)
(* codes, and a string ends where its sequence does.                       *)
(***************************************************************************)
EXTENDS Integers, Sequences, FiniteSets

CONSTANTS
  Wide, Narrow,  \* bits
  Digits,        \* characters of which the strings of numbers are made
  MaxDigits,     \* bounds the model: length of such a string
  NameLists,     \* flag names: sequences of bits and names, none of them empty
  Symbols        \* a bk_symbol list: values and names

VARIABLES
  scIn,          \* a string
  scFlags        \* flags, as the set of their bits

scvars == <<scIn, scFlags>>
Init == scIn = <<>> /\ scFlags = {}

First(is) == CHOOSE i \in is : \A k \in is : i <= k
Final(is) == CHOOSE i \in is : \A k \in is : i >= k
Places(s, c) == {i \in DOMAIN s : s[i] = c}
\* Of a string s from i on: its character there, the NUL at its end included
At(s, i) == IF i <= Len(s) THEN s[i] ELSE 0
PastSpaces(s, i) == First({k \in i .. Len(s) + 1 : At(s, k) # 32})
-----------------------------------------------------------------------------
(* Numbers *)

Decode(c) ==
  IF c \in 48 .. 57 THEN c - 48 ELSE IF c \in 65 .. 90 THEN c - 55
  ELSE IF c \in 97 .. 122 THEN c - 87 ELSE -1
\* The base that a flag or the string from i on asks for, the characters that say
\* so, and what digits then is
Convention(s, i, flag) ==
  IF flag # "none"
  THEN [base |-> CASE flag = "HEX" -> 16 [] flag = "DEC" -> 10 [] flag = "OCT" -> 8,
        skip |-> 0, digits |-> -1]
  ELSE IF At(s, i) = 48 /\ At(s, i + 1) \in {88, 120} THEN [base |-> 16, skip |-> 2, digits |-> 1]
  ELSE IF At(s, i) = 48 /\ At(s, i + 1) \in 48 .. 55 THEN [base |-> 8, skip |-> 1, digits |-> 0]
  ELSE [base |-> 10, skip |-> 0, digits |-> -1]
\* The parts of a string: its sign, its base, its digits from one place to another
Parted(s, i, how, from, past) ==
  [empty |-> At(s, i) = 0, sign |-> IF At(s, i) = 45 THEN -1 ELSE 1, base |-> how.base,
   from |-> from, past |-> past, digits |-> IF past > from THEN 0 ELSE how.digits,
   clean |-> At(s, PastSpaces(s, past)) = 0]
DigitsFrom(s, i, how, from) ==
  Parted(s, i, how, from,
         First({k \in from .. Len(s) + 1 : Decode(At(s, k)) \notin 0 .. how.base - 1}))
BasedFrom(s, i, j, how) == DigitsFrom(s, i, how, j + how.skip)
SignedFrom(s, i, j, flag) == BasedFrom(s, i, j, Convention(s, j, flag))
PartsFrom(s, i, flag) == SignedFrom(s, i, IF At(s, i) \in {43, 45} THEN i + 1 ELSE i, flag)
Parts(s, flag) == PartsFrom(s, PastSpaces(s, 1), flag)

Wrapped(n, bits) == n % 2 ^ bits
Signed(n, bits) == LET u == Wrapped(n, bits) IN IF u >= 2 ^ (bits - 1) THEN u - 2 ^ bits ELSE u
Failed == [ret |-> -1, sign |-> 1, value |-> 0]
\* bk_string_atou64_int of a string whose parts are p; it overflows where a value is
\* below the one before it.
Converted(s, p) ==
  LET value[k \in p.from - 1 .. p.past - 1] ==
        IF k < p.from THEN 0 ELSE Wrapped(value[k - 1] * p.base + Decode(s[k]), Wide)
  IN IF p.empty THEN [ret |-> 1, sign |-> 1, value |-> 0]
     ELSE IF p.digits < 0 \/ \E k \in p.from .. p.past - 1 : value[k] < value[k - 1] THEN Failed
     ELSE [ret |-> IF p.digits = 0 /\ p.clean THEN 0 ELSE 1,
           sign |-> p.sign, value |-> value[p.past - 1]]
AtoU64Int(s, flag) == Converted(s, Parts(s, flag))

\* What bk_string_atou32 and bk_string_atou64 make of what that gave
AtoU(r, bits) == IF r.ret < 0 \/ r.sign < 0 \/ r.value > 2 ^ bits - 1 THEN Failed ELSE r
\* Mutant: the least number is as far from zero as the greatest
NoLeast(r, bits) == FALSE
\* "min is -(max + 1)"
IsLeast(r, bits) == r.sign = -1 /\ r.value = 2 ^ (bits - 1)
\* and bk_string_atoi32, bk_string_atot and bk_string_atoi64
AtoI(r, bits) ==
  IF r.ret < 0 \/ (~IsLeast(r, bits) /\ r.value > 2 ^ (bits - 1) - 1) THEN Failed
  ELSE [r EXCEPT !.value = Signed(r.value, bits) * IF IsLeast(r, bits) THEN 1 ELSE r.sign]

AtoU32(s, flag) == AtoU(AtoU64Int(s, flag), Narrow)
AtoI32(s, flag) == AtoI(AtoU64Int(s, flag), Narrow)
AtoT(s, flag) == AtoI(AtoU64Int(s, flag), Narrow)
AtoU64(s, flag) == AtoU(AtoU64Int(s, flag), Wide)
AtoI64(s, flag) == AtoI(AtoU64Int(s, flag), Wide)

\* What is written, each digit by its place
Number(s, p) ==
  LET sum[k \in 0 .. p.past - p.from] ==
        IF k = 0 THEN 0 ELSE sum[k - 1] + Decode(s[p.past - k]) * p.base ^ (k - 1)
  IN IF p.empty THEN 0 ELSE sum[p.past - p.from]
-----------------------------------------------------------------------------
(* Flags and symbols *)

Bit == 1 .. Narrow
ValueOf(bits) ==
  LET sum[k \in 0 .. Narrow] ==
        IF k = 0 THEN 0 ELSE sum[k - 1] + IF k \in bits THEN 2 ^ (k - 1) ELSE 0
  IN sum[Narrow]
FlagsOf(n) == {b \in Bit : (n \div 2 ^ (b - 1)) % 2 = 1}
\* "0x%x"
Hex(n) ==
  LET size == First({k \in 1 .. Narrow : n < 16 ^ k})
      digit(k) == (n \div 16 ^ (size - k)) % 16
  IN <<48, 120>> \o [k \in 1 .. size |-> IF digit(k) < 10 THEN 48 + digit(k) ELSE 87 + digit(k)]

RECURSIVE Named(_, _)
\* The names of those flags that have one, a comma before each
Named(flags, names) ==
  IF names = <<>> THEN <<>>
  ELSE (IF names[1].bit \in flags THEN <<44>> \o names[1].name ELSE <<>>)
       \o Named(flags \ {names[1].bit}, Tail(names))
\* Mutant: the string never says that there are more
NoTilde(left) == <<>>
Tilde(left) == IF left = {} THEN <<>> ELSE <<126>>
Symbolic(listed, left) == IF listed = <<>> THEN <<>> ELSE <<91>> \o Tail(listed) \o <<93>> \o Tilde(left)
Fitting(symbolic, hex, room) ==
  IF Len(symbolic \o hex) < room THEN symbolic \o hex ELSE IF Len(hex) < room THEN hex ELSE <<>>
\* bk_string_flagtoa: the names and the value, or only that when there is no room
\* for both or a name is empty
FlagToA(flags, names, room) ==
  LET said == {i \in DOMAIN names : names[i].bit \in flags} IN
  IF flags = {} THEN <<>>
  ELSE Fitting(IF \E i \in said : names[i].name = <<>> THEN <<>>
               ELSE Symbolic(Named(flags, names), flags \ {names[i].bit : i \in said}),
               Hex(ValueOf(flags)), room)

\* The names as one string: each after its bit
Joined(names) ==
  LET all[k \in 0 .. Len(names)] ==
        IF k = 0 THEN <<>> ELSE all[k - 1] \o <<names[k].bit>> \o names[k].name
  IN all[Len(names)]
\* Where bk_strstrn finds a name first, and whether that is the whole of one
FoundAt(tok, list) ==
  {i \in 2 .. Len(list) + 1 - Len(tok) : SubSeq(list, i, i + Len(tok) - 1) = tok}
BitAt(tok, list, i) == IF At(list, i + Len(tok)) > 32 \/ list[i - 1] > 32 THEN 0 ELSE list[i - 1]
BitNamed(tok, list) ==
  IF tok = <<>> \/ FoundAt(tok, list) = {} THEN 0 ELSE BitAt(tok, list, First(FoundAt(tok, list)))
RECURSIVE Tokens(_, _, _)
\* What is between the commas from a place to the end; a comma there ends the last one.
Tokens(s, i, end) ==
  IF i >= end THEN {}
  ELSE LET commas == {k \in Places(s, 44) : k >= i}
           sep == IF commas = {} THEN end ELSE First(commas)
       IN {SubSeq(s, i, sep - 1)} \cup Tokens(s, sep + 1, end)

\* The number from a place on; with nothing there but spaces it fails.
Read(r) == [ret |-> r.ret, flags |-> FlagsOf(r.value)]
HexFrom(s, i) ==
  Read(AtoU32(SubSeq(s, IF i > 1 /\ At(s, PastSpaces(s, i)) = 0 THEN i - 1 ELSE i, Len(s)), "none"))
\* bk_string_atoflag: by the names when there are some, by the number behind a
\* tilde, or when a name is not known
ByNames(s, from, end, list, bracketed) ==
  LET bits == {BitNamed(t, list) : t \in Tokens(s, from, end)} IN
  IF 0 \notin bits THEN [ret |-> 0, flags |-> bits]
  ELSE IF bracketed THEN HexFrom(s, end + 1)
  ELSE [ret |-> -1, flags |-> {}]
AtoFlag(s, names) ==
  IF Places(s, 126) # {} THEN HexFrom(s, Final(Places(s, 126)) + 1)
  ELSE IF At(s, 1) = 91 /\ Places(s, 93) # {}
  THEN ByNames(s, 2, Final(Places(s, 93)), Joined(names), TRUE)
  ELSE IF At(s, 1) \notin 48 .. 57 THEN ByNames(s, 1, Len(s) + 1, Joined(names), FALSE)
  ELSE HexFrom(s, 1)

\* bk_string_symboltoa and bk_string_atosymbol: the first that matches
SymbolToA(value) ==
  LET is == {i \in DOMAIN Symbols : Symbols[i].value = value} IN
  IF is = {} THEN <<>> ELSE Symbols[First(is)].name
Lower(s) == [i \in DOMAIN s |-> IF s[i] \in 65 .. 90 THEN s[i] + 32 ELSE s[i]]
AtoSymbol(name, caseless) ==
  LET is == {i \in DOMAIN Symbols : Symbols[i].name = name
                                    \/ (caseless /\ Lower(Symbols[i].name) = Lower(name))} IN
  IF is = {} THEN [ret |-> 1, value |-> 0] ELSE [ret |-> 0, value |-> Symbols[First(is)].value]
-----------------------------------------------------------------------------
Next ==
  \/ \E c \in Digits :
       Len(scIn) < MaxDigits /\ scFlags = {} /\ scIn' = Append(scIn, c) /\ UNCHANGED scFlags
  \/ \E b \in Bit \ scFlags : scIn = <<>> /\ scFlags' = scFlags \cup {b} /\ UNCHANGED scIn

Spec == Init /\ [][Next]_scvars
-----------------------------------------------------------------------------
\* What is returned for parts p, whose number is n, when that fits or does not
Is(r, p, n, fits, value) ==
  /\ n < 2 ^ Wide => (r.ret >= 0 <=> (p.empty \/ p.digits >= 0) /\ fits)
  /\ r.ret >= 0 => r.value % 2 ^ Narrow = value % 2 ^ Narrow
  /\ r.ret >= 0 /\ n < 2 ^ Wide => r.value = value
  /\ r.ret = 0 => p.clean /\ p.past > p.from
Whole(p, n, bits) == p.empty \/ (p.sign = 1 /\ n < 2 ^ bits)
Half(p, n, bits) == p.empty \/ (p.sign * n >= -(2 ^ (bits - 1)) /\ p.sign * n < 2 ^ (bits - 1))
ConvertsTo(s, flag, p, n) ==
  /\ Is(AtoU32(s, flag), p, n, Whole(p, n, Narrow), n)
  /\ Is(AtoU64(s, flag), p, n, Whole(p, n, Wide), n)
  /\ Is(AtoI32(s, flag), p, n, Half(p, n, Narrow), p.sign * n)
  /\ Is(AtoT(s, flag), p, n, Half(p, n, Narrow), p.sign * n)
  /\ Is(AtoI64(s, flag), p, n, Half(p, n, Wide), p.sign * n)
\* A number that the widest type can hold is converted when and only when the
\* type asked for can hold it, to what is written, and 0 is returned when that is
\* all there is.  One that is wider is refused, or wraps (b_strconv.c:376).
NumbersTrue ==
  \A flag \in {"none", "HEX", "DEC", "OCT"} :
    \E p \in {Parts(scIn, flag)} : ConvertsTo(scIn, flag, p, Number(scIn, p))

\* Flags written with any names or none, in any room that holds their number, are read
\* back the same, also by one who does not know some of the names.
FlagsComeBack ==
  \A names \in NameLists \cup {<<>>}, known \in NameLists, room \in 1 .. 14 :
    LET s == FlagToA(scFlags, names, room) IN
    scFlags # {} => /\ Len(s) < room
                    /\ s # <<>> <=> Len(Hex(ValueOf(scFlags))) < room
                    /\ s # <<>> => AtoFlag(s, known) = [ret |-> 0, flags |-> scFlags]

\* A symbol's name is read as its value, or as that of one of the same name.
SymbolsComeBack ==
  \A i \in DOMAIN Symbols, caseless \in BOOLEAN :
    LET back == AtoSymbol(SymbolToA(Symbols[i].value), caseless) IN
    /\ back.ret = 0
    /\ \/ SymbolToA(back.value) = SymbolToA(Symbols[i].value)
       \/ caseless /\ Lower(SymbolToA(back.value)) = Lower(SymbolToA(Symbols[i].value))
=============================================================================
