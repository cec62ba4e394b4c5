------------------------------- MODULE StrUtil ------------------------------
(***************************************************************************)
(* lib/b_string.c, lib/b_strcode.c and lib/b_memx.c: the functions that    *)
(* search, compare, quote, encode and grow strings, each beside what it is *)
(* to compute.  A state is three strings to try them on, a bk_vstr that is *)
(* appended to, and a bk_memx, an array that grows.                        *)
(***************************************************************************)
EXTENDS Integers, Sequences, FiniteSets

CONSTANTS
  Chars,         \* of which the strings are made
  Longest,       \* bounds the model: length of a string
  Width,         \* bits of an int
  Bufsiz,        \* BUFSIZ
  MaxVstr,       \* bounds the model: length of the bk_vstr
  Coded,         \* bounds the model: the strings that are encoded
  MaxLine,       \* MAX_LINE, the length of a line in base 64
  XmlChunk,      \* by how much the XML of a short string grows
  MemxSizes,     \* start_hint and incr_hint of a bk_memx, pairs
  MaxMemx        \* bounds the model: length of the bk_memx

VARIABLES
  suA, suB, suC, \* the strings
  suVstr,        \* cur and max of a bk_vstr, what was appended, and how often it grew
  suMemx,        \* a bk_memx, and whether it is used for a string
  suHeld         \* what was put into the bk_memx and not taken away

suvars == <<suA, suB, suC, suVstr, suMemx, suHeld>>

\* bk_memx_create: an array of which nothing is used
Garbage == -1
OneAtLeast(hint) == IF hint < 1 THEN 1 ELSE hint
MemxCreate(start, incr) ==
  suMemx \in [array : {[i \in 1 .. OneAtLeast(start) |-> Garbage]}, used : {0},
              incr : {OneAtLeast(incr)}, string : BOOLEAN]

Init ==
  /\ suA = <<>> /\ suB = <<>> /\ suC = <<>>
  /\ suVstr = [cur |-> 0, max |-> 1, said |-> 0, tries |-> 0]
  /\ \E size \in MemxSizes : MemxCreate(size[1], size[2])
  /\ suHeld = <<>>

Least(is) == CHOOSE i \in is : \A k \in is : i <= k
Greatest(is) == CHOOSE i \in is : \A k \in is : i >= k
-----------------------------------------------------------------------------
(* Searching *)

Sub(s, i, n) == SubSeq(s, i, i + n - 1)

\* Mutant: after a false start the search goes on behind the whole needle
BehindNeedle(q, n) == q + Len(n)
Onward(q, n) == q + 1
\* memchr for the needle's first character, then memcmp there
RECURSIVE Scan(_, _, _)
Scan(h, n, p) ==
  LET upper == Len(h) + 1 - Len(n)  qs == {q \in p .. upper : h[q] = n[1]} IN
  IF qs = {} THEN 0
  ELSE IF Sub(h, Least(qs), Len(n)) = n THEN Least(qs) ELSE Scan(h, n, Onward(Least(qs), n))
MemMem(h, n) == IF Len(h) >= Len(n) THEN Scan(h, n, 1) ELSE 0
\* A buffer up to its NUL; bk_strnlen, which looks at the one after max, and
\* bk_strndup
CString(buf) == SubSeq(buf, 1, Least({i \in DOMAIN buf : buf[i] = 0}) - 1)
StrNLen(buf, max) == IF Len(CString(buf)) > max THEN -1 ELSE Len(CString(buf))
StrNDup(buf, len) == LET s == CString(buf) IN IF Len(s) <= len THEN s ELSE SubSeq(s, 1, len)
\* bk_strnstr and bk_strstrn: the needle or the haystack ends with a NUL
StrNStr(h, buf, len) == MemMem(SubSeq(h, 1, len), CString(buf))
StrStrN(buf, n, nlen) == MemMem(CString(buf), SubSeq(n, 1, nlen))
Occurs(h, n) == {q \in 1 .. Len(h) + 1 - Len(n) : Sub(h, q, Len(n)) = n}

\* A plain char has a sign.
Char(c) == IF c > 127 THEN c - 256 ELSE c

\* bk_memrchr, bk_mempbrk, bk_string_rip: the last of a character, given as an int,
\* the first of a set, and what is before that
RECURSIVE MemRChrFrom(_, _, _)
MemRChrFrom(s, c, p) == IF p = 0 THEN 0 ELSE IF Char(s[p]) = c THEN p ELSE MemRChrFrom(s, c, p - 1)
MemRChr(s, c) == MemRChrFrom(s, c, Len(s))
RECURSIVE MemPBrkFrom(_, _, _)
MemPBrkFrom(s, set, p) == IF p > Len(s) THEN 0 ELSE IF s[p] \in set THEN p ELSE MemPBrkFrom(s, set, p + 1)
MemPBrk(s, set) == MemPBrkFrom(s, set, 1)
Rip(s, set) == IF MemPBrk(s, set) = 0 THEN s ELSE SubSeq(s, 1, MemPBrk(s, set) - 1)
-----------------------------------------------------------------------------
(* Comparing *)

\* bk_memdiff: i is unsigned, the result an int
Modulus == 2 ^ Width
AsInt(u) == LET m == u % Modulus IN IF m >= Modulus \div 2 THEN m - Modulus ELSE m
\* Mutant: a difference does not count the character it is at
NotCounted(k) == k - 1
Counted(k) == k
MemDiff(a, b) ==
  LET m == IF Len(a) < Len(b) THEN Len(a) ELSE Len(b)
      ds == {k \in 1 .. m : a[k] # b[k]}
      res == IF ds = {} THEN 0 ELSE a[Least(ds)] - b[Least(ds)]
      i == 256 * ((IF ds = {} THEN m ELSE Counted(Least(ds))) + 1) - Modulus \div 2
  IN IF res = 0 /\ Len(a) = Len(b) THEN 0
     ELSE AsInt((IF res > 0 \/ (res = 0 /\ Len(a) > Len(b)) THEN -i ELSE i) + res)

\* Lexicographic order
RECURSIVE Less(_, _)
Less(a, b) ==
  IF b = <<>> THEN FALSE ELSE IF a = <<>> THEN TRUE
  ELSE IF a[1] # b[1] THEN a[1] < b[1] ELSE Less(Tail(a), Tail(b))
Sign(n) == IF n < 0 THEN -1 ELSE IF n > 0 THEN 1 ELSE 0
Order(a, b) == IF a = b THEN 0 ELSE IF Less(a, b) THEN -1 ELSE 1

\* bk_strnspacecmp: the end of the first string is looked at whatever is left of
\* the second
Space == 32
Skip(s, i) == Least({k \in i .. Len(s) + 1 : k = Len(s) + 1 \/ s[k] # Space})
\* Mutant: one white space matches one, not a run of them
SkipOne(s, i) == i + 1
SkipRun(s, i) == Skip(s, i)
RECURSIVE SpaceCmpFrom(_, _, _, _)
SpaceCmpFrom(a, b, i, k) ==
  IF i > Len(a) \/ k > Len(b) THEN Len(a) - i + 1
  ELSE IF a[i] = Space /\ b[k] = Space THEN SpaceCmpFrom(a, b, SkipRun(a, i), SkipRun(b, k))
  ELSE IF a[i] # b[k] THEN Char(a[i]) - Char(b[k])
  ELSE SpaceCmpFrom(a, b, i + 1, k + 1)
SpaceCmp(a, b) == SpaceCmpFrom(a, b, 1, 1)
\* A string with one space for every run of them
RECURSIVE Squeezed(_)
Squeezed(s) ==
  IF s = <<>> THEN <<>>
  ELSE IF s[1] = Space THEN <<Space>> \o Squeezed(SubSeq(s, Skip(s, 1), Len(s)))
  ELSE <<s[1]>> \o Squeezed(Tail(s))
Signed(s) == [i \in DOMAIN s |-> Char(s[i])]
IsPrefixOf(a, b) == Len(a) <= Len(b) /\ SubSeq(b, 1, Len(a)) = a
-----------------------------------------------------------------------------
(* Quoting *)

Quote == 34
\* bk_string_csv_quote, and the \0 that stops in the middle of a pair
RECURSIVE CsvQuote(_, _)
CsvQuote(s, room) ==
  IF s = <<>> \/ room = 0 THEN <<>>
  ELSE LET out == IF s[1] = Quote THEN <<Quote, Quote>> ELSE <<s[1]>> IN
       IF Len(out) > room THEN <<Quote>> ELSE out \o CsvQuote(Tail(s), room - Len(out))
RECURSIVE CsvUnquote(_)
CsvUnquote(s) ==
  IF s = <<>> THEN <<>>
  ELSE <<s[1]>> \o CsvUnquote(SubSeq(s, IF s[1] = Quote THEN 3 ELSE 2, Len(s)))
-----------------------------------------------------------------------------
(* Growing *)

\* Mutant: room for the characters, and none for the NUL
NoNul(max, available, n) == max + n - available - 1
Precisely(max, available, n) == max + n - available + 1

\* bk_vstr_cat makes room until vsnprintf has enough of it
Grown(max, cur, n, stingy) ==
  LET available == max - cur - 1 IN
  IF stingy THEN Precisely(max, available, n)
  ELSE IF n - available >= Bufsiz THEN max + Bufsiz * (1 + n \div Bufsiz)
  ELSE IF max > Bufsiz THEN max + Bufsiz
  ELSE IF n < max * 2 THEN max + max
  ELSE Precisely(max, available, n)
RECURSIVE Cat(_, _, _, _)
Cat(v, n, stingy, tries) ==
  IF n <= v.max - v.cur - 1
  THEN [cur |-> v.cur + n, said |-> v.said + n, tries |-> tries,
        max |-> IF stingy /\ v.max > v.cur + n + 1 THEN v.cur + n + 1 ELSE v.max]
  ELSE IF tries > 8 THEN [v EXCEPT !.tries = tries]
  ELSE Cat([v EXCEPT !.max = Grown(v.max, v.cur, n, stingy)], n, stingy, tries + 1)
VstrCat(n, stingy) ==
  /\ suVstr.said + n <= MaxVstr
  /\ suVstr' = Cat(suVstr, n, stingy, 0)
  /\ UNCHANGED <<suA, suB, suC, suMemx, suHeld>>

\* bk_string_alloc_vsprintf: how much it allocates for n characters
RECURSIVE AllocSize(_, _)
AllocSize(size, n) == IF n < size THEN size ELSE AllocSize(n + 1, n)
\* bk_string_unique_string: how many digits are written into len bytes, by words
\* of 8
RECURSIVE UniqueLen(_)
UniqueLen(len) == IF len > 8 THEN 8 + UniqueLen(len - 8) ELSE IF len = 0 THEN 0 ELSE len - 1
-----------------------------------------------------------------------------
(* Encoding *)

\* A character of base 64 is the number it stands for (basis_64, index_64); any
\* character that stands for none is passed over.
Pad == 64
Eol == 65
Lesser(a, b) == IF a <= b THEN a ELSE b

\* Up to three bytes are four characters.
Group(s) ==
  CASE Len(s) = 1 -> <<s[1] \div 4, (s[1] % 4) * 16, Pad, Pad>>
    [] Len(s) = 2 -> <<s[1] \div 4, (s[1] % 4) * 16 + s[2] \div 16, (s[2] % 16) * 4, Pad>>
    [] Len(s) = 3 -> <<s[1] \div 4, (s[1] % 4) * 16 + s[2] \div 16, (s[2] % 16) * 4 + s[3] \div 64, s[3] % 64>>
RECURSIVE GroupsFrom(_, _, _)
GroupsFrom(s, chunk, eol) ==
  IF s = <<>> THEN <<>>
  ELSE LET full == chunk = MaxLine \div 4  n == Lesser(3, Len(s)) IN
       (IF full THEN eol ELSE <<>>) \o Group(SubSeq(s, 1, n))
         \o GroupsFrom(SubSeq(s, n + 1, Len(s)), IF full THEN 1 ELSE chunk + 1, eol)
EncodeBase64(s, eol) == GroupsFrom(s, 0, eol) \o eol
\* What is allocated for n bytes
EncodeRoom(n, eol) == LET rlen == 4 * (1 + n \div 3) IN rlen + ((rlen - 1) \div MaxLine + 1) * Len(eol) + 1

\* Four characters at a time, those that are missing at the end being padding
RECURSIVE DecodeBase64(_)
DecodeBase64(t) ==
  LET valid == {k \in DOMAIN t : t[k] # Eol}
      stop == IF Cardinality(valid) < 4 THEN Len(t)
              ELSE CHOOSE k \in valid : Cardinality({j \in valid : j <= k}) = 4
      got == SelectSeq(SubSeq(t, 1, stop), LAMBDA ch : ch # Eol)
      c == got \o <<Pad, Pad>>
  IN IF Len(got) < 2 \/ c[1] = Pad \/ c[2] = Pad THEN <<>>
     ELSE <<(c[1] * 4 + c[2] \div 16) % 256>>
          \o (IF c[3] = Pad THEN <<>> ELSE <<(c[2] % 16) * 16 + c[3] \div 4>>
          \o (IF c[4] = Pad THEN <<>> ELSE <<(c[3] % 4) * 64 + c[4]>>
          \o DecodeBase64(SubSeq(t, stop + 1, Len(t)))))

IsSpace(c) == c \in 9 .. 13 \cup {Space}
IsPrint(c) == c \in 32 .. 126
HexDigit(d) == IF d < 10 THEN 48 + d ELSE 87 + d

\* bk_string_str2xml: "&#x..;", "&lt;", "&gt;", "&amp;" or the character
ByNumber(c, flags) ==
  \/ ~IsPrint(c) /\ "ALLOW_NON_PRINT" \notin flags /\ ~IsSpace(c)
  \/ "ENCODE_WHITESPACE" \in flags /\ IsSpace(c)
Entity(c, flags) ==
  IF ByNumber(c, flags) THEN <<38, 35, 120, HexDigit(c \div 16), HexDigit(c % 16), 59>>
  ELSE CASE c = 60 -> <<38, 108, 116, 59>>
         [] c = 62 -> <<38, 103, 116, 59>>
         [] c = 38 -> <<38, 97, 109, 112, 59>>
         [] c \notin {38, 60, 62} -> <<c>>

\* The buffer grows when fewer than GROW bytes are left of it.
GROW == 8
RECURSIVE XmlFrom(_, _, _, _)
XmlFrom(s, flags, chunk, b) ==
  IF s = <<>> THEN b
  ELSE LET add == Entity(s[1], flags)
           left == b.left - Len(add)
           more == IF left < GROW THEN chunk ELSE 0
       IN XmlFrom(Tail(s), flags, chunk,
                  [text |-> b.text \o add, left |-> left + more, len |-> b.len + more, fits |-> b.fits /\ left >= 0])
Str2Xml(s, flags) ==
  LET chunk == IF Len(s) \div 8 > XmlChunk THEN Len(s) \div 8 ELSE XmlChunk
      len == Len(s) + chunk
  IN XmlFrom(s, flags, chunk, [text |-> <<>>, left |-> len, len |-> len, fits |-> TRUE])

\* bk_string_xml_escape_comment: a hyphen is "&#45;" when another follows it.
Hyphen == 45
HyphenCode == <<38, 35, 52, 53, 59>>
RECURSIVE EscapedFrom(_, _)
EscapedFrom(s, hyphen) ==
  LET behind == IF hyphen THEN <<Hyphen>> ELSE <<>> IN
  IF s = <<>> THEN behind
  ELSE IF s[1] = Hyphen THEN (IF hyphen THEN HyphenCode ELSE <<>>) \o EscapedFrom(Tail(s), TRUE)
  ELSE behind \o <<s[1]>> \o EscapedFrom(Tail(s), FALSE)
EscapeComment(s) == EscapedFrom(s, FALSE)
EscapeRoom(s) == Cardinality({i \in DOMAIN s : s[i] = Hyphen}) * Len(HyphenCode) + Len(s) + 1

\* What a reader makes of entities
RECURSIVE Unescaped(_)
Unescaped(t) ==
  IF t = <<>> THEN <<>>
  ELSE IF t[1] # 38 THEN <<t[1]>> \o Unescaped(Tail(t))
  ELSE LET e == Least({i \in DOMAIN t : t[i] = 59})
           digit(d) == IF d < 58 THEN d - 48 ELSE d - 87
           c == CASE t[2] = 108 -> 60 [] t[2] = 103 -> 62 [] t[2] = 97 -> 38
                  [] t[2] = 35 /\ t[3] = 120 -> 16 * digit(t[4]) + digit(t[5])
                  [] t[2] = 35 /\ t[3] # 120 -> 10 * digit(t[3]) + digit(t[4])
       IN <<c>> \o Unescaped(SubSeq(t, e + 1, Len(t)))
-----------------------------------------------------------------------------
(* An array that grows *)

Alloc == Len(suMemx.array)
Only(memx) == suMemx' = memx /\ UNCHANGED <<suA, suB, suC, suVstr>>

\* bk_memx_get of n new units: at least so many more as the increment says, or as
\* many as are missing
Extended(n) ==
  LET missing == n - (Alloc - suMemx.used)
      more == IF missing > suMemx.incr THEN missing ELSE suMemx.incr
  IN IF suMemx.used + n > Alloc THEN suMemx.array \o [i \in 1 .. more |-> Garbage] ELSE suMemx.array
\* Units are written from the i-th on.
Write(array, i, units) == [k \in DOMAIN array |-> IF k \in i .. i + Len(units) - 1 THEN units[k - i + 1] ELSE array[k]]
Putting(units, i, n) ==
  Only([suMemx EXCEPT !.array = Write(Extended(n), i, units), !.used = @ + n])

\* bk_memx_append
MemxAppend(units) ==
  /\ ~suMemx.string /\ units # <<>>
  /\ Putting(units, suMemx.used + 1, Len(units))
  /\ suHeld' = suHeld \o units

\* bk_memx_addstr: the next string begins where the NUL of the last one is.
MemxAddStr(str) ==
  /\ suMemx.string /\ (suMemx.used > 0 => str # <<>>)
  /\ LET before == suMemx.used > 0 IN
     Putting(Append(str, 0), IF before THEN suMemx.used ELSE 1, IF before THEN Len(str) ELSE Len(str) + 1)
  /\ suHeld' = suHeld \o str

\* bk_memx_trunc; a string is only thrown away whole.
MemxTrunc(count) ==
  /\ suMemx.string => count = 0
  /\ Only([suMemx EXCEPT !.used = Lesser(count, @)])
  /\ suHeld' = SubSeq(suHeld, 1, Lesser(count, Len(suHeld)))

\* bk_memx_lop of as many as there are, at most
MemxLop(count) ==
  /\ ~suMemx.string /\ count <= suMemx.used
  /\ Only([suMemx EXCEPT !.array = Write(@, 1, SubSeq(@, count + 1, suMemx.used)), !.used = @ - count])
  /\ suHeld' = SubSeq(suHeld, count + 1, Len(suHeld))

MemxDoes ==
  /\ suVstr.said = 0 /\ suA = <<>> /\ suB = <<>> /\ suC = <<>>
  /\ \/ \E n \in 0 .. MaxMemx - Len(suHeld) :
          LET units == [i \in 1 .. n |-> Len(suHeld) + i] IN MemxAppend(units) \/ MemxAddStr(units)
     \/ \E count \in 0 .. MaxMemx : MemxTrunc(count) \/ MemxLop(count)
-----------------------------------------------------------------------------
\* Bounds the model: strings are tried beside one array, that is as it was made.
OneArray == suMemx = [array |-> <<Garbage>>, used |-> 0, incr |-> 1, string |-> FALSE]
Try(c) ==
  /\ suVstr.said = 0 /\ OneArray /\ UNCHANGED <<suVstr, suMemx, suHeld>>
  /\ \/ Len(suA) < Longest /\ suB = <<>> /\ suC = <<>> /\ suA' = Append(suA, c) /\ UNCHANGED <<suB, suC>>
     \/ Len(suB) < Longest /\ suC = <<>> /\ suB' = Append(suB, c) /\ UNCHANGED <<suA, suC>>
     \/ Len(suC) < Longest /\ suC' = Append(suC, c) /\ UNCHANGED <<suA, suB>>

Next ==
  \/ \E c \in Chars : Try(c)
  \/ /\ suA = <<>> /\ suB = <<>> /\ suC = <<>> /\ OneArray
     /\ \E n \in 0 .. MaxVstr, stingy \in BOOLEAN : VstrCat(n, stingy)
  \/ MemxDoes

Spec == Init /\ [][Next]_suvars
-----------------------------------------------------------------------------
\* A search finds the first place where the needle is, or the last one of the
\* character, and nothing when there is none.
SearchTrue ==
  /\ suB # <<>> =>
       LET found == IF Occurs(suA, suB) = {} THEN 0 ELSE Least(Occurs(suA, suB)) IN
       /\ MemMem(suA, suB) = found
       /\ StrNStr(suA \o suC, suB \o <<0>> \o suC, Len(suA)) = found
       /\ StrStrN(suA \o <<0>> \o suB, suB \o suC, Len(suB)) = found
  /\ \A n \in 0 .. Longest :
       StrNLen(suA \o <<0>> \o suB, n) = (IF StrNDup(suA \o <<0>>, n) = suA THEN Len(suA) ELSE -1)
  /\ \A c \in Chars :
       LET is == {i \in DOMAIN suA : suA[i] = c} IN
       /\ MemRChr(suA, Char(c)) = (IF is = {} THEN 0 ELSE Greatest(is))
       /\ MemPBrk(suA, {c}) = (IF is = {} THEN 0 ELSE Least(is))
       /\ \A i \in DOMAIN Rip(suA, {c}) : Rip(suA, {c})[i] # c

\* The distance of two strings has the sign of their order, turns about with
\* them, and is the greater the farther the strings are (b_string.c:1742).
DiffOrders ==
  LET ab == MemDiff(suA, suB) ac == MemDiff(suA, suC) bc == MemDiff(suB, suC) IN
  /\ Sign(ab) = Order(suA, suB) /\ ab = -MemDiff(suB, suA)
  /\ ac > ab => bc > 0
  /\ ab > 0 => ac >= bc /\ MemDiff(suC, suB) >= MemDiff(suC, suA)

\* Strings that differ in how much white space there is are equal, and two of
\* which neither begins the other are in the order of their characters, those
\* beyond 127 first.
SpaceIgnored ==
  LET a == Squeezed(suA) b == Squeezed(suB) IN
  /\ a = b => SpaceCmp(suA, suB) = 0
  /\ ~IsPrefixOf(a, b) => Sign(SpaceCmp(suA, suB)) = Order(Signed(a), Signed(b))

\* bk_strnspacecmp "is like strncasecmp(3)" (b_string.c:1641), for which characters
\* have no sign.
SpaceOrdersBytes ==
  LET a == Squeezed(suA) b == Squeezed(suB) IN
  ~IsPrefixOf(a, b) => Sign(SpaceCmp(suA, suB)) = Order(a, b)

\* bk_memrchr finds "the final occurrence of character" (b_string.c:1697), as
\* memrchr(3) does, whether the caller's int has the character's sign or not.
RChrFinds == \A c \in Chars : MemRChr(suA, c) = MemRChr(suA, Char(c))

\* "strings are considered identical only if all characters in the both strings
\* are matched" (b_string.c:1643).
AllMatched == SpaceCmp(suA, suB) = 0 => Squeezed(suA) = Squeezed(suB)

\* What is quoted comes back, and what does not fit is the beginning of it.
CsvTrue ==
  LET all == CsvQuote(suA, 2 * Len(suA)) IN
  /\ CsvUnquote(all) = suA
  /\ \A room \in 0 .. Len(all) : CsvQuote(suA, room) = SubSeq(all, 1, room)

\* What is encoded comes back, and had room: a line of base 64 is no longer than
\* it may be, XML has no character that means something else, and no comment ends
\* early for two hyphens.
CodesTrue ==
  \A s \in Coded :
    /\ \A eol \in {<<>>, <<Eol>>, <<Eol, Eol>>} :
         LET t == EncodeBase64(s, eol) IN
         /\ DecodeBase64(t) = s /\ Len(t) < EncodeRoom(Len(s), eol)
         /\ \A i \in DOMAIN t : i + MaxLine <= Len(t) /\ eol # <<>> => \E k \in i .. i + MaxLine : t[k] = Eol
    /\ \A flags \in SUBSET {"ALLOW_NON_PRINT", "ENCODE_WHITESPACE"} :
         LET x == Str2Xml(s, flags) IN
         /\ x.fits /\ Len(x.text) < x.len /\ Unescaped(x.text) = s
         /\ \A i \in DOMAIN x.text : x.text[i] \notin {60, 62} /\ (flags = {} => IsPrint(x.text[i]) \/ IsSpace(x.text[i]))
    /\ LET t == EscapeComment(s) IN
       /\ Len(t) < EscapeRoom(s)
       /\ \A i \in 1 .. Len(t) - 1 : <<t[i], t[i + 1]>> # <<Hyphen, Hyphen>>
       /\ (\A i \in DOMAIN s : s[i] # 38) => Unescaped(t) = s

\* White space is encoded "other than SP (ASCII 0x20)" (b_strcode.c:351).
SpaceKept == Str2Xml(<<Space>>, {"ENCODE_WHITESPACE"}).text = <<Space>>

\* A bk_memx holds what was put in and not taken away, a string with its NUL, in
\* as much memory as there is.
MemxHolds ==
  /\ suMemx.used <= Alloc
  /\ SubSeq(suMemx.array, 1, suMemx.used) =
       IF suMemx.string /\ suMemx.used > 0 THEN Append(suHeld, 0) ELSE suHeld

\* A bk_vstr holds all that was appended and its NUL, after few allocations.
VstrHolds ==
  /\ suVstr.cur = suVstr.said /\ suVstr.cur < suVstr.max /\ suVstr.tries <= 8
  /\ \A n \in 0 .. 2 * Longest : AllocSize(Longest, n) > n /\ (n > 0 => UniqueLen(n) = n - 1)
=============================================================================
