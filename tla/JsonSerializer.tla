--------------------------- MODULE JsonSerializer ---------------------------
(***************************************************************************)
(* dump (nlohmann/detail/output/serializer.hpp): how SportClient turns its *)
(* parameters into the text of a request.  The output is a sequence of     *)
(* bytes; a -1 in it stands for the exception that ended the dump.         *)
(*                                                                         *)
(* ascii is ensure_ascii, handler the error handler for bytes that are not *)
(* UTF-8; step is the indentation, 0 when the output is not pretty-printed.*)
(***************************************************************************)
EXTENDS Double, JsonValue, JsonUnicode

-----------------------------------------------------------------------------
(***************************************************************************)
(* How the JSON library writes a double (detail/conversions/to_chars.hpp): *)
(* the Grisu2 algorithm, which finds a short decimal number between the    *)
(* neighbours of the double with 64-bit integers, and its formatting.      *)
(*                                                                         *)
(* The table of cached powers of ten is modelled by what its entries are:  *)
(* 10^k rounded to 64 bits.                                                *)
(***************************************************************************)

\* A number f * 2^e with f below 2^64.
Diyfp(f, e) == [f |-> f, e |-> e]

\* mul: the upper 64 bits of the product, rounded.
DiyfpMul(x, y) ==
  Diyfp(ShiftRight(Plus(Times(x.f, y.f), ShiftLeft(<<1>>, 63)), 64), x.e + y.e + 64)

Normalize(x) == LET n == 64 - BitLength(x.f) IN Diyfp(ShiftLeft(x.f, n), x.e - n)
NormalizeTo(x, e) == Diyfp(ShiftLeft(x.f, x.e - e), e)

\* The double and the middles between it and its neighbours; the lower
\* neighbour is nearer when the fraction is zero.
Boundaries(v, closer) ==
  LET plus  == Normalize(Diyfp(Plus(ShiftLeft(v.f, 1), <<1>>), v.e - 1))
      down  == IF closer THEN 2 ELSE 1
      minus == Diyfp(Minus(ShiftLeft(v.f, down), <<1>>), v.e - down)
  IN  [w |-> Normalize(v), minus |-> NormalizeTo(minus, plus.e), plus |-> plus]

ComputeBoundaries(bits) ==
  Boundaries(Diyfp(Significand(Binary64, bits), PowerOf(Binary64, bits)),
             FractionField(Binary64, bits) = << >> /\ ExponentField(Binary64, bits) > 1)

\* 10^k rounded to 64 bits.
Rounded(n, d, e) == Diyfp(ToEven(InUnits(n, d, e)), e)

PowerOfTen(k) ==
  LET n == IF k > 0 THEN Power10(k) ELSE <<1>>
      d == IF k < 0 THEN Power10(-k) ELSE <<1>>
  IN  Rounded(n, d, UnitOf(64, n, d, BitLength(n) - BitLength(d) - 64))

\* get_cached_power_for_binary_exponent: which of the powers -300, -292, ...
CachedExponent(e) ==
  LET f == -60 - e - 1
      k == IF f > 0 THEN (f * 78913) \div 262144 + 1 ELSE -((-f * 78913) \div 262144)
  IN  -300 + 8 * ((300 + k + 7) \div 8)

FindLargestPow10(n) == CHOOSE k \in 1 .. 10 : AtMost(Power10(k - 1), n) /\ Less(n, Power10(k))

\* grisu2_round: the last digit decreased while that brings it closer to w.
RECURSIVE Grisu2Round(_, _, _, _, _)
Grisu2Round(digits, dist, delta, rest, tenK) ==
  LET next == Plus(rest, tenK)
      n    == Len(digits)
  IN  IF /\ Less(rest, dist) /\ AtMost(tenK, Minus(delta, rest))
         /\ Less(next, dist) \/ Less(Minus(next, dist), Minus(dist, rest))
      THEN Grisu2Round([digits EXCEPT ![n] = @ - 1], dist, delta, next, tenK)
      ELSE digits

\* grisu2_digit_gen: rest is what the digits so far leave of M+, n the digits
\* of the integral part still to come (then minus the fractional ones made);
\* the result is the digits and their power of ten.
RECURSIVE DigitGen(_, _, _, _, _, _)
AfterDigit(digits, rest, delta, dist, n, one, unit) ==
  IF AtMost(rest, delta) THEN <<Grisu2Round(digits, dist, delta, rest, unit), n>>
  ELSE DigitGen(digits, rest, delta, dist, n, one)

DigitGen(digits, rest, delta, dist, n, one) ==
  LET scale == IF n > 0 THEN 1 ELSE 10
      unit  == IF n > 0 THEN Times(one, Power10(n - 1)) ELSE one
      q     == Div(MulAdd(rest, scale, 0), unit)
  IN  AfterDigit(Append(digits, Number(q[1])), q[2], MulAdd(delta, scale, 0), MulAdd(dist, scale, 0), n - 1, one, unit)

\* grisu2_digit_gen, between M- and M+.
Generated(w, low, high) ==
  LET one == ShiftLeft(<<1>>, -w.e)
      n   == FindLargestPow10(ShiftRight(high, -w.e))
  IN  DigitGen(<< >>, high, Minus(high, low), Minus(high, w.f), n, one)

\* grisu2: <<digits, decimal exponent>> of a positive double, given its
\* boundaries.  The products are off by less than one unit, so the interval
\* shrinks by one.
Between(b, c) ==
  Generated(DiyfpMul(b.w, c), Plus(DiyfpMul(b.minus, c).f, <<1>>), Minus(DiyfpMul(b.plus, c).f, <<1>>))

Grisu2(b) ==
  LET k == CachedExponent(b.plus.e)
  IN  [Between(b, PowerOfTen(k)) EXCEPT ![2] = @ - k]

-----------------------------------------------------------------------------
\* At least two digits, as printf does.
AppendExponent(e) ==
  LET k == IF e < 0 THEN -e ELSE e
  IN  <<IF e < 0 THEN 45 ELSE 43>>
      \o IF k < 100 THEN <<48 + k \div 10, 48 + (k % 10)>>
         ELSE <<48 + k \div 100, 48 + ((k \div 10) % 10), 48 + (k % 10)>>

\* format_buffer: fixed notation from 10^-4 to 10^15, exponents outside.
FormatBuffer(g) ==
  LET k       == Len(g[1])
      n       == k + g[2]
      text    == [i \in 1 .. k |-> 48 + g[1][i]]
      zeros(i) == [j \in 1 .. i |-> 48]
  IN  IF k <= n /\ n <= 15 THEN text \o zeros(n - k) \o <<46, 48>>
      ELSE IF 0 < n /\ n <= 15 THEN SubSeq(text, 1, n) \o <<46>> \o SubSeq(text, n + 1, k)
      ELSE IF -4 < n /\ n <= 0 THEN <<48, 46>> \o zeros(-n) \o text
      ELSE <<text[1]>> \o (IF k = 1 THEN << >> ELSE <<46>> \o Tail(text)) \o <<101>> \o AppendExponent(n - 1)

\* to_chars: the sign bit decides the sign, so that -0.0 keeps it.
ToChars(bits) ==
  LET sign  == IF IsNegative(bits) THEN <<45>> ELSE << >>
      value == [bits EXCEPT ![1] = @ % 128]
  IN  sign \o IF DoubleIsZero(value) THEN <<48, 46, 48>> ELSE FormatBuffer(Grisu2(ComputeBoundaries(value)))

-----------------------------------------------------------------------------
(***************************************************************************)
(* The serializer.                                                         *)
(***************************************************************************)
Thrown == <<-1>>

Throws(out) == \E i \in DOMAIN out : out[i] = -1

ShortEscapes == << <<8, 98>>, <<9, 116>>, <<10, 110>>, <<12, 102>>, <<13, 114>>, <<34, 34>>, <<92, 92>> >>

\* What an accepted code point appends; its bytes but the last are there.
Accepted(codepoint, byte, ascii) ==
  LET short == {i \in DOMAIN ShortEscapes : ShortEscapes[i][1] = codepoint}
  IN  IF short # {} THEN <<92, ShortEscapes[CHOOSE i \in short : TRUE][2]>>
      ELSE IF codepoint > 31 /\ ~(ascii /\ codepoint >= 127) THEN <<byte>>
      ELSE Escaped(codepoint)

Replacement(ascii) == IF ascii THEN UnicodeHex(65533) ELSE <<239, 191, 189>>

\* The string from its i-th byte on: what is buffered, the length of the
\* buffer after the last accepted character, the bytes since then.
RECURSIVE EscapeFrom(_, _, _, _, _, _, _, _, _)
EscapeFrom(s, i, state, codepoint, buffer, kept, pending, ascii, handler) ==
  LET d      == Decode(state, codepoint, s[i])
      whole  == buffer \o Accepted(d[2], s[i], ascii)
      valid  == SubSeq(buffer, 1, kept)
      fixed  == IF handler = "replace" THEN valid \o Replacement(ascii) ELSE valid
      again  == IF pending > 0 THEN i ELSE i + 1
      partly == IF ascii THEN buffer ELSE Append(buffer, s[i])
  IN  IF i > Len(s)
      THEN IF state = Accept0 THEN buffer ELSE IF handler = "strict" THEN Thrown ELSE fixed
      ELSE IF d[1] = Accept0 THEN EscapeFrom(s, i + 1, Accept0, d[2], whole, Len(whole), 0, ascii, handler)
      ELSE IF d[1] # Reject1 THEN EscapeFrom(s, i + 1, d[1], d[2], partly, kept, pending + 1, ascii, handler)
      ELSE IF handler = "strict" THEN Thrown
      ELSE EscapeFrom(s, again, Accept0, d[2], fixed, Len(fixed), 0, ascii, handler)

DumpEscaped(s, ascii, handler) == EscapeFrom(s, 1, Accept0, 0, << >>, 0, 0, ascii, handler)

-----------------------------------------------------------------------------
\* The decimal digits of a magnitude: two at a time from the end.
RECURSIVE DigitsFrom(_)
TwoDigits(n)  == <<48 + n \div 10, 48 + (n % 10)>>
DigitsOver(d) == DigitsFrom(d[1]) \o TwoDigits(Number(d[2]))

DigitsFrom(m) ==
  IF Less(m, <<10>>) THEN <<48 + Number(m)>>
  ELSE IF Less(m, <<100>>) THEN TwoDigits(Number(m))
  ELSE DigitsOver(Div(m, <<100>>))

DumpInteger(neg, m) == (IF neg THEN <<45>> ELSE << >>) \o DigitsFrom(m)

\* Infinities and NaN have no text and become null.
DumpFloat(bits) == IF IsFinite(Binary64, bits) THEN ToChars(bits) ELSE <<110, 117, 108, 108>>

Spaces(n) == [i \in 1 .. n |-> 32]

\* Items between brackets, each on a line of its own when step is not negative.
RECURSIVE Joined(_, _)
Joined(items, separator) ==
  IF items = << >> THEN << >>
  ELSE IF Len(items) = 1 THEN items[1]
  ELSE items[1] \o separator \o Joined(Tail(items), separator)

Enclosed(open, items, close, step, indent) ==
  LET line == IF step < 0 THEN << >> ELSE <<10>> \o Spaces(indent + step)
      end  == IF step < 0 THEN << >> ELSE <<10>> \o Spaces(indent)
  IN  IF items = << >> THEN <<open, close>>
      ELSE <<open>> \o line \o Joined(items, <<44>> \o line) \o end \o <<close>>

Quoted(s) == <<34>> \o s \o <<34>>
AfterKey(step) == IF step < 0 THEN <<58>> ELSE <<58, 32>>

\* A binary value is written as an object of its bytes and its subtype.
DumpBinary(v, step, indent) ==
  LET bytes   == Joined([i \in DOMAIN v.s |-> DumpInteger(FALSE, Mag(v.s[i]))], IF step < 0 THEN <<44>> ELSE <<44, 32>>)
      subtype == IF v.subtype = << >> THEN <<110, 117, 108, 108>> ELSE DumpInteger(FALSE, v.subtype[1])
      member(k, t) == Quoted(k) \o AfterKey(step) \o t
  IN  Enclosed(123, <<member(<<98, 121, 116, 101, 115>>, <<91>> \o bytes \o <<93>>),
                      member(<<115, 117, 98, 116, 121, 112, 101>>, subtype)>>, 125, step, indent)

RECURSIVE DumpValue(_, _, _, _, _)
DumpMember(k, w, ascii, step, indent, handler) ==
  Quoted(DumpEscaped(k, ascii, handler)) \o AfterKey(step) \o DumpValue(w, ascii, step, indent, handler)

DumpValue(v, ascii, step, indent, handler) ==
  CASE v.t = "object"    -> LET ks == Keys(v) IN
                            Enclosed(123, [i \in DOMAIN ks |-> DumpMember(ks[i], v.o[ks[i]], ascii, step, indent + step, handler)],
                                     125, step, indent)
    [] v.t = "array"     -> Enclosed(91, [i \in DOMAIN v.a |-> DumpValue(v.a[i], ascii, step, indent + step, handler)],
                                     93, step, indent)
    [] v.t = "string"    -> Quoted(DumpEscaped(v.s, ascii, handler))
    [] v.t = "binary"    -> DumpBinary(v, step, indent)
    [] v.t = "boolean"   -> IF v.b THEN <<116, 114, 117, 101>> ELSE <<102, 97, 108, 115, 101>>
    [] v.t = "integer"   -> DumpInteger(v.neg, v.m)
    [] v.t = "unsigned"  -> DumpInteger(FALSE, v.m)
    [] v.t = "float"     -> DumpFloat(v.bits)
    [] v.t = "discarded" -> <<60, 100, 105, 115, 99, 97, 114, 100, 101, 100, 62>>
    [] v.t = "null"      -> <<110, 117, 108, 108>>

\* basic_json::dump.
Dump(v, ascii, step, handler) == DumpValue(v, ascii, step, 0, handler)

=============================================================================
