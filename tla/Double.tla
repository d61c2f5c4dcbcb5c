------------------------------- MODULE Double -------------------------------
(***************************************************************************)
(* The numbers of the JSON library.                                        *)
(*                                                                         *)
(* A magnitude is a natural number of any size, a big-endian sequence of   *)
(* bytes without a leading zero, << >> being 0.  The library's integers    *)
(* have 64 bits and its binary formats write them byte by byte: a number   *)
(* fits into n bytes when its sequence is no longer than n.                *)
(*                                                                         *)
(* A floating-point number is the IEEE 754 value as the bytes std::memcpy  *)
(* finds in it, most significant first.  What the C library and the        *)
(* compiler do with it is modelled exactly, on magnitudes.                 *)
(***************************************************************************)
EXTENDS Integers, Sequences

Bytes == 0 .. 255

IsMagnitude(m) == \A i \in DOMAIN m : m[i] \in Bytes /\ m[1] # 0

Zeros(n) == [i \in 1 .. n |-> 0]

\* A sequence of bytes as a number, and a number as n bytes.
Trim(b) ==
  IF \A i \in DOMAIN b : b[i] = 0 THEN << >>
  ELSE SubSeq(b, CHOOSE i \in DOMAIN b : b[i] # 0 /\ \A j \in 1 .. i - 1 : b[j] = 0, Len(b))

Pad(m, n) == Zeros(n - Len(m)) \o m

\* For numbers below 2^31.
Mag(n)    == Trim(<<n \div 256 ^ 3, n \div 256 ^ 2 % 256, n \div 256 % 256, n % 256>>)
Number(m) == LET b == Pad(m, 4) IN ((b[1] * 256 + b[2]) * 256 + b[3]) * 256 + b[4]

\* The lexicographic order of sequences of bytes, and the order of numbers.
BytesLess(a, b) ==
  \E n \in 0 .. Len(b) - 1 :
    /\ n <= Len(a)
    /\ \A i \in 1 .. n : a[i] = b[i]
    /\ n < Len(a) => a[n + 1] < b[n + 1]

Less(a, b)   == Len(a) < Len(b) \/ (Len(a) = Len(b) /\ BytesLess(a, b))
AtMost(a, b) == a = b \/ Less(a, b)

-----------------------------------------------------------------------------
\* m * k + a, for k and a up to 2^22.
MulAdd(m, k, a) ==
  LET n == Len(m)
      carry[i \in 0 .. n] == IF i = n THEN a ELSE (m[i + 1] * k + carry[i + 1]) \div 256
  IN  IF m = << >> THEN Mag(a)
      ELSE Trim(Mag(carry[0]) \o [i \in 1 .. n |-> (m[i] * k + carry[i]) % 256])

\* Of two numbers of as many bytes.
Added(x, y) ==
  LET carry(i) == \E j \in i + 1 .. Len(x) : /\ x[j] + y[j] > 255
                                             /\ \A k \in i + 1 .. j - 1 : x[k] + y[k] = 255
  IN  Trim([i \in DOMAIN x |-> (x[i] + y[i] + IF carry(i) THEN 1 ELSE 0) % 256])

Subtracted(x, y) ==
  LET borrow(i) == \E j \in i + 1 .. Len(x) : /\ x[j] < y[j]
                                              /\ \A k \in i + 1 .. j - 1 : x[k] = y[k]
  IN  Trim([i \in DOMAIN x |-> (x[i] - y[i] - IF borrow(i) THEN 1 ELSE 0) % 256])

Plus(a, b) == IF Len(a) < Len(b) THEN Added(<<0>> \o Pad(a, Len(b)), <<0>> \o b) ELSE Added(<<0>> \o a, <<0>> \o Pad(b, Len(a)))

\* a - b for b at most a.
Minus(a, b) == Subtracted(a, Pad(b, Len(a)))

\* By halves of the second factor.
RECURSIVE Times(_, _)
Times(a, b) ==
  IF a = << >> \/ b = << >> THEN << >>
  ELSE IF Len(b) <= 2 THEN MulAdd(a, Number(b), 0)
  ELSE LET h == Len(b) \div 2
       IN  Plus(Times(a, SubSeq(b, 1, h)) \o Zeros(Len(b) - h), Times(a, Trim(SubSeq(b, h + 1, Len(b)))))

Power2(n) == 2 ^ n

ShiftLeft(m, n) ==
  IF m = << >> THEN m ELSE MulAdd(m, Power2(n % 8), 0) \o Zeros(n \div 8)

ShiftRight(m, n) ==
  IF n \div 8 >= Len(m) THEN << >>
  ELSE LET b == <<0>> \o SubSeq(m, 1, Len(m) - n \div 8)
           k == Power2(n % 8)
       IN  Trim([i \in 1 .. Len(b) - 1 |-> (b[i] * 256 + b[i + 1]) \div k % 256])

BitLength(m) ==
  IF m = << >> THEN 0
  ELSE 8 * (Len(m) - 1) + (CHOOSE n \in 1 .. 8 : m[1] \in Power2(n - 1) .. Power2(n) - 1)

\* The quotient a / b below 256, between low and high.
RECURSIVE DigitAt(_, _, _, _), DivAt(_, _, _)
DigitAt(a, b, low, high) ==
  IF low = high THEN low
  ELSE LET middle == (low + high + 1) \div 2
       IN  IF AtMost(MulAdd(b, middle, 0), a) THEN DigitAt(a, b, middle, high)
           ELSE DigitAt(a, b, low, middle - 1)

\* <<quotient, remainder>>, byte by byte from the top.
DivAfter(digit, rest)         == <<<<digit>> \o rest[1], rest[2]>>
DivWith(digit, a, part, b, n) == DivAfter(digit, DivAt(Minus(a, MulAdd(part, digit, 0)), b, n - 1))
DivBy(a, part, b, n)          == DivWith(DigitAt(a, part, 0, 255), a, part, b, n)
DivAt(a, b, n) == IF n < 0 THEN << << >>, a>> ELSE DivBy(a, b \o Zeros(n), b, n)

\* The zeros at the end of the divisor leave the end of a to the remainder.
Joint(halves, end) == <<Trim(halves[1]), Trim(halves[2] \o end)>>
DivTop(a, b, n)    == Joint(DivAt(SubSeq(a, 1, Len(a) - n), SubSeq(b, 1, Len(b) - n), Len(a) - Len(b)),
                            SubSeq(a, Len(a) - n + 1, Len(a)))
EndZeros(b)        == CHOOSE n \in 0 .. Len(b) - 1 : b[Len(b) - n] # 0 /\ \A j \in Len(b) - n + 1 .. Len(b) : b[j] = 0
Div(a, b) == IF Len(a) < Len(b) THEN << << >>, a>> ELSE DivTop(a, b, EndZeros(b))

RECURSIVE Power10(_)
Power10(n) == IF n <= 6 THEN Mag(10 ^ n) ELSE Times(Power10(n \div 2), Power10(n - n \div 2))

\* The number written by a sequence of decimal digits, most significant first.
RECURSIVE FromDigits(_)
FromDigits(d) ==
  IF d = << >> THEN << >> ELSE MulAdd(FromDigits(SubSeq(d, 1, Len(d) - 1)), 10, d[Len(d)])

-----------------------------------------------------------------------------
(* Floating-point numbers.                                                 *)

\* p: bits of the significand with the hidden one; size in bytes.
Binary64 == [size |-> 8, p |-> 53, bias |-> 1023]
Binary32 == [size |-> 4, p |-> 24, bias |-> 127]
Binary16 == [size |-> 2, p |-> 11, bias |-> 15]

TopExponent(f) == 2 * f.bias + 1

IsNegative(b) == b[1] >= 128

ExponentField(f, b) ==
  Number(ShiftRight(Trim(<<b[1] % 128>> \o Tail(b)), f.p - 1))

FractionField(f, b) ==
  LET m == Trim(<<b[1] % 128>> \o Tail(b))
  IN  Minus(m, ShiftLeft(ShiftRight(m, f.p - 1), f.p - 1))

IsFinite(f, b) == ExponentField(f, b) # TopExponent(f)
IsNaN(f, b)    == ~IsFinite(f, b) /\ FractionField(f, b) # << >>

\* The bytes with the given fields; a fraction that reaches 2^(p-1) carries
\* into the exponent, as rounding up wants.
PackFields(f, neg, exponent, fraction) ==
  [Pad(Plus(ShiftLeft(Mag(exponent), f.p - 1), fraction), f.size) EXCEPT ![1] = IF neg THEN @ + 128 ELSE @]

Infinity(f, neg) == PackFields(f, neg, TopExponent(f), << >>)
QuietNaN(f)      == PackFields(f, FALSE, TopExponent(f), ShiftLeft(<<1>>, f.p - 2))
ZeroOf(f, neg)   == PackFields(f, neg, 0, << >>)

\* A finite value is significand * 2^power.
Significand(f, b) ==
  IF ExponentField(f, b) = 0 THEN FractionField(f, b)
  ELSE Plus(FractionField(f, b), ShiftLeft(<<1>>, f.p - 1))

PowerOf(f, b) ==
  LET e == ExponentField(f, b)
  IN  (IF e = 0 THEN 1 ELSE e) - f.bias - (f.p - 1)

\* n / d in units of 2^e: <<quotient, remainder, divisor>>.
InUnits(n, d, e) ==
  LET bottom == IF e > 0 THEN ShiftLeft(d, e) ELSE d
  IN  Append(Div(IF e < 0 THEN ShiftLeft(n, -e) ELSE n, bottom), bottom)

\* e, or one more when n / d has more than p bits in units of 2^e.
UnitOf(p, n, d, e) == IF BitLength(InUnits(n, d, e)[1]) > p THEN e + 1 ELSE e

\* The quotient of InUnits rounded, ties to the even one.
ToEven(u) ==
  LET twice == ShiftLeft(u[2], 1)
      up    == Less(u[3], twice) \/ (u[3] = twice /\ u[1] # << >> /\ u[1][Len(u[1])] % 2 = 1)
  IN  IF up THEN Plus(u[1], <<1>>) ELSE u[1]

LowestPower(f) == 2 - f.bias - f.p

\* m * 2^e, for m of at most p bits or 2^p.
Assembled(f, neg, m, e) ==
  LET hidden == ShiftLeft(<<1>>, f.p - 1)
      normal == ~Less(m, hidden)
      over   == m # << >> /\ e + f.p - 1 > f.bias
  IN  PackFields(f, neg, IF over THEN TopExponent(f) ELSE IF normal THEN e - LowestPower(f) + 1 ELSE 0,
                         IF over THEN << >> ELSE IF normal THEN Minus(m, hidden) ELSE m)

\* The value of the format nearest to n / d, ties to the even one.
RoundedTo(f, neg, n, d, e) == Assembled(f, neg, ToEven(InUnits(n, d, e)), e)

Nearest(f, neg, n, d) ==
  LET rough == BitLength(n) - BitLength(d) - f.p
  IN  RoundedTo(f, neg, n, d, UnitOf(f.p, n, d, IF rough < LowestPower(f) THEN LowestPower(f) ELSE rough))

\* A value of one format in another: static_cast between them.  A NaN keeps
\* its sign; what else its bits say is left out.
Scaled(f, neg, m, e) ==
  Nearest(f, neg, IF e > 0 THEN ShiftLeft(m, e) ELSE m, IF e < 0 THEN ShiftLeft(<<1>>, -e) ELSE <<1>>)

Convert(from, to, b) ==
  IF IsNaN(from, b) THEN [QuietNaN(to) EXCEPT ![1] = IF IsNegative(b) THEN @ + 128 ELSE @]
  ELSE IF ~IsFinite(from, b) THEN Infinity(to, IsNegative(b))
  ELSE Scaled(to, IsNegative(b), Significand(from, b), PowerOf(from, b))

DoubleOfInteger(neg, m) == Nearest(Binary64, neg, m, <<1>>)

\* strtod on digits * 10^exponent, and on a decimal exponent out of its range.
StrToD(neg, digits, exponent) ==
  LET m == FromDigits(digits)
  IN  IF m = << >> \/ exponent + Len(digits) < -400 THEN ZeroOf(Binary64, neg)
      ELSE IF exponent + Len(digits) > 800 THEN Infinity(Binary64, neg)
      ELSE Nearest(Binary64, neg, IF exponent > 0 THEN Times(m, Power10(exponent)) ELSE m,
                   IF exponent < 0 THEN Power10(-exponent) ELSE <<1>>)

\* operator== and operator< of doubles: NaN is unordered, -0 equals 0.
DoubleIsZero(b) == Trim(<<b[1] % 128>> \o Tail(b)) = << >>

DoubleEqual(a, b) ==
  ~IsNaN(Binary64, a) /\ ~IsNaN(Binary64, b) /\ (a = b \/ (DoubleIsZero(a) /\ DoubleIsZero(b)))

DoubleLess(a, b) ==
  /\ ~IsNaN(Binary64, a) /\ ~IsNaN(Binary64, b) /\ ~DoubleEqual(a, b)
  /\ \/ IsNegative(a) /\ ~IsNegative(b)
     \/ IsNegative(a) /\ IsNegative(b) /\ BytesLess(b, a)
     \/ ~IsNegative(a) /\ ~IsNegative(b) /\ BytesLess(a, b)

=============================================================================
