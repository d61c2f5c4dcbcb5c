---------------------------- MODULE JsonGrammar ----------------------------
(***************************************************************************)
(* What a JSON text means, by the grammar of RFC 8259: the set of the      *)
(* syntax trees of a sequence of bytes, found by trying every way to split *)
(* it, and the value of a tree.  The lexer and the parser, which read from *)
(* left to right and never go back, are compared with it.                  *)
(***************************************************************************)
EXTENDS JsonValue

LOCAL INSTANCE TLC

IsBlank(x) == \A i \in DOMAIN x : x[i] \in {9, 10, 13, 32}

Before(x, i) == SubSeq(x, 1, i - 1)
After(x, i)  == SubSeq(x, i + 1, Len(x))
Inner(x)     == SubSeq(x, 2, Len(x) - 1)
Places(x, c) == {i \in DOMAIN x : x[i] = c}

\* x without the whitespace around it.
Stripped(x) ==
  LET solid == {i \in DOMAIN x : ~IsBlank(<<x[i]>>)}
  IN  IF solid = {} THEN << >>
      ELSE SubSeq(x, CHOOSE i \in solid : \A j \in solid : i <= j, CHOOSE i \in solid : \A j \in solid : i >= j)

-----------------------------------------------------------------------------
(* Strings: a character is written by one byte, by its UTF-8 encoding, by  *)
(* a letter after a backslash, or by one or two \u escapes.                *)

Encode(c, n) ==
  [i \in 1 .. n |-> IF i = 1 THEN <<0, 192, 224, 240>>[n] + c \div 64 ^ (n - 1)
                    ELSE 128 + ((c \div 64 ^ (n - i)) % 64)]

LengthOf(c) == IF c < 128 THEN 1 ELSE IF c < 2048 THEN 2 ELSE IF c < 65536 THEN 3 ELSE 4
IsScalar(c) == c \in 0 .. 1114111 /\ c \notin 55296 .. 57343

\* The code point whose n-byte encoding x would be.
Decoded(x) ==
  LET n == Len(x)
      d(i) == IF i = 1 THEN x[1] - <<0, 192, 224, 240>>[n] ELSE x[i] - 128
  IN  IF n = 1 THEN d(1) ELSE IF n = 2 THEN d(1) * 64 + d(2)
      ELSE IF n = 3 THEN (d(1) * 64 + d(2)) * 64 + d(3)
      ELSE ((d(1) * 64 + d(2)) * 64 + d(3)) * 64 + d(4)

IsUtf8(x) ==
  /\ Len(x) \in 1 .. 4
  /\ x[1] >= <<0, 192, 224, 240>>[Len(x)]
  /\ \A i \in 2 .. Len(x) : x[i] \in 128 .. 191
  /\ IsScalar(Decoded(x))
  /\ LengthOf(Decoded(x)) = Len(x)

HexDigit(c) == CHOOSE d \in 0 .. 15 : IF d < 10 THEN c = 48 + d ELSE c \in {55 + d, 87 + d}
IsHex(c) == c \in 48 .. 57 \cup 65 .. 70 \cup 97 .. 102

\* The 16 bits of a \u escape, or nothing.
Escaped(x) ==
  IF Len(x) = 6 /\ x[1] = 92 /\ x[2] = 117 /\ \A i \in 3 .. 6 : IsHex(x[i])
  THEN {HexDigit(x[3]) * 4096 + HexDigit(x[4]) * 256 + HexDigit(x[5]) * 16 + HexDigit(x[6])}
  ELSE {}

Letters == << <<34, 34>>, <<92, 92>>, <<47, 47>>, <<98, 8>>, <<102, 12>>, <<110, 10>>, <<114, 13>>, <<116, 9>> >>

Character(x) ==
  (IF IsUtf8(x) /\ x[1] \notin 0 .. 31 \cup {34, 92} THEN {x} ELSE {})
  \cup {<<Letters[i][2]>> : i \in {i \in DOMAIN Letters : x = <<92, Letters[i][1]>>}}
  \cup {Encode(c, LengthOf(c)) : c \in {c \in Escaped(x) : IsScalar(c)}}
  \cup IF Len(x) # 12 THEN {}
       ELSE {Encode(c, 4) : c \in {65536 + (h - 55296) * 1024 + (l - 56320) :
                                     h \in Escaped(Before(x, 7)) \cap 55296 .. 56319,
                                     l \in Escaped(After(x, 6)) \cap 56320 .. 57343}}

RECURSIVE Characters(_)
Characters(x) ==
  IF x = << >> THEN {<< >>}
  ELSE UNION {{c \o r : c \in Character(SubSeq(x, 1, n)), r \in Characters(After(x, n))} :
              n \in {n \in {1, 2, 3, 4, 6, 12} \cap DOMAIN x : Character(SubSeq(x, 1, n)) # {}}}

Strings(x) ==
  IF Len(x) >= 2 /\ x[1] = 34 /\ x[Len(x)] = 34 THEN Characters(Inner(x)) ELSE {}

-----------------------------------------------------------------------------
(* Numbers.                                                                *)

AllDigits(x) == x # << >> /\ \A i \in DOMAIN x : x[i] \in 48 .. 57
DigitValues(x) == [i \in DOMAIN x |-> x[i] - 48]

IsInt(x)  == AllDigits(x) /\ (Len(x) = 1 \/ x[1] # 48)
IsFrac(x) == x = << >> \/ (x[1] = 46 /\ AllDigits(Tail(x)))
IsExp(x)  == \/ x = << >>
             \/ x[1] \in {69, 101} /\ (AllDigits(Tail(x)) \/ (Len(x) > 2 /\ x[2] \in {43, 45} /\ AllDigits(After(x, 2))))

\* A number in its parts: sign, integer, fraction, exponent.
Parts(x) ==
  {<<s, SubSeq(x, s + 1, f), SubSeq(x, f + 1, e), After(x, e)>> :
     s \in 0 .. 1, f \in 1 .. Len(x), e \in 1 .. Len(x)}

IsNumber(p, x) ==
  /\ p[1] = (IF x[1] = 45 THEN 1 ELSE 0)
  /\ p[1] + Len(p[2]) + Len(p[3]) + Len(p[4]) = Len(x)
  /\ IsInt(p[2]) /\ IsFrac(p[3]) /\ IsExp(p[4])

\* The power of ten of an exponent part, below 1000.
ExponentOf(x) ==
  IF x = << >> THEN 0
  ELSE LET signed == x[2] \in {43, 45}
           d == FromDigits(DigitValues(After(x, IF signed THEN 2 ELSE 1)))
       IN  IF x[2] = 45 THEN -Number(d) ELSE Number(d)

NumberOf(p) ==
  LET neg == p[1] = 1
      m   == FromDigits(DigitValues(p[2]))
      e   == ExponentOf(p[4]) - (IF p[3] = << >> THEN 0 ELSE Len(p[3]) - 1)
      n   == FromDigits(DigitValues(p[2] \o (IF p[3] = << >> THEN << >> ELSE Tail(p[3]))))
  IN  IF p[3] = << >> /\ p[4] = << >> /\ ~neg /\ Len(m) <= 8 THEN Unsigned(m)
      ELSE IF p[3] = << >> /\ p[4] = << >> /\ neg /\ (Len(m) < 8 \/ AtMost(m, <<128, 0, 0, 0, 0, 0, 0, 0>>))
      THEN Integer(m # << >>, m)
      ELSE IF e >= 0 THEN Float(Nearest(Binary64, neg, Times(n, Power10(e)), <<1>>))
      ELSE Float(Nearest(Binary64, neg, n, Power10(-e)))

\* A number no double can hold is refused.
Numbers(x) ==
  {v \in {NumberOf(p) : p \in {p \in Parts(x) : IsNumber(p, x)}} :
     v.t = "float" => IsFinite(Binary64, v.bits)}

-----------------------------------------------------------------------------
(* Trees: a leaf, or the sequence of the children.                         *)

Leaf(v) == [kind |-> "leaf", value |-> v]
Branch(kind, children) == [kind |-> kind, children |-> children]

Literals == << <<<<110, 117, 108, 108>>, Null>>, <<<<116, 114, 117, 101>>, Boolean(TRUE)>>,
               <<<<102, 97, 108, 115, 101>>, Boolean(FALSE)>> >>

RECURSIVE Trees(_), ItemLists(_, _), Item(_, _)
Trees(text) ==
  LET x == Stripped(text)
      closed(a, b) == Len(x) >= 2 /\ x[1] = a /\ x[Len(x)] = b
      children(kind) == IF IsBlank(Inner(x)) THEN {<< >>} ELSE ItemLists(kind, Inner(x))
  IN  IF x = << >> THEN {}
      ELSE IF closed(91, 93) THEN {Branch("array", c) : c \in children("array")}
      ELSE IF closed(123, 125) THEN {Branch("object", c) : c \in children("object")}
      ELSE {Leaf(Literals[i][2]) : i \in {i \in DOMAIN Literals : Literals[i][1] = x}}
           \cup {Leaf(String(s)) : s \in Strings(x)}
           \cup IF x[1] \in {45} \cup 48 .. 57 THEN {Leaf(v) : v \in Numbers(x)} ELSE {}

\* An array's item is a value, an object's a pair of a key and a value.
Item(kind, x) ==
  IF kind = "array" THEN Trees(x)
  ELSE UNION {{<<k, v>> : k \in Strings(Stripped(Before(x, i))), v \in Trees(After(x, i))} : i \in Places(x, 58)}

ItemLists(kind, x) ==
  {<<e>> : e \in Item(kind, x)}
  \cup UNION {UNION {{<<e>> \o r : r \in ItemLists(kind, After(x, i))} : e \in Item(kind, Before(x, i))} :
              i \in Places(x, 44)}

\* The value of a tree: of two members with one key, the last one counts.
RECURSIVE ValueOfTree(_)
ValueOfTree(tree) ==
  IF tree.kind = "leaf" THEN tree.value
  ELSE LET c == tree.children
       IN  IF tree.kind = "array" THEN Array([i \in DOMAIN c |-> ValueOfTree(c[i])])
           ELSE Object([k \in {c[i][1] : i \in DOMAIN c} |->
                          LET i == CHOOSE i \in DOMAIN c : c[i][1] = k /\ \A j \in DOMAIN c : c[j][1] = k => j <= i
                          IN  ValueOfTree(c[i][2])])

-----------------------------------------------------------------------------
\* The length of the string a text begins with, all of it if it does not end.
Quoted(x) ==
  LET closing(i) == x[i] = 34 /\ Cardinality({j \in 1 .. i - 1 : \A k \in j .. i - 1 : x[k] = 92}) % 2 = 0
      ends == {i \in 2 .. Len(x) : closing(i)}
  IN  IF ends = {} THEN Len(x) ELSE CHOOSE i \in ends : \A j \in ends : i <= j

\* The text with a space for each comment, from a line's // to its end or
\* from /* to */, outside of strings: {} when one does not end.  A byte 0 ends a
\* line as well; no other comment goes on after it, nor does the text itself.
RECURSIVE Uncommented(_)
Uncommented(x) ==
  LET lineEnds == {i \in 3 .. Len(x) + 1 : i > Len(x) \/ x[i] \in {0, 10, 13}}
      closings == {i \in 4 .. Len(x) : x[i - 1] = 42 /\ x[i] = 47 /\ \A j \in 1 .. i : x[j] # 0}
      least(S) == CHOOSE i \in S : \A j \in S : i <= j
      starts(a, b) == Len(x) >= 2 /\ x[1] = a /\ x[2] = b
      after(n, y) == {y \o r : r \in Uncommented(After(x, n))}
  IN  IF x = << >> \/ x[1] = 0 THEN {<< >>}
      ELSE IF x[1] = 34 THEN after(Quoted(x), SubSeq(x, 1, Quoted(x)))
      ELSE IF starts(47, 47) THEN after(least(lineEnds), <<32>>)
      ELSE IF starts(47, 42) THEN IF closings = {} THEN {} ELSE after(least(closings), <<32>>)
      ELSE after(1, <<x[1]>>)

=============================================================================
