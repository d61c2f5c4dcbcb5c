----------------------------- MODULE JsonLexer -----------------------------
(***************************************************************************)
(* The lexer of the JSON library (nlohmann/detail/input/lexer.hpp), through *)
(* which SportClient and BaseClient read the responses of the robot.       *)
(*                                                                         *)
(* A text is a sequence of bytes.  The lexer's state is the number of      *)
(* bytes it has read: get() reads one more, unget() one less.  A scan      *)
(* function takes the text and the position of the byte it was entered     *)
(* with and returns a token: its type, its value and the bytes read.       *)
(***************************************************************************)
EXTENDS Double, JsonUnicode

\* The bytes the lexer tells apart.
Quote       == 34
Slash       == 47
Asterisk    == 42
MinusSign   == 45
PlusSign    == 43
Dot         == 46
Comma       == 44
Colon       == 58
BeginArray  == 91
EndArray    == 93
BeginObject == 123
EndObject   == 125
Newline     == 10
Return      == 13
Tab         == 9
Space       == 32
Nul         == 0

Blank      == {Space, Tab, Newline, Return}
NonZero    == 49 .. 57
ExponentSign == {101, 69}

Token(type, value, read) == [type |-> type, value |-> value, read |-> read]
ErrorToken(read)         == Token("parse_error", << >>, read)

-----------------------------------------------------------------------------
(* Strings.                                                                *)

\* The escape whose letter is at position i.
Escape(x, i) ==
  LET letters == <<Quote, Backslash, Slash, 98, 102, 110, 114, 116>>
      meaning == <<Quote, Backslash, Slash, 8, 12, Newline, Return, Tab>>
      hits    == {k \in DOMAIN letters : letters[k] = Get(x, i)}
  IN  IF Get(x, i) = LowerU THEN UnicodeEscape(x, i)
      ELSE IF hits = {} THEN IllFormed(i)
      ELSE Unit(<<meaning[CHOOSE k \in hits : TRUE]>>, i)

\* U+0020..U+007F stand for themselves; control characters must be escaped.
Printable(c) == c \in 32 .. 127

StringUnit(x, i) ==
  LET c == Get(x, i)
  IN  IF c = Backslash THEN Escape(x, i + 1)
      ELSE IF Printable(c) THEN Unit(<<c>>, i)
      ELSE IF Continuation(c) = << >> THEN IllFormed(i)
      ELSE NextByteInRange(x, i, Continuation(c))

\* i is the last byte read: the opening quote, or the end of a unit.
RECURSIVE ScanString(_, _, _)
AfterUnit(x, unit, buffer) ==
  IF unit.ok THEN ScanString(x, unit.read, buffer \o unit.bytes) ELSE ErrorToken(unit.read)

ScanString(x, i, buffer) ==
  IF Get(x, i + 1) = Quote THEN Token("value_string", buffer, i + 1)
  ELSE AfterUnit(x, StringUnit(x, i + 1), buffer)

-----------------------------------------------------------------------------
(* Numbers: the states of the automaton are the labels of scan_number.     *)

IntegerPart(state, c) ==
  IF state \in {"init", "minus"} /\ c = 48 THEN {"zero"}
  ELSE IF state \in {"init", "minus"} /\ c \in NonZero THEN {"any1"}
  ELSE IF state = "init" /\ c = MinusSign THEN {"minus"}
  ELSE IF state = "any1" /\ c \in Digits THEN {"any1"}
  ELSE {}

FractionPart(state, c) ==
  IF state \in {"zero", "any1"} /\ c = Dot THEN {"decimal1"}
  ELSE IF state \in {"decimal1", "decimal2"} /\ c \in Digits THEN {"decimal2"}
  ELSE {}

ExponentPart(state, c) ==
  IF state \in {"zero", "any1", "decimal2"} /\ c \in ExponentSign THEN {"exponent"}
  ELSE IF state = "exponent" /\ c \in {PlusSign, MinusSign} THEN {"sign"}
  ELSE IF state \in {"exponent", "sign", "any2"} /\ c \in Digits THEN {"any2"}
  ELSE {}

NextNumberState(state, c) ==
  IntegerPart(state, c) \cup FractionPart(state, c) \cup ExponentPart(state, c)

AcceptingStates == {"zero", "any1", "decimal2", "any2"}

DigitsOf(b) == LET s == SelectSeq(b, LAMBDA c : c \in Digits) IN [i \in DOMAIN s |-> s[i] - 48]

\* The float of a number's bytes: mantissa digits and decimal exponent.
FloatOf(b) ==
  LET ends(S) == {i \in DOMAIN b : b[i] \in S}
      before(S, n) == IF ends(S) = {} THEN n ELSE (CHOOSE i \in ends(S) : \A j \in ends(S) : i <= j) - 1
      mantissa == SubSeq(b, 1, before(ExponentSign, Len(b)))
      tail     == SubSeq(b, Len(mantissa) + 2, Len(b))
      fraction == Len(b) - before({Dot}, Len(b)) - 1
      places   == IF ends({Dot}) = {} THEN 0 ELSE fraction - (Len(b) - Len(mantissa))
      power    == Trim(DigitsOf(tail))
      size     == IF Len(power) > 5 THEN 99999 ELSE Number(FromDigits(power))
      signed   == IF tail # << >> /\ tail[1] = MinusSign THEN -size ELSE size
  IN  StrToD(b[1] = MinusSign, Trim(DigitsOf(mantissa)), signed - places)

\* Wrong variant: the same limit below zero as above.
IntegerLimitSymmetric(neg) == IF neg THEN <<127>> \o [i \in 1 .. 7 |-> 255] ELSE [i \in 1 .. 8 |-> 255]

\* std::strtoll and std::strtoull.
IntegerLimit(neg) == IF neg THEN <<128>> \o Zeros(7) ELSE [i \in 1 .. 8 |-> 255]

\* The end of scan_number: an integer that overflows 64 bits is a float.
NumberToken(b, states, read) ==
  LET m == FromDigits(DigitsOf(b))
  IN  IF states \cap {"decimal1", "exponent"} # {} \/ ~AtMost(m, IntegerLimit(b[1] = MinusSign))
      THEN Token("value_float", FloatOf(b), read)
      ELSE IF b[1] = MinusSign THEN Token("value_integer", m, read)
      ELSE Token("value_unsigned", m, read)

\* The byte at i is the last one read and in the buffer; it led to state.
RECURSIVE NumberFrom(_, _, _, _, _)
NumberFrom(x, i, buffer, state, states) ==
  LET c    == Get(x, i + 1)
      next == NextNumberState(state, c)
  IN  IF next = {} THEN IF state \in AcceptingStates THEN NumberToken(buffer, states, i)
                        ELSE ErrorToken(i + 1)
      ELSE NumberFrom(x, i + 1, Append(buffer, c), CHOOSE s \in next : TRUE, states \cup next)

ScanNumber(x, i) == NumberFrom(x, i - 1, << >>, "init", {})

-----------------------------------------------------------------------------
(* Comments, literals and the scan itself.                                 *)

FirstFrom(x, i, S) ==
  LET hits == {j \in i .. i + Len(x) : Get(x, j) \in S}
  IN  CHOOSE j \in hits : \A k \in hits : j <= k

\* The comment whose first slash is at i: [ok, read].
ScanComment(x, i) ==
  LET closing == {j \in i + 2 .. Len(x) - 1 : x[j] = Asterisk /\ x[j + 1] = Slash}
      stop    == FirstFrom(x, i + 2, {Eof, Nul})
      close   == CHOOSE j \in closing : \A k \in closing : j <= k
  IN  IF Get(x, i + 1) = Slash
      THEN [ok |-> TRUE, read |-> FirstFrom(x, i + 2, {Newline, Return, Eof, Nul})]
      ELSE IF Get(x, i + 1) # Asterisk THEN [ok |-> FALSE, read |-> i + 1]
      ELSE IF closing # {} /\ close < stop THEN [ok |-> TRUE, read |-> close + 1]
      ELSE [ok |-> FALSE, read |-> stop]

ScanLiteral(x, i, text, type) ==
  LET bad == {j \in 2 .. Len(text) : Get(x, i + j - 1) # text[j]}
  IN  IF bad = {} THEN Token(type, << >>, i + Len(text) - 1)
      ELSE ErrorToken(i - 1 + CHOOSE j \in bad : \A k \in bad : j <= k)

\* [ok, read] with the byte order mark skipped, or the byte that breaks it.
SkipBom(x) ==
  IF Get(x, 1) # 239 THEN [ok |-> TRUE, read |-> 0]
  ELSE IF Get(x, 2) # 187 THEN [ok |-> FALSE, read |-> 2]
  ELSE [ok |-> Get(x, 3) = 191, read |-> 3]

SkipWhitespace(x, i) == FirstFrom(x, i + 1, (-1 .. 255) \ Blank)

Structural == <<BeginArray, EndArray, BeginObject, EndObject, Colon, Comma>>
StructuralTypes ==
  <<"begin_array", "end_array", "begin_object", "end_object", "name_separator", "value_separator">>

\* The token that starts at i.
ScanToken(x, i) ==
  LET c    == Get(x, i)
      hits == {k \in DOMAIN Structural : Structural[k] = c}
  IN  IF hits # {} THEN Token(StructuralTypes[CHOOSE k \in hits : TRUE], << >>, i)
      ELSE IF c = 116 THEN ScanLiteral(x, i, <<116, 114, 117, 101>>, "literal_true")
      ELSE IF c = 102 THEN ScanLiteral(x, i, <<102, 97, 108, 115, 101>>, "literal_false")
      ELSE IF c = 110 THEN ScanLiteral(x, i, <<110, 117, 108, 108>>, "literal_null")
      ELSE IF c = Quote THEN ScanString(x, i, << >>)
      ELSE IF c = MinusSign \/ c \in Digits THEN ScanNumber(x, i)
      ELSE IF c \in {Nul, Eof} THEN Token("end_of_input", << >>, i)
      ELSE ErrorToken(i)

\* i bytes are read: whitespace, comments where they are ignored, the token.
RECURSIVE ScanFrom(_, _, _)
ScanFrom(x, i, ignoreComments) ==
  LET start   == SkipWhitespace(x, i)
      comment == ScanComment(x, start)
  IN  IF ~ignoreComments \/ Get(x, start) # Slash THEN ScanToken(x, start)
      ELSE IF comment.ok THEN ScanFrom(x, comment.read, ignoreComments)
      ELSE ErrorToken(comment.read)

Scan(x, i, ignoreComments) ==
  LET bom == IF i > 0 THEN [ok |-> TRUE, read |-> i] ELSE SkipBom(x)
  IN  IF bom.ok THEN ScanFrom(x, bom.read, ignoreComments) ELSE ErrorToken(bom.read)

-----------------------------------------------------------------------------
(* The adapter of nlohmann/detail/input/input_adapters.hpp that lets the   *)
(* lexer read wide strings: it turns each unit, or pair of units, into the *)
(* bytes of UTF-8.  Units of two bytes come in pairs; one without a second *)
(* half is passed on as it is.                                             *)

Utf8From32(units) ==
  LET from[i \in 1 .. Len(units) + 1] ==
        IF i > Len(units) THEN << >> ELSE FillFrom32(units[i]) \o from[i + 1]
  IN  from[1]

Utf8From16(units) ==
  LET from[i \in 1 .. Len(units) + 1] ==
        IF i > Len(units) THEN << >>
        ELSE IF ~IsSurrogate(units[i]) THEN FillFrom32(units[i]) \o from[i + 1]
        ELSE IF i = Len(units) THEN <<units[i]>>
        ELSE FourBytes(PairOf(units[i], units[i + 1])) \o from[i + 2]
  IN  from[1]

=============================================================================
