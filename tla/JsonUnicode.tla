----------------------------- MODULE JsonUnicode -----------------------------
(***************************************************************************)
(* How the JSON library reads and writes characters beyond ASCII: the      *)
(* lexer's \uxxxx and its ranges of UTF-8 bytes (detail/input/lexer.hpp),  *)
(* the serializer's automaton and escapes (detail/output/serializer.hpp)   *)
(* and the adapters for wide strings (detail/input/input_adapters.hpp).    *)
(* Each has a table or a formula of its own.                               *)
(***************************************************************************)
EXTENDS Integers, Sequences

Eof       == -1
Backslash == 92
LowerU    == 117
Digits    == 48 .. 57

\* get(): the i-th byte, or the end of the input.
Get(x, i) == IF i \in DOMAIN x THEN x[i] ELSE Eof

-----------------------------------------------------------------------------
(* The lexer.  A unit is what one round of the scan adds to the buffer.    *)

Unit(bytes, read) == [ok |-> TRUE, bytes |-> bytes, read |-> read]
IllFormed(read)   == [ok |-> FALSE, bytes |-> << >>, read |-> read]

HexValue(c) ==
  IF c \in Digits THEN c - 48
  ELSE IF c \in 65 .. 70 THEN c - 55
  ELSE IF c \in 97 .. 102 THEN c - 87
  ELSE -1

\* The four hexadecimal digits after the u at position i.
GetCodepoint(x, i) ==
  LET bad == {j \in 1 .. 4 : HexValue(Get(x, i + j)) = -1}
      h(j) == HexValue(Get(x, i + j))
  IN  IF bad = {} THEN [code |-> h(1) * 4096 + h(2) * 256 + h(3) * 16 + h(4), read |-> i + 4]
      ELSE [code |-> -1, read |-> i + CHOOSE j \in bad : \A k \in bad : j <= k]

\* The bytes of a code point in UTF-8.
CodepointBytes(c) ==
  IF c < 128 THEN <<c>>
  ELSE IF c < 2048 THEN <<192 + c \div 64, 128 + (c % 64)>>
  ELSE IF c < 65536 THEN <<224 + c \div 4096, 128 + ((c \div 64) % 64), 128 + (c % 64)>>
  ELSE <<240 + c \div 262144, 128 + ((c \div 4096) % 64), 128 + ((c \div 64) % 64), 128 + (c % 64)>>

HighSurrogates == 55296 .. 56319
LowSurrogates  == 56320 .. 57343

\* \uxxxx with its u at position i: a high surrogate needs a low one after it.
LowHalf(x, high) ==
  LET r      == high.read
      second == GetCodepoint(x, r + 2)
  IN  IF Get(x, r + 1) # Backslash THEN IllFormed(r + 1)
      ELSE IF Get(x, r + 2) # LowerU THEN IllFormed(r + 2)
      ELSE IF second.code \notin LowSurrogates THEN IllFormed(second.read)
      ELSE Unit(CodepointBytes((high.code - 55296) * 1024 + (second.code - 56320) + 65536), second.read)

UnicodeEscape(x, i) ==
  LET first == GetCodepoint(x, i)
  IN  IF first.code = -1 \/ first.code \in LowSurrogates THEN IllFormed(first.read)
      ELSE IF first.code \in HighSurrogates THEN LowHalf(x, first)
      ELSE Unit(CodepointBytes(first.code), first.read)

\* next_byte_in_range: the byte at i and the ones after it, each in its range.
NextByteInRange(x, i, ranges) ==
  LET bad == {j \in DOMAIN ranges : Get(x, i + j) \notin ranges[j]}
  IN  IF bad = {} THEN Unit(SubSeq(x, i, i + Len(ranges)), i + Len(ranges))
      ELSE IllFormed(i + CHOOSE j \in bad : \A k \in bad : j <= k)

\* The ranges of the bytes after the first byte c of a character; << >> for
\* a byte that starts none.
Continuation(c) ==
  LET tail == 128 .. 191
  IN  IF c \in 194 .. 223 THEN <<tail>>
      ELSE IF c = 224 THEN <<160 .. 191, tail>>
      ELSE IF c = 237 THEN <<128 .. 159, tail>>
      ELSE IF c \in 225 .. 239 THEN <<tail, tail>>
      ELSE IF c = 240 THEN <<144 .. 191, tail, tail>>
      ELSE IF c \in 241 .. 243 THEN <<tail, tail, tail>>
      ELSE IF c = 244 THEN <<128 .. 143, tail, tail>>
      ELSE << >>

-----------------------------------------------------------------------------
(* The serializer.                                                         *)
(*                                                                         *)
(* decode: the automaton that recognises UTF-8.  State 0 accepts, 1        *)
(* rejects; the others wait for the bytes listed here.                     *)

Accept0 == 0
Reject1 == 1

\* The states 2 to 8, at i - 1: the bytes expected, and the state after them.
Expected ==
  << <<128 .. 191, 0>>, <<128 .. 191, 2>>, <<160 .. 191, 2>>, <<128 .. 159, 2>>,
     <<144 .. 191, 3>>, <<128 .. 191, 3>>, <<128 .. 143, 3>> >>

\* The state after the first byte of a character.
LeadState(byte) ==
  IF byte < 128 THEN Accept0
  ELSE IF byte \in 194 .. 223 THEN 2
  ELSE IF byte = 224 THEN 4
  ELSE IF byte = 237 THEN 5
  ELSE IF byte \in 225 .. 239 THEN 3
  ELSE IF byte = 240 THEN 6
  ELSE IF byte \in 241 .. 243 THEN 7
  ELSE IF byte = 244 THEN 8
  ELSE Reject1

\* <<state, codepoint>> after one more byte.
Decode(state, codepoint, byte) ==
  LET lead == IF byte < 128 THEN byte
              ELSE IF byte < 224 THEN byte % 32
              ELSE IF byte < 240 THEN byte % 16 ELSE byte % 8
  IN  IF state = Accept0 THEN <<LeadState(byte), lead>>
      ELSE <<IF byte \in Expected[state - 1][1] THEN Expected[state - 1][2] ELSE Reject1,
             codepoint * 64 + (byte % 64)>>

HexDigit(d) == IF d < 10 THEN 48 + d ELSE 87 + d
UnicodeHex(c) ==
  <<92, 117, HexDigit(c \div 4096), HexDigit((c \div 256) % 16), HexDigit((c \div 16) % 16), HexDigit(c % 16)>>

\* Wrong variant: 2^16 is not taken from the code point.
SurrogatePairUnbiased(codepoint) == UnicodeHex(55296 + codepoint \div 1024) \o UnicodeHex(56320 + (codepoint % 1024))

SurrogatePair(codepoint) == UnicodeHex(55232 + codepoint \div 1024) \o UnicodeHex(56320 + (codepoint % 1024))

\* The escape of a code point: one \uxxxx, or two.
Escaped(codepoint) == IF codepoint < 65536 THEN UnicodeHex(codepoint) ELSE SurrogatePair(codepoint)

-----------------------------------------------------------------------------
(* The adapters.                                                           *)

\* n >> s & m, where unit is 2^s and size is m + 1.
Bits(n, unit, size) == (n \div unit) % size

TwoBytes(c)   == <<192 + Bits(c, 64, 32), 128 + Bits(c, 1, 64)>>
ThreeBytes(c) == <<224 + Bits(c, 4096, 16), 128 + Bits(c, 64, 64), 128 + Bits(c, 1, 64)>>
FourBytes(c)  == <<240 + Bits(c, 262144, 8), 128 + Bits(c, 4096, 64), 128 + Bits(c, 64, 64), 128 + Bits(c, 1, 64)>>

\* fill_buffer for units of four bytes.
FillFrom32(wc) ==
  IF wc < 128 THEN <<wc>>
  ELSE IF wc < 2048 THEN TwoBytes(wc)
  ELSE IF wc < 65536 THEN ThreeBytes(wc)
  ELSE IF wc < 1114112 THEN FourBytes(wc)
  ELSE <<wc>>

\* For units of two bytes: whatever follows a surrogate, of either kind, is
\* taken for its second half.
IsSurrogate(wc) == wc \in 55296 .. 57343
PairOf(wc, wc2) == 65536 + Bits(wc, 1, 1024) * 1024 + Bits(wc2, 1, 1024)

=============================================================================
