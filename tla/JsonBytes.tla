------------------------------ MODULE JsonBytes ------------------------------
(***************************************************************************)
(* What the binary formats of the JSON library share: numbers of a given   *)
(* width and byte order, and reading with get() from a sequence of bytes   *)
(* (nlohmann/detail/input/binary_reader.hpp and output/binary_writer.hpp). *)
(*                                                                         *)
(* A reader takes the bytes and how many of them are read.  It returns     *)
(* what it read and the bytes read by then, or that it failed: the events  *)
(* it reports go to the handler that builds a value.                       *)
(***************************************************************************)
EXTENDS JsonValue

LOCAL INSTANCE TLC

Eof == -1

Get(x, i) == IF i \in DOMAIN x THEN x[i] ELSE Eof

Got(v, read) == [ok |-> TRUE, v |-> v, read |-> read]
Failed       == [ok |-> FALSE]

\* Read on after what has been read, unless that failed.
Then(r, Next(_, _)) == IF r.ok THEN Next(r.v, r.read) ELSE Failed

Backwards(b) == [i \in DOMAIN b |-> b[Len(b) + 1 - i]]

\* get_number: n bytes, most significant first unless the format is little-endian.
GetBytesOf(x, i, n, little) ==
  IF i + n > Len(x) THEN Failed
  ELSE LET b == SubSeq(x, i + 1, i + n) IN Got(IF little THEN Backwards(b) ELSE b, i + n)

GetNumber(x, i, n, little) == Then(GetBytesOf(x, i, n, little), LAMBDA b, r : Got(Trim(b), r))

\* get_string and get_binary: as many bytes as a number of any width says.
GetString(x, i, len) ==
  IF Less(Mag(Len(x) - i), len) THEN Failed
  ELSE Got(SubSeq(x, i + 1, i + Number(len)), i + Number(len))

\* The signed integer with these bytes, and the n bytes of a signed integer.
SignedNumber(b) ==
  IF b[1] < 128 THEN Integer(FALSE, Trim(b))
  ELSE Integer(TRUE, Minus(<<1>> \o Zeros(Len(b)), Trim(b)))

SignedBytes(neg, m, n) == Pad(IF neg THEN Minus(<<1>> \o Zeros(n), m) ELSE m, n)

\* The positive or negative number fits into n bytes with a sign.
FitsSigned(neg, m, n) ==
  LET limit == <<128>> \o Zeros(n - 1) IN IF neg THEN AtMost(m, limit) ELSE Less(m, limit)

\* The least of the widths an integer of the library can take.
Width(m) == CHOOSE n \in {1, 2, 4, 8} : Len(m) <= n /\ \A k \in {1, 2, 4} : Len(m) <= k => n <= k
WidthIndex(m) == CHOOSE k \in 1 .. 4 : Width(m) = <<1, 2, 4, 8>>[k]

\* get_number of a floating-point type, and its value as a double.
Widened(f, b) == IF f = Binary64 THEN b ELSE Convert(f, Binary64, b)

GetFloat(x, i, f, little) == Then(GetBytesOf(x, i, f.size, little), LAMBDA b, r : Got(Float(Widened(f, b)), r))

\* write_compact_float: the single-precision value when it is the same one.
Shorter(bits, f, single, double) ==
  IF IsFinite(Binary64, bits) /\ IsFinite(Binary32, f) /\ Convert(Binary32, Binary64, f) = bits
  THEN <<single>> \o f ELSE <<double>> \o bits

CompactFloat(bits, single, double) == Shorter(bits, Convert(Binary64, Binary32, bits), single, double)

\* The value, when reading succeeded and nothing follows.
Whole(x, r) == IF r.ok /\ r.read = Len(x) THEN r.v ELSE Discarded

\* A member assigned to an object: of two with one key, the last one counts.
WithMember(o, k, v) == (k :> v) @@ o

Concatenated(s) ==
  LET part[i \in 0 .. Len(s)] == IF i = 0 THEN << >> ELSE part[i - 1] \o s[i] IN part[Len(s)]

\* The members of an object, keys and values written one after the other.
WrittenMembers(v, Key(_), Value(_)) ==
  LET ks == Keys(v) IN Concatenated([i \in DOMAIN ks |-> Key(ks[i]) \o Value(v.o[ks[i]])])

WrittenItems(v, Value(_)) == Concatenated([i \in DOMAIN v.a |-> Value(v.a[i])])

=============================================================================
