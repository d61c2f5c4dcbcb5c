----------------------------- MODULE JsonPacked -----------------------------
(***************************************************************************)
(* CBOR and MessagePack, as the JSON library writes and reads them: the    *)
(* first byte of an item tells its type and holds a small argument.        *)
(***************************************************************************)
EXTENDS JsonBytes

-----------------------------------------------------------------------------
(***************************************************************************)
(* CBOR: three bits of major type, 0 to 7, above five bits of argument.    *)
(***************************************************************************)
\* Wrong variant: off by one.
CborShortTo24(m) == AtMost(m, <<24>>)

CborShort(m) == AtMost(m, <<23>>)

\* The first byte of an item and its argument, in the fewest bytes.
CborHead(major, m) ==
  IF CborShort(m) THEN <<major * 32 + Number(m)>>
  ELSE <<major * 32 + 23 + WidthIndex(m)>> \o Pad(m, Width(m))

\* A positive signed integer is written as an unsigned one, a negative one
\* as its distance from -1.
CborInteger(neg, m) == IF neg THEN CborHead(1, Minus(m, <<1>>)) ELSE CborHead(0, m)

\* NaN and the infinities have half precision.
CborFloat(bits) ==
  IF IsNaN(Binary64, bits) THEN <<249, 126, 0>>
  ELSE IF ~IsFinite(Binary64, bits) THEN <<249, IF IsNegative(bits) THEN 252 ELSE 124, 0>>
  ELSE CompactFloat(bits, 250, 251)

CborText(s) == CborHead(3, Mag(Len(s))) \o s

\* A subtype is written as a tag, always with an argument of its own.
CborBinary(v) ==
  LET tag(m) == <<215 + WidthIndex(m)>> \o Pad(m, Width(m))
  IN  (IF v.subtype = << >> THEN << >> ELSE tag(v.subtype[1])) \o CborHead(2, Mag(Len(v.s))) \o v.s

RECURSIVE WriteCbor(_)
WriteCbor(v) ==
  CASE v.t = "null"      -> <<246>>
    [] v.t = "boolean"   -> <<IF v.b THEN 245 ELSE 244>>
    [] v.t = "integer"   -> CborInteger(v.neg, v.m)
    [] v.t = "unsigned"  -> CborHead(0, v.m)
    [] v.t = "float"     -> CborFloat(v.bits)
    [] v.t = "string"    -> CborText(v.s)
    [] v.t = "array"     -> CborHead(4, Mag(Len(v.a))) \o WrittenItems(v, WriteCbor)
    [] v.t = "binary"    -> CborBinary(v)
    [] v.t = "object"    -> CborHead(5, Mag(Cardinality(DOMAIN v.o))) \o WrittenMembers(v, CborText, WriteCbor)
    [] v.t = "discarded" -> << >>

-----------------------------------------------------------------------------
(* parse_cbor_internal.  i is the byte the item starts with, the last one  *)
(* read; tags is what to do with a tag: "error", "ignore" or "store".      *)

CborArgument(x, i) ==
  LET info == Get(x, i) % 32
  IN  IF info < 24 THEN Got(Mag(info), i)
      ELSE IF info < 28 THEN GetNumber(x, i, 2 ^ (info - 24), FALSE)
      ELSE Failed

\* -1 - n in 64 bits: it wraps when n does not fit a signed integer.
CborNegative(m) ==
  IF Len(m) < 8 \/ m[1] < 128 THEN Integer(TRUE, Plus(m, <<1>>))
  ELSE Integer(FALSE, Minus([i \in 1 .. 8 |-> 255], m))

\* A string or a byte array, which may come in chunks of the same kind.
RECURSIVE CborBytes(_, _, _), CborChunks(_, _, _, _)
CborBytes(x, i, major) ==
  IF Get(x, i) \div 32 # major THEN Failed
  ELSE IF Get(x, i) % 32 = 31 THEN CborChunks(x, i, major, << >>)
  ELSE Then(CborArgument(x, i), LAMBDA len, r : GetString(x, r, len))

CborChunks(x, i, major, buffer) ==
  IF Get(x, i + 1) = 255 THEN Got(buffer, i + 1)
  ELSE Then(CborBytes(x, i + 1, major), LAMBDA b, r : CborChunks(x, r, major, buffer \o b))

\* The length of an indefinite container; the largest length is taken for it.
Indefinite == [i \in 1 .. 8 |-> 255]

CborLength(x, i) == IF Get(x, i) % 32 = 31 THEN Got(Indefinite, i) ELSE CborArgument(x, i)

\* n items of a container are read, the last byte read is i.
CborEnds(x, i, len, n) == IF len = Indefinite THEN Get(x, i + 1) = 255 ELSE Mag(n) = len
CborEnd(i, len)        == IF len = Indefinite THEN i + 1 ELSE i

RECURSIVE CborValue(_, _, _), CborArray(_, _, _, _, _), CborObject(_, _, _, _, _, _)

CborArray(x, i, len, tags, a) ==
  IF CborEnds(x, i, len, Len(a)) THEN Got(Array(a), CborEnd(i, len))
  ELSE Then(CborValue(x, i + 1, tags), LAMBDA v, r : CborArray(x, r, len, tags, Append(a, v)))

CborObject(x, i, len, tags, o, n) ==
  IF CborEnds(x, i, len, n) THEN Got(Object(o), CborEnd(i, len))
  ELSE Then(CborBytes(x, i + 1, 3), LAMBDA k, r :
         Then(CborValue(x, r + 1, tags), LAMBDA v, s : CborObject(x, s, len, tags, WithMember(o, k, v), n + 1)))

\* Only a tag with an argument of its own is stored, with the byte array
\* that has to follow it.
CborTag(x, i, tags) ==
  LET own == Get(x, i) >= 216
      tag == IF own THEN CborArgument(x, i) ELSE Got(<< >>, i)
  IN  IF tags = "error" THEN Failed
      ELSE IF tags = "store" /\ own
      THEN Then(tag, LAMBDA m, r : Then(CborBytes(x, r + 1, 2), LAMBDA b, s : Got(Binary(b, <<m>>), s)))
      ELSE Then(tag, LAMBDA m, r : CborValue(x, r + 1, tags))

CborSimple(x, i) ==
  LET c == Get(x, i)
  IN  IF c \in {244, 245} THEN Got(Boolean(c = 245), i)
      ELSE IF c = 246 THEN Got(Null, i)
      ELSE IF c \in 249 .. 251 THEN GetFloat(x, i, <<Binary16, Binary32, Binary64>>[c - 248], FALSE)
      ELSE Failed

CborTags == 198 .. 212 \cup 216 .. 219

CborValue(x, i, tags) ==
  LET major == Get(x, i) \div 32
  IN  CASE major = 0 -> Then(CborArgument(x, i), LAMBDA m, r : Got(Unsigned(m), r))
        [] major = 1 -> Then(CborArgument(x, i), LAMBDA m, r : Got(CborNegative(m), r))
        [] major = 2 -> Then(CborBytes(x, i, 2), LAMBDA b, r : Got(Binary(b, << >>), r))
        [] major = 3 -> Then(CborBytes(x, i, 3), LAMBDA b, r : Got(String(b), r))
        [] major = 4 -> Then(CborLength(x, i), LAMBDA len, r : CborArray(x, r, len, tags, << >>))
        [] major = 5 -> Then(CborLength(x, i), LAMBDA len, r : CborObject(x, r, len, tags, << >>, 0))
        [] major = 6 -> IF Get(x, i) \in CborTags THEN CborTag(x, i, tags) ELSE Failed
        [] major = 7 -> CborSimple(x, i)
        [] OTHER     -> Failed

\* from_cbor: nothing may follow the value.
FromCbor(x, tags) == Whole(x, CborValue(x, 1, tags))

-----------------------------------------------------------------------------
(***************************************************************************)
(* MessagePack: ranges of the first byte for every type.                   *)
(***************************************************************************)
\* The head of a string or a container: its length, up to limit, in the
\* first byte; longer ones in a number of one of the widths, code and on.
MsgpackHead(n, limit, short, code, widths) ==
  LET fits == {k \in DOMAIN widths : Len(Mag(n)) <= widths[k]}
      k    == CHOOSE k \in fits : \A j \in fits : k <= j
  IN  IF n <= limit THEN <<short + n>> ELSE <<code + k - 1>> \o Pad(Mag(n), widths[k])

MsgpackUnsigned(m) ==
  IF Less(m, <<128>>) THEN <<Number(m)>> ELSE <<203 + WidthIndex(m)>> \o Pad(m, Width(m))

\* A positive signed integer is written as an unsigned one.
MsgpackInteger(neg, m) ==
  LET fits == {k \in 1 .. 4 : FitsSigned(neg, m, <<1, 2, 4, 8>>[k])}
      k    == CHOOSE k \in fits : \A j \in fits : k <= j
  IN  IF ~neg THEN MsgpackUnsigned(m)
      ELSE IF AtMost(m, <<32>>) THEN SignedBytes(neg, m, 1)
      ELSE <<207 + k>> \o SignedBytes(neg, m, <<1, 2, 4, 8>>[k])

MsgpackText(s) == MsgpackHead(Len(s), 31, 160, 217, <<1, 2, 4>>) \o s

\* A subtype makes it an extension, and only its lowest byte is written;
\* some lengths have a code of their own.
MsgpackBinary(v) ==
  LET n    == Len(v.s)
      code == {k \in 1 .. 5 : n = <<1, 2, 4, 8, 16>>[k]}
      byte == Pad(v.subtype[1], 8)[8]
  IN  IF v.subtype = << >> THEN MsgpackHead(n, -1, 0, 196, <<1, 2, 4>>) \o v.s
      ELSE IF code # {} THEN <<211 + (CHOOSE k \in code : TRUE), byte>> \o v.s
      ELSE MsgpackHead(n, -1, 0, 199, <<1, 2, 4>>) \o <<byte>> \o v.s

RECURSIVE WriteMsgpack(_)
WriteMsgpack(v) ==
  CASE v.t = "null"      -> <<192>>
    [] v.t = "boolean"   -> <<IF v.b THEN 195 ELSE 194>>
    [] v.t = "integer"   -> MsgpackInteger(v.neg, v.m)
    [] v.t = "unsigned"  -> MsgpackUnsigned(v.m)
    [] v.t = "float"     -> CompactFloat(v.bits, 202, 203)
    [] v.t = "string"    -> MsgpackText(v.s)
    [] v.t = "array"     -> MsgpackHead(Len(v.a), 15, 144, 220, <<2, 4>>) \o WrittenItems(v, WriteMsgpack)
    [] v.t = "binary"    -> MsgpackBinary(v)
    [] v.t = "object"    -> MsgpackHead(Cardinality(DOMAIN v.o), 15, 128, 222, <<2, 4>>)
                            \o WrittenMembers(v, MsgpackText, WriteMsgpack)
    [] v.t = "discarded" -> << >>

-----------------------------------------------------------------------------
(* parse_msgpack_internal.  i is the byte the item starts with, the last   *)
(* one read.                                                               *)

MsgpackString(x, i) ==
  LET c == Get(x, i)
  IN  IF c \in 160 .. 191 THEN GetString(x, i, Mag(c - 160))
      ELSE IF c \in 217 .. 219 THEN Then(GetNumber(x, i, 2 ^ (c - 217), FALSE), LAMBDA len, r : GetString(x, r, len))
      ELSE Failed

\* bin, ext and fixext.
MsgpackBytes(x, i) ==
  LET c    == Get(x, i)
      size == IF c < 212 THEN GetNumber(x, i, 2 ^ ((c - 196) % 3), FALSE) ELSE Got(Mag(2 ^ (c - 212)), i)
  IN  IF c < 199 THEN Then(size, LAMBDA len, r : Then(GetString(x, r, len), LAMBDA b, s : Got(Binary(b, << >>), s)))
      ELSE Then(size, LAMBDA len, r :
             Then(GetNumber(x, r, 1, FALSE), LAMBDA m, s :
               Then(GetString(x, s, len), LAMBDA b, u : Got(Binary(b, <<m>>), u))))

MsgpackNumber(x, i) ==
  LET c == Get(x, i)
  IN  IF c < 204 THEN GetFloat(x, i, IF c = 202 THEN Binary32 ELSE Binary64, FALSE)
      ELSE IF c < 208 THEN Then(GetNumber(x, i, 2 ^ (c - 204), FALSE), LAMBDA m, r : Got(Unsigned(m), r))
      ELSE Then(GetBytesOf(x, i, 2 ^ (c - 208), FALSE), LAMBDA b, r : Got(SignedNumber(b), r))

RECURSIVE MsgpackValue(_, _), MsgpackArray(_, _, _, _), MsgpackObject(_, _, _, _, _)

MsgpackArray(x, i, len, a) ==
  IF Mag(Len(a)) = len THEN Got(Array(a), i)
  ELSE Then(MsgpackValue(x, i + 1), LAMBDA v, r : MsgpackArray(x, r, len, Append(a, v)))

MsgpackObject(x, i, len, o, n) ==
  IF Mag(n) = len THEN Got(Object(o), i)
  ELSE Then(MsgpackString(x, i + 1), LAMBDA k, r :
         Then(MsgpackValue(x, r + 1), LAMBDA v, s : MsgpackObject(x, s, len, WithMember(o, k, v), n + 1)))

MsgpackValue(x, i) ==
  LET c == Get(x, i)
  IN  CASE c \in 0 .. 127                -> Got(Unsigned(Mag(c)), i)
        [] c \in 128 .. 143              -> MsgpackObject(x, i, Mag(c - 128), << >>, 0)
        [] c \in 144 .. 159              -> MsgpackArray(x, i, Mag(c - 144), << >>)
        [] c \in 160 .. 191 \cup 217 .. 219 -> Then(MsgpackString(x, i), LAMBDA b, r : Got(String(b), r))
        [] c = 192                       -> Got(Null, i)
        [] c \in {194, 195}              -> Got(Boolean(c = 195), i)
        [] c \in 196 .. 201 \cup 212 .. 216 -> MsgpackBytes(x, i)
        [] c \in 202 .. 211              -> MsgpackNumber(x, i)
        [] c \in {220, 221}              -> Then(GetNumber(x, i, 2 ^ (c - 219), FALSE), LAMBDA len, r : MsgpackArray(x, r, len, << >>))
        [] c \in {222, 223}              -> Then(GetNumber(x, i, 2 ^ (c - 221), FALSE), LAMBDA len, r : MsgpackObject(x, r, len, << >>, 0))
        [] c \in 224 .. 255              -> Got(SignedNumber(<<c>>), i)
        [] OTHER                         -> Failed

\* from_msgpack: nothing may follow the value.
FromMsgpack(x) == Whole(x, MsgpackValue(x, 1))

=============================================================================
