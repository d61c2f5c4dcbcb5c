----------------------------- MODULE JsonUbjson -----------------------------
(***************************************************************************)
(* UBJSON and its variant BJData, as the JSON library writes and reads     *)
(* them; bj says which.  A value is a marker and its bytes; a container    *)
(* may state the number of its values after '#' and, before that, after    *)
(* '$', the marker they all share and leave out.  BJData is little-endian, *)
(* has three more integers, and packs arrays of several dimensions.        *)
(***************************************************************************)
EXTENDS JsonBytes

Serializer == INSTANCE JsonSerializer
Lexer      == INSTANCE JsonLexer

\* The markers, as bytes.
Marker ==
  [null |-> 90, true |-> 84, false |-> 70, noop |-> 78, char |-> 67, string |-> 83, high |-> 72,
   half |-> 104, single |-> 100, double |-> 68, array |-> 91, endArray |-> 93,
   object |-> 123, endObject |-> 125, count |-> 35, type |-> 36]

\* The integers in the order they are tried, least first.
IntegerTypes ==
  << [code |-> 105, size |-> 1, signed |-> TRUE,  bj |-> FALSE], [code |-> 85,  size |-> 1, signed |-> FALSE, bj |-> FALSE],
     [code |-> 73,  size |-> 2, signed |-> TRUE,  bj |-> FALSE], [code |-> 117, size |-> 2, signed |-> FALSE, bj |-> TRUE],
     [code |-> 108, size |-> 4, signed |-> TRUE,  bj |-> FALSE], [code |-> 109, size |-> 4, signed |-> FALSE, bj |-> TRUE],
     [code |-> 76,  size |-> 8, signed |-> TRUE,  bj |-> FALSE], [code |-> 77,  size |-> 8, signed |-> FALSE, bj |-> TRUE] >>

Ordered(b, bj) == IF bj THEN Backwards(b) ELSE b

\* The types that can hold an integer, least first.
Holding(neg, m, bj) ==
  SelectSeq(IntegerTypes,
            LAMBDA type : /\ type.bj => bj
                          /\ IF type.signed THEN FitsSigned(neg, m, type.size) ELSE ~neg /\ Len(m) <= type.size)

\* An integer no type can hold is written in decimal.
UbjsonHighText(text) == <<105, Len(text)>> \o text

UbjsonInteger(neg, m, prefix, bj) ==
  LET holding == Holding(neg, m, bj)
      held    == holding # << >>
  IN  (IF prefix THEN <<IF held THEN holding[1].code ELSE Marker.high>> ELSE << >>)
      \o IF held THEN Ordered(SignedBytes(neg, m, holding[1].size), bj) ELSE UbjsonHighText(Serializer!DumpInteger(neg, m))

UbjsonLength(n, bj) == UbjsonInteger(FALSE, Mag(n), TRUE, bj)
UbjsonKey(s, bj)    == UbjsonLength(Len(s), bj) \o s

UbjsonPrefix(v, bj) ==
  LET integer(neg, m) == LET holding == Holding(neg, m, bj) IN IF holding = << >> THEN Marker.high ELSE holding[1].code
  IN  CASE v.t = "null"     -> Marker.null
        [] v.t = "boolean"  -> IF v.b THEN Marker.true ELSE Marker.false
        [] v.t = "integer"  -> integer(v.neg, v.m)
        [] v.t = "unsigned" -> integer(FALSE, v.m)
        [] v.t = "float"    -> Marker.double
        [] v.t = "string"   -> Marker.string
        [] v.t \in {"array", "binary"} -> Marker.array
        [] v.t = "object"   -> Marker.object
        [] OTHER            -> Marker.noop

\* BJData has no optimized containers of these.
Excluded == {Marker.array, Marker.object, Marker.string, Marker.high, Marker.true, Marker.false, Marker.noop, Marker.null}

\* The marker all the values share, when it may stand before them.
SharedPrefix(values, type, bj) ==
  LET prefixes == {UbjsonPrefix(values[i], bj) : i \in DOMAIN values}
  IN  IF type /\ Cardinality(prefixes) = 1 /\ ~(bj /\ prefixes \subseteq Excluded) THEN prefixes ELSE {}

\* A container: its values between its markers, or after their number.
UbjsonContainer(open, close, shared, n, parts, count, prefix, bj) ==
  (IF prefix THEN <<open>> ELSE << >>)
  \o (IF shared = {} THEN << >> ELSE <<Marker.type, CHOOSE p \in shared : TRUE>>)
  \o (IF count THEN <<Marker.count>> \o UbjsonLength(n, bj) ELSE << >>)
  \o Concatenated(parts)
  \o (IF count THEN << >> ELSE <<close>>)

\* A byte array is an array of bytes, and is read as one.
UbjsonBinary(s, count, type, prefix, bj) ==
  UbjsonContainer(Marker.array, Marker.endArray, IF type /\ s # << >> THEN {85} ELSE {}, Len(s),
                  [i \in DOMAIN s |-> IF type THEN <<s[i]>> ELSE <<85, s[i]>>], count, prefix, bj)

\* The keys of an annotated array, and the types of its data.
ArrayType == <<95, 65, 114, 114, 97, 121, 84, 121, 112, 101, 95>>
ArraySize == <<95, 65, 114, 114, 97, 121, 83, 105, 122, 101, 95>>
ArrayData == <<95, 65, 114, 114, 97, 121, 68, 97, 116, 97, 95>>

NdTypes ==
  << [code |-> 85,  size |-> 1, name |-> <<117, 105, 110, 116, 56>>],       [code |-> 105, size |-> 1, name |-> <<105, 110, 116, 56>>],
     [code |-> 117, size |-> 2, name |-> <<117, 105, 110, 116, 49, 54>>],   [code |-> 73,  size |-> 2, name |-> <<105, 110, 116, 49, 54>>],
     [code |-> 109, size |-> 4, name |-> <<117, 105, 110, 116, 51, 50>>],   [code |-> 108, size |-> 4, name |-> <<105, 110, 116, 51, 50>>],
     [code |-> 77,  size |-> 8, name |-> <<117, 105, 110, 116, 54, 52>>],   [code |-> 76,  size |-> 8, name |-> <<105, 110, 116, 54, 52>>],
     [code |-> 100, size |-> 4, name |-> <<115, 105, 110, 103, 108, 101>>], [code |-> 68,  size |-> 8, name |-> <<100, 111, 117, 98, 108, 101>>],
     [code |-> 67,  size |-> 1, name |-> <<99, 104, 97, 114>>] >>

\* The eight bytes a number has in the union of json_value.
NumberBytes(v) == IF v.t = "float" THEN v.bits ELSE IF v.t = "integer" THEN SignedBytes(v.neg, v.m, 8) ELSE Pad(v.m, 8)
LowBytes(b, n) == SubSeq(b, Len(b) - n + 1, Len(b))

\* Elements of a value: a scalar is its own only element, null has none.
ElementsOf(v) == IF v.t = "array" THEN v.a ELSE IF v.t = "null" THEN << >> ELSE <<v>>

\* The product of lengths, in 64 bits.
Product(dims) ==
  LET p[i \in 0 .. Len(dims)] ==
        IF i = 0 THEN <<1>> ELSE LET t == Times(p[i - 1], dims[i]) IN IF Len(t) <= 8 THEN t ELSE Trim(LowBytes(t, 8))
  IN  p[Len(dims)]

Annotated(v) == DOMAIN v.o = {ArrayType, ArraySize, ArrayData}
NdTypeOf(v)  == {k \in DOMAIN NdTypes : NdTypes[k].name = v.o[ArrayType].s}

\* write_bjdata_ndarray applies: a known type and as many data as the sizes say.
IsNdArray(v) ==
  /\ Annotated(v)
  /\ NdTypeOf(v) # {}
  /\ LET sizes == ElementsOf(v.o[ArraySize])
     IN  Mag(Len(ElementsOf(v.o[ArrayData]))) =
           IF sizes = << >> THEN << >> ELSE Product([i \in DOMAIN sizes |-> Trim(NumberBytes(sizes[i]))])

NdDatum(v, type) ==
  IF type.code = Marker.single THEN Convert(Binary64, Binary32, NumberBytes(v)) ELSE LowBytes(NumberBytes(v), type.size)

RECURSIVE WriteUbjson(_, _, _, _, _)
WriteNdArray(v, count, type, bj) ==
  LET nd   == NdTypes[CHOOSE k \in NdTypeOf(v) : TRUE]
      data == ElementsOf(v.o[ArrayData])
  IN  <<Marker.array, Marker.type, nd.code, Marker.count>>
      \o WriteUbjson(v.o[ArraySize], count, type, TRUE, bj)
      \o Concatenated([i \in DOMAIN data |-> Backwards(NdDatum(data[i], nd))])

WriteUbjsonArray(v, count, type, prefix, bj) ==
  LET shared == SharedPrefix(v.a, type, bj)
  IN  UbjsonContainer(Marker.array, Marker.endArray, shared, Len(v.a),
                      [i \in DOMAIN v.a |-> WriteUbjson(v.a[i], count, type, shared = {}, bj)], count, prefix, bj)

WriteUbjsonObject(v, count, type, prefix, bj) ==
  LET ks     == Keys(v)
      shared == SharedPrefix([i \in DOMAIN ks |-> v.o[ks[i]]], type, bj)
  IN  UbjsonContainer(Marker.object, Marker.endObject, shared, Len(ks),
                      [i \in DOMAIN ks |-> UbjsonKey(ks[i], bj) \o WriteUbjson(v.o[ks[i]], count, type, shared = {}, bj)],
                      count, prefix, bj)

WriteUbjson(v, count, type, prefix, bj) ==
  CASE v.t \in {"null", "boolean"} -> IF prefix THEN <<UbjsonPrefix(v, bj)>> ELSE << >>
    [] v.t = "integer"   -> UbjsonInteger(v.neg, v.m, prefix, bj)
    [] v.t = "unsigned"  -> UbjsonInteger(FALSE, v.m, prefix, bj)
    [] v.t = "float"     -> (IF prefix THEN <<Marker.double>> ELSE << >>) \o Ordered(v.bits, bj)
    [] v.t = "string"    -> (IF prefix THEN <<Marker.string>> ELSE << >>) \o UbjsonKey(v.s, bj)
    [] v.t = "array"     -> WriteUbjsonArray(v, count, type, prefix, bj)
    [] v.t = "binary"    -> UbjsonBinary(v.s, count, type, prefix, bj)
    [] v.t = "object"    -> IF bj /\ Annotated(v) /\ v.o[ArrayType].t # "string" THEN Serializer!Thrown
                            ELSE IF bj /\ IsNdArray(v) THEN WriteNdArray(v, count, type, bj)
                            ELSE WriteUbjsonObject(v, count, type, prefix, bj)
    [] v.t = "discarded" -> << >>

-----------------------------------------------------------------------------
(* parse_ubjson_internal: i bytes are read, the last one may be the marker *)
(* in prefix.                                                              *)

\* get_ignore_noop: the first byte that is no 'N'.
RECURSIVE IgnoreNoop(_, _)
IgnoreNoop(x, i) == IF Get(x, i + 1) = Marker.noop THEN IgnoreNoop(x, i + 1) ELSE i + 1

IntegerMarkers(bj) == {k \in DOMAIN IntegerTypes : IntegerTypes[k].bj => bj}
TypesOf(prefix, bj) == {k \in IntegerMarkers(bj) : IntegerTypes[k].code = prefix}
TypeOf(prefix, bj)  == IntegerTypes[CHOOSE k \in TypesOf(prefix, bj) : TRUE]

\* The integer after its marker.
UbjsonNumber(x, i, prefix, bj) ==
  LET type == TypeOf(prefix, bj)
  IN  Then(GetBytesOf(x, i, type.size, bj), LAMBDA b, r : Got(IF type.signed THEN SignedNumber(b) ELSE Unsigned(Trim(b)), r))

IsBelowZero(v) == v.t = "integer" /\ v.neg

\* A string whose length's marker is the i-th byte; none has a negative length.
UbjsonString(x, i, bj) ==
  IF TypesOf(Get(x, i), bj) = {} THEN Failed
  ELSE Then(UbjsonNumber(x, i, Get(x, i), bj), LAMBDA n, r : GetString(x, r, IF IsBelowZero(n) THEN << >> ELSE n.m))

\* The size of a container, without limit the largest one; for a packed
\* array also its dimensions.
NoSize == [i \in 1 .. 8 |-> 255]
Sized(size, dims, type) == [size |-> size, dims |-> dims, type |-> type]
NoType == 0

RECURSIVE SizeValue(_, _, _, _, _), SizeType(_, _, _, _), NdSize(_, _, _), Dimensions(_, _, _, _, _)

\* The size that a vector of dimensions stands for.
SizeOfDimensions(dims, read) ==
  LET n == Len(dims)
      overflow == \E k \in 1 .. n : Product(SubSeq(dims, 1, k)) \in {<< >>, NoSize}
  IN  IF n = 1 \/ (n = 2 /\ dims[1] = <<1>>) THEN Got(Sized(dims[n], << >>, NoType), read)
      ELSE IF n = 0 \/ \E k \in 1 .. n : dims[k] = << >> THEN Got(Sized(<< >>, << >>, NoType), read)
      ELSE IF overflow THEN Failed
      ELSE Got(Sized(Product(dims), dims, NoType), read)

\* nested: no vector of dimensions may stand here.
SizeValue(x, i, prefix, nested, bj) ==
  LET r == IF prefix = 0 THEN IgnoreNoop(x, i) ELSE i
      p == IF prefix = 0 THEN Get(x, r) ELSE prefix
  IN  IF TypesOf(p, bj) # {}
      THEN Then(UbjsonNumber(x, r, p, bj), LAMBDA n, s : IF IsBelowZero(n) THEN Failed ELSE Got(Sized(n.m, << >>, NoType), s))
      ELSE IF p = Marker.array /\ bj /\ ~nested
      THEN Then(NdSize(x, r, bj), SizeOfDimensions)
      ELSE Failed

\* What stands before the values of a container, up to the last byte read.
SizeType(x, i, inside, bj) ==
  LET j     == IgnoreNoop(x, i)
      typed == Get(x, j) = Marker.type
      k     == IF typed THEN IgnoreNoop(x, j + 1) ELSE j
      type  == IF typed THEN Get(x, j + 1) ELSE NoType
  IN  IF ~typed /\ Get(x, j) # Marker.count THEN Got(Sized(NoSize, << >>, NoType), j)
      ELSE IF type = Eof \/ (bj /\ type \in Excluded) \/ Get(x, k) # Marker.count THEN Failed
      ELSE Then(SizeValue(x, k, 0, FALSE, bj), LAMBDA z, s :
             IF (inside \/ ~typed) /\ z.dims # << >> THEN Failed ELSE Got([z EXCEPT !.type = type], s))

\* The dimensions are an array of sizes, in any of its forms.
NdSize(x, i, bj) ==
  Then(SizeType(x, i, TRUE, bj), LAMBDA z, r :
    IF z.type = Marker.noop THEN Got(<< >>, r) ELSE Dimensions(x, r, z, << >>, bj))

Dimensions(x, i, z, dims, bj) ==
  LET open == z.size = NoSize
  IN  IF (open /\ Get(x, i) = Marker.endArray) \/ Mag(Len(dims)) = z.size THEN Got(dims, i)
      ELSE Then(SizeValue(x, i, IF open THEN Get(x, i) ELSE z.type, TRUE, bj), LAMBDA d, r :
             Dimensions(x, IF open THEN IgnoreNoop(x, r) ELSE r, z, Append(dims, d.size), bj))

\* A number in decimal: one token of the lexer and nothing after it.
HighValue(token) ==
  CASE token.type = "value_integer"  -> {Integer(token.value # << >>, token.value)}
    [] token.type = "value_unsigned" -> {Unsigned(token.value)}
    [] token.type = "value_float"    -> {Float(token.value)}
    [] OTHER                         -> {}

HighPrecision(tokens, read) ==
  IF HighValue(tokens[0]) # {} /\ tokens[tokens[0].read].type = "end_of_input"
  THEN Got(CHOOSE v \in HighValue(tokens[0]) : TRUE, read) ELSE Failed

UbjsonHigh(x, i, bj) ==
  Then(SizeValue(x, i, 0, TRUE, bj), LAMBDA z, r :
    Then(GetString(x, r, z.size), LAMBDA b, s : HighPrecision([n \in 0 .. Len(b) + 1 |-> Lexer!Scan(b, n, FALSE)], s)))

UbjsonFloat(x, i, prefix, bj) ==
  GetFloat(x, i, IF prefix = Marker.half THEN Binary16 ELSE IF prefix = Marker.single THEN Binary32 ELSE Binary64, bj)

RECURSIVE UbjsonValue(_, _, _, _), UbjsonItems(_, _, _, _, _), UbjsonMembers(_, _, _, _, _, _)

\* The values of an array: each after the shared marker, after its own, or,
\* up to the end marker, from the byte read last.
UbjsonItems(x, i, z, a, bj) ==
  LET open   == z.size = NoSize
      at     == IF open THEN i ELSE IF z.type = NoType THEN IgnoreNoop(x, i) ELSE i
      prefix == IF ~open /\ z.type # NoType THEN z.type ELSE Get(x, at)
  IN  IF (open /\ Get(x, i) = Marker.endArray) \/ Mag(Len(a)) = z.size \/ (~open /\ z.type = Marker.noop) THEN Got(Array(a), i)
      ELSE Then(UbjsonValue(x, at, prefix, bj), LAMBDA v, r :
             UbjsonItems(x, IF open THEN IgnoreNoop(x, r) ELSE r, z, Append(a, v), bj))

UbjsonMembers(x, i, z, o, n, bj) ==
  LET open == z.size = NoSize
  IN  IF (open /\ Get(x, i) = Marker.endObject) \/ Mag(n) = z.size THEN Got(Object(o), i)
      ELSE Then(UbjsonString(x, IF open THEN i ELSE i + 1, bj), LAMBDA k, r :
             LET shared == ~open /\ z.type # NoType
                 at     == IF shared THEN r ELSE IgnoreNoop(x, r)
             IN  Then(UbjsonValue(x, at, IF shared THEN z.type ELSE Get(x, at), bj), LAMBDA v, s :
                   UbjsonMembers(x, IF open THEN IgnoreNoop(x, s) ELSE s, z, WithMember(o, k, v), n + 1, bj)))

\* A packed array becomes an object that says its type, sizes and data.
Annotating(type, dims, data) ==
  LET name  == NdTypes[CHOOSE k \in DOMAIN NdTypes : NdTypes[k].code = type].name
      sizes == [k \in DOMAIN dims |-> Unsigned(dims[k])]
  IN  Object(WithMember(WithMember(WithMember(<< >>, ArrayType, String(name)), ArraySize, Array(sizes)), ArrayData, data))

UbjsonArray(x, i, bj) ==
  Then(SizeType(x, i, FALSE, bj), LAMBDA z, r :
    IF z.dims # << >> /\ z.type \notin {NdTypes[k].code : k \in DOMAIN NdTypes} THEN Failed
    ELSE Then(UbjsonItems(x, r, IF z.dims # << >> /\ z.type = Marker.char THEN [z EXCEPT !.type = 85] ELSE z, << >>, bj),
              LAMBDA v, s : Got(IF z.dims = << >> THEN v ELSE Annotating(z.type, z.dims, v), s)))

UbjsonObject(x, i, bj) ==
  Then(SizeType(x, i, FALSE, bj), LAMBDA z, r : IF z.dims # << >> THEN Failed ELSE UbjsonMembers(x, r, z, << >>, 0, bj))

UbjsonValue(x, i, prefix, bj) ==
  CASE prefix \in {Marker.true, Marker.false} -> Got(Boolean(prefix = Marker.true), i)
    [] prefix = Marker.null    -> Got(Null, i)
    [] TypesOf(prefix, bj) # {} -> UbjsonNumber(x, i, prefix, bj)
    [] prefix \in {Marker.single, Marker.double} \/ (bj /\ prefix = Marker.half) -> UbjsonFloat(x, i, prefix, bj)
    [] prefix = Marker.high    -> UbjsonHigh(x, i, bj)
    [] prefix = Marker.char    -> IF Get(x, i + 1) \in 0 .. 127 THEN Got(String(<<x[i + 1]>>), i + 1) ELSE Failed
    [] prefix = Marker.string  -> Then(UbjsonString(x, i + 1, bj), LAMBDA b, r : Got(String(b), r))
    [] prefix = Marker.array   -> UbjsonArray(x, i, bj)
    [] prefix = Marker.object  -> UbjsonObject(x, i, bj)
    [] OTHER                   -> Failed

\* from_ubjson and from_bjdata: only 'N's may follow the value.
UpToNoop(x, r) == IF r.ok /\ Get(x, IgnoreNoop(x, r.read)) = Eof THEN r.v ELSE Discarded

FromUbjson(x, bj) ==
  LET at == IgnoreNoop(x, 0) IN UpToNoop(x, UbjsonValue(x, at, Get(x, at), bj))

=============================================================================
