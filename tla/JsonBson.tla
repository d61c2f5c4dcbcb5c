------------------------------ MODULE JsonBson ------------------------------
(***************************************************************************)
(* BSON, as the JSON library writes and reads it: a document is its size,  *)
(* its named elements and a zero byte, all numbers little-endian.          *)
(***************************************************************************)
EXTENDS JsonBytes

Serializer == INSTANCE JsonSerializer

\* The name of an array's element: its index from 0.
IndexName(i) == Serializer!DumpInteger(FALSE, Mag(i - 1))

\* The elements of a document in the order written: names and values.
Elements(v) ==
  IF v.t = "array" THEN [i \in DOMAIN v.a |-> [name |-> IndexName(i), v |-> v.a[i]]]
  ELSE LET ks == Keys(v) IN [i \in DOMAIN ks |-> [name |-> ks[i], v |-> v.o[ks[i]]]]

\* A name ends at its zero byte and cannot hold one; integers have a sign.
RECURSIVE BsonRefuses(_)
BsonRefuses(v) ==
  \/ v.t = "unsigned" /\ ~FitsSigned(FALSE, v.m, 8)
  \/ v.t \in {"array", "object"} /\ \E e \in {Elements(v)[i] : i \in DOMAIN Elements(v)} :
                                      (\E j \in DOMAIN e.name : e.name[j] = 0) \/ BsonRefuses(e.v)

BsonIntegerSize(neg, m) == IF FitsSigned(neg, m, 4) THEN 4 ELSE 8

\* calc_bson_element_size without the header, and calc_bson_object_size.
RECURSIVE BsonSize(_)
BsonSize(v) ==
  LET sum[i \in 0 .. 64] == IF i = 0 THEN 0 ELSE sum[i - 1] + 2 + Len(Elements(v)[i].name) + BsonSize(Elements(v)[i].v)
  IN  CASE v.t \in {"array", "object"} -> 4 + sum[Len(Elements(v))] + 1
        [] v.t \in {"string", "binary"} -> 4 + Len(v.s) + 1
        [] v.t = "boolean"  -> 1
        [] v.t = "float"    -> 8
        [] v.t = "integer"  -> BsonIntegerSize(v.neg, v.m)
        [] v.t = "unsigned" -> BsonIntegerSize(FALSE, v.m)
        [] v.t = "null"     -> 0

BsonInt32(n) == Backwards(Pad(Mag(n), 4))

BsonType(v) ==
  CASE v.t = "float" -> 1 [] v.t = "string" -> 2 [] v.t = "object" -> 3 [] v.t = "array" -> 4
    [] v.t = "binary" -> 5 [] v.t = "boolean" -> 8 [] v.t = "null" -> 10
    [] v.t = "integer"  -> IF BsonIntegerSize(v.neg, v.m) = 4 THEN 16 ELSE 18
    [] v.t = "unsigned" -> IF BsonIntegerSize(FALSE, v.m) = 4 THEN 16 ELSE 18

\* A subtype keeps its lowest byte, and no subtype is written as 0.
BsonSubtype(v) == IF v.subtype = << >> THEN 0 ELSE Pad(v.subtype[1], 8)[8]

BsonScalar(v) ==
  CASE v.t = "float"    -> Backwards(v.bits)
    [] v.t = "string"   -> BsonInt32(Len(v.s) + 1) \o v.s \o <<0>>
    [] v.t = "binary"   -> BsonInt32(Len(v.s)) \o <<BsonSubtype(v)>> \o v.s
    [] v.t = "boolean"  -> <<IF v.b THEN 1 ELSE 0>>
    [] v.t = "null"     -> << >>
    [] v.t = "integer"  -> Backwards(SignedBytes(v.neg, v.m, BsonIntegerSize(v.neg, v.m)))
    [] v.t = "unsigned" -> Backwards(Pad(v.m, BsonIntegerSize(FALSE, v.m)))

RECURSIVE WriteBsonDocument(_)
WriteBsonElement(e) ==
  <<BsonType(e.v)>> \o e.name \o <<0>>
  \o IF e.v.t \in {"array", "object"} THEN WriteBsonDocument(e.v) ELSE BsonScalar(e.v)

WriteBsonDocument(v) ==
  BsonInt32(BsonSize(v))
  \o Concatenated([i \in DOMAIN Elements(v) |-> WriteBsonElement(Elements(v)[i])])
  \o <<0>>

\* write_bson: what is refused is thrown before a byte is handed out.
WriteBson(v) == IF v.t # "object" \/ BsonRefuses(v) THEN Serializer!Thrown ELSE WriteBsonDocument(v)

-----------------------------------------------------------------------------
(* parse_bson_internal: i bytes are read.                                  *)

\* get_bson_cstr: up to the next zero byte.
BsonCstr(x, i) ==
  LET ends == {j \in i + 1 .. Len(x) : x[j] = 0}
      j    == CHOOSE j \in ends : \A k \in ends : j <= k
  IN  IF ends = {} THEN Failed ELSE Got(SubSeq(x, i + 1, j - 1), j)

BsonNumber(x, i, n) == Then(GetBytesOf(x, i, n, TRUE), LAMBDA b, r : Got(SignedNumber(b), r))

\* A string of at least one byte, whose last is not looked at.
BsonString(x, i) ==
  Then(BsonNumber(x, i, 4), LAMBDA len, r :
    IF len.neg \/ len.m = << >> THEN Failed
    ELSE Then(GetString(x, r, Minus(len.m, <<1>>)), LAMBDA b, s : IF Get(x, s + 1) = Eof THEN Failed ELSE Got(String(b), s + 1)))

BsonBinary(x, i) ==
  Then(BsonNumber(x, i, 4), LAMBDA len, r :
    IF len.neg THEN Failed
    ELSE Then(GetNumber(x, r, 1, FALSE), LAMBDA m, s :
           Then(GetString(x, s, len.m), LAMBDA b, u : Got(Binary(b, <<m>>), u))))

RECURSIVE BsonDocument(_, _, _), BsonElementList(_, _, _, _)

BsonElement(x, i, type) ==
  CASE type = 1  -> Then(GetBytesOf(x, i, 8, TRUE), LAMBDA b, r : Got(Float(b), r))
    [] type = 2  -> BsonString(x, i)
    [] type = 3  -> BsonDocument(x, i, "object")
    [] type = 4  -> BsonDocument(x, i, "array")
    [] type = 5  -> BsonBinary(x, i)
    [] type = 8  -> Got(Boolean(Get(x, i + 1) # 0), i + 1)
    [] type = 10 -> Got(Null, i)
    [] type = 16 -> BsonNumber(x, i, 4)
    [] type = 18 -> BsonNumber(x, i, 8)
    [] OTHER     -> Failed

\* The names of an array's elements are read and forgotten.
BsonElementList(x, i, kind, v) ==
  IF Get(x, i + 1) = 0 THEN Got(v, i + 1)
  ELSE IF Get(x, i + 1) = Eof THEN Failed
  ELSE Then(BsonCstr(x, i + 1), LAMBDA name, r :
         Then(BsonElement(x, r, Get(x, i + 1)), LAMBDA w, s :
           BsonElementList(x, s, kind, IF kind = "array" THEN Array(Append(v.a, w))
                                       ELSE Object(WithMember(v.o, name, w)))))

\* The size of a document is not compared with what follows.
BsonDocument(x, i, kind) ==
  Then(GetBytesOf(x, i, 4, TRUE), LAMBDA size, r :
    BsonElementList(x, r, kind, IF kind = "array" THEN EmptyArray ELSE EmptyObject))

\* from_bson: nothing may follow the document.
FromBson(x) == Whole(x, BsonDocument(x, 0, "object"))

=============================================================================
