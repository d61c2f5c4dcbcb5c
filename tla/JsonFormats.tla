----------------------------- MODULE JsonFormats -----------------------------
(***************************************************************************)
(* What comes back of a value that the JSON library writes and reads       *)
(* again, as text and in its five binary formats.                          *)
(***************************************************************************)
EXTENDS JsonValue

Parser  == INSTANCE JsonParser
Grammar == INSTANCE JsonGrammar
W == INSTANCE JsonSerializer
C == INSTANCE JsonPacked
U == INSTANCE JsonUbjson
B == INSTANCE JsonBson

\* No format tells an unsigned number from a positive one that is signed.
Untyped(v) == IF v.t = "unsigned" THEN Integer(FALSE, v.m) ELSE v

\* What a value becomes in a format: its text has no infinities and no bytes
\* but an object of them, UBJSON an array of numbers, and BSON no bytes
\* without a subtype.  A subtype has 64 bits, of which MessagePack and BSON
\* keep the lowest eight, and CBOR all in a tag, which a reader may ignore.
Numbers(s)   == Array([i \in DOMAIN s |-> Integer(FALSE, Trim(<<s[i]>>))])
Described(v) ==
  LET subtype == IF v.subtype = << >> THEN Null ELSE Integer(FALSE, v.subtype[1])
  IN  Object([k \in {<<98, 121, 116, 101, 115>>, <<115, 117, 98, 116, 121, 112, 101>>} |->
                IF Len(k) = 5 THEN Numbers(v.s) ELSE subtype])

LowestByte(m) == Trim(<<Pad(m, 8)[8]>>)

Becoming(v, format) ==
  CASE v.t = "binary" /\ format = "text"   -> Described(v)
    [] v.t = "binary" /\ format = "ubjson" -> Numbers(v.s)
    [] v.t = "binary" /\ format = "bson" /\ v.subtype = << >> -> Binary(v.s, <<<< >>>>)
    [] v.t = "binary" /\ format = "untagged" -> Binary(v.s, << >>)
    [] v.t = "binary" /\ format \in {"bson", "msgpack"} /\ v.subtype # << >> ->
         Binary(v.s, <<LowestByte(v.subtype[1])>>)
    [] v.t = "float" /\ format = "text" /\ ~IsFinite(Binary64, v.bits) -> Null
    [] OTHER -> Untyped(v)

\* In no format but itself a value only forgets the type of its integers.
RECURSIVE In(_, _)
In(format, v) ==
  IF v.t = "array" THEN Array([i \in DOMAIN v.a |-> In(format, v.a[i])])
  ELSE IF v.t = "object" THEN Object([k \in DOMAIN v.o |-> In(format, v.o[k])])
  ELSE Becoming(v, format)

RECURSIVE Texts(_)
Texts(v) ==
  CASE v.t = "string" -> {v.s}
    [] v.t = "array"  -> UNION {Texts(v.a[i]) : i \in DOMAIN v.a}
    [] v.t = "object" -> DOMAIN v.o \cup UNION {Texts(v.o[k]) : k \in DOMAIN v.o}
    [] OTHER          -> {}

RECURSIVE IsUtf8Text(_)
IsUtf8Text(s) ==
  s = << >> \/ \E n \in (1 .. 4) \cap DOMAIN s : Grammar!IsUtf8(SubSeq(s, 1, n)) /\ IsUtf8Text(SubSeq(s, n + 1, Len(s)))

-----------------------------------------------------------------------------
\* dump throws for a string that is not UTF-8 and for nothing else; what it
\* writes, compact, indented or in ASCII, parse reads as the same value.
\* Told to replace or to ignore bad bytes, it always writes a text.
Steps == {-1, 0, 2}

Written(v, out, sound, ascii, handler) ==
  /\ W!Throws(out) <=> ~sound /\ handler = "strict"
  /\ sound => In("itself", Parser!Parse(out, FALSE)) = In("text", v)
  /\ ~sound /\ ~W!Throws(out) => Parser!Accept(out, FALSE, TRUE)
  /\ ascii /\ ~W!Throws(out) => \A i \in DOMAIN out : out[i] < 128

TextReturns(v) ==
  \A sound \in {\A s \in Texts(v) : IsUtf8Text(s)} :
    \A step \in Steps, ascii \in BOOLEAN, handler \in IF sound THEN {"strict"} ELSE {"strict", "replace", "ignore"} :
      \A out \in {W!Dump(v, ascii, step, handler)} : Written(v, out, sound, ascii, handler)

\* CBOR that others write: strings and byte arrays in two chunks, containers
\* without a length, and whatever else as it is.
Chunks(s, major) ==
  LET half == Len(s) \div 2
  IN  <<major * 32 + 31>> \o C!CborHead(major, Mag(half)) \o SubSeq(s, 1, half)
      \o C!CborHead(major, Mag(Len(s) - half)) \o SubSeq(s, half + 1, Len(s)) \o <<255>>

RECURSIVE Indefinitely(_)
Indefinitely(v) ==
  CASE v.t = "string" -> Chunks(v.s, 3)
    [] v.t = "binary" /\ v.subtype = << >> -> Chunks(v.s, 2)
    [] v.t = "array"  -> <<159>> \o C!WrittenItems(v, Indefinitely) \o <<255>>
    [] v.t = "object" -> <<191>> \o C!WrittenMembers(v, LAMBDA k : Chunks(k, 3), Indefinitely) \o <<255>>
    [] OTHER          -> C!WriteCbor(v)

\* The ways to write a value in a binary format and to read it.  CBOR comes in
\* parts or not, and its tags are kept, ignored or refused; UBJSON may state the
\* number and the type of a container's elements, is of either draft (the other
\* is BJData), and may have an 'N' before it and two behind.
Manners ==
  [format : {"msgpack", "bson"}]
  \cup [format : {"cbor"}, parts : BOOLEAN, tags : {"store", "ignore", "error"}]
  \cup {m \in [format : {"ubjson"}, counted : BOOLEAN, typed : BOOLEAN, draft : BOOLEAN, noop : BOOLEAN] :
          m.typed => m.counted}

Message(m, v) ==
  CASE m.format = "cbor"    -> IF m.parts THEN Indefinitely(v) ELSE C!WriteCbor(v)
    [] m.format = "msgpack" -> C!WriteMsgpack(v)
    [] m.format = "bson"    -> B!WriteBson(v)
    [] m.format = "ubjson"  -> LET x == U!WriteUbjson(v, m.counted, m.typed, TRUE, m.draft)
                               IN  IF m.noop THEN <<78>> \o x \o <<78, 78>> ELSE x

ReadAs(m, x) ==
  CASE m.format = "cbor"    -> C!FromCbor(x, m.tags)
    [] m.format = "msgpack" -> C!FromMsgpack(x)
    [] m.format = "bson"    -> B!FromBson(x)
    [] m.format = "ubjson"  -> U!FromUbjson(x, m.draft)

Expected(m, v) ==
  LET tagged == In("cbor", v) # In("untagged", v)
  IN  IF m.format # "cbor" \/ m.tags = "store" \/ ~tagged THEN In(m.format, v)
      ELSE IF m.tags = "ignore" THEN In("untagged", v)
      ELSE Discarded

\* The lengths of what is read of a message: all of it, or cut short.
Cuts(x) == {n \in 0 .. Len(x) : n < 12 \/ n > Len(x) - 4}

Returns(m, v, x) ==
  \A n \in IF m.format = "ubjson" /\ m.noop THEN {Len(x)} ELSE Cuts(x) :
    \A read \in {ReadAs(m, SubSeq(x, 1, n))} :
      IF n < Len(x) THEN read = Discarded ELSE In("itself", read) = Expected(m, v)

\* What is written in a binary format is read as the same value, up to the
\* types the format has, and no message that was cut short is read at all.
\* BSON has objects only, and the size it computes beforehand is the one it
\* writes.
BinaryReturns(v, manners) ==
  \A m \in manners : \A x \in {Message(m, v)} :
    IF m.format = "bson" /\ (v.t # "object" \/ B!BsonRefuses(v)) THEN B!Serializer!Throws(x)
    ELSE /\ m.format = "bson" => Len(x) = B!BsonSize(v)
         /\ Returns(m, v, x)

=============================================================================
