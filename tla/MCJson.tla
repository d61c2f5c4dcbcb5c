------------------------------- MODULE MCJson -------------------------------
(***************************************************************************)
(* Small instances of the JSON library: texts of one kind of fragment      *)
(* (`part' is their kind), values and patches ("document"), ordered        *)
(* objects ("ordered"), and the values at the bounds of a format           *)
(* ("values"), which stay as they are.                                     *)
(***************************************************************************)
EXTENDS JsonDocument, OrderedMap, JsonText, JsonFormats

VARIABLE part

vars == <<part, kind, text, doc, members, twin>>

-----------------------------------------------------------------------------
(* Texts.                                                                  *)

\* The digits of 2^64 and of 2^63 with another last one.
Next2to64(d) == <<49, 56, 52, 52, 54, 55, 52, 52, 48, 55, 51, 55, 48, 57, 53, 53, 49, 54, 49, d>>
Next2to63(d) == <<57, 50, 50, 51, 51, 55, 50, 48, 51, 54, 56, 53, 52, 55, 55, 53, 56, 48, d>>

\* 1.7976931348623158, which is the largest double at e308, and the next.
Highest(d) == <<49, 46, 55, 57, 55, 54, 57, 51, 49, 51, 52, 56, 54, 50, 51, 49, 53, d>>

MCFragments ==
  [structure |-> {<<91>>, <<93>>, <<123>>, <<125>>, <<44>>, <<58>>, <<34, 97, 34>>, <<49>>, <<32>>, <<0>>},
   objects   |-> {<<93>>, <<123>>, <<125>>, <<44>>, <<34, 97, 34, 58>>, <<34, 98, 34, 58, 91>>, <<49>>},
   numbers   |-> {<<48>>, <<49>>, <<45>>, <<43>>, <<46>>, <<101>>},
   integers  |-> {<<45>>, <<48>>} \cup {Next2to64(d) : d \in {53, 54}} \cup {Next2to63(d) : d \in {55, 56, 57}},
   exponents |-> {<<45>>, <<48>>, <<49>>} \cup {Highest(d) : d \in {56, 57}}
                 \cup {<<101, 51, 48, d>> : d \in {56, 57}} \cup {<<101, 45, 51, 50, 52>>},
   strings   |-> {<<34>>, <<92>>, <<97>>, <<110>>, <<0>>, <<31>>, <<195>>, <<169>>, <<237>>, <<159>>, <<240>>, <<244>>, <<143>>},
   escapes   |-> {<<34>>, <<92, 117, 100, 56>>, <<92, 117, 100, 67>>, <<92, 117, 48, 48>>, <<48, 48>>, <<71, 49>>},
   comments  |-> {<<47>>, <<42>>, <<10>>, <<49>>, <<34>>, <<91>>, <<93>>, <<0>>},
   literals  |-> {<<116, 114>>, <<117, 101>>, <<102, 97, 108>>, <<115, 101>>, <<110, 117>>, <<108>>, <<239, 187>>, <<191>>, <<32>>, <<0>>},
   utf16     |-> {<<0>>, <<34>>, <<233>>, <<2047>>, <<2048>>, <<55296>>, <<56319>>, <<56320>>, <<57343>>, <<65535>>},
   utf32     |-> {<<0>>, <<34>>, <<127>>, <<128>>, <<2047>>, <<2048>>, <<55296>>, <<65535>>, <<65536>>, <<1114111>>, <<1114112>>}]

MCMostUnits ==
  [structure |-> 7, objects |-> 14, numbers |-> 5, exponents |-> 23, integers |-> 22, strings |-> 6, escapes |-> 14, comments |-> 6, literals |-> 6, utf16 |-> 5, utf32 |-> 5]
MCFreeUnits ==
  [structure |-> 4, objects |-> 5, numbers |-> 3, exponents |-> 0, integers |-> 2, strings |-> 4, escapes |-> 4, comments |-> 4, literals |-> 4, utf16 |-> 3, utf32 |-> 3]

-----------------------------------------------------------------------------
(* Values.                                                                 *)

A == <<97>>

MCNames == {A, <<48>>, <<47, 126>>}
MCItems ==
  {Null, Boolean(TRUE), Unsigned(<<1>>), String(A), EmptyArray, EmptyObject,
   Array(<<Null, Null>>), Object([k \in {A} |-> Null]), Object([k \in {A} |-> EmptyArray])}

MCKeys    == MCNames \cup {<< >>}
MCMapped  == {Null, Boolean(TRUE)}
MCDefault == Null

\* A binary value without a subtype and with either of two.
Subtyped(b) == {Binary(b, subtype) : subtype \in {<< >>, <<<<7>>>>, <<<<200>>>>}}

\* An integer too large for a double lies between integers by its own value,
\* and ties with a float that stands for its neighbour.
Rounded ==
  {Array(<<Unsigned(<<32, 0, 0, 0, 0, 0, 1>>), Unsigned(<< >>)>>),
   Array(<<Float(<<67, 64>> \o Zeros(6)), Unsigned(<<1>>)>>),
   Array(<<Unsigned(<<32>> \o Zeros(6)), Unsigned(<<2>>)>>)}

MCOthers ==
  MCItems \cup {Boolean(FALSE), Integer(TRUE, <<1>>), Integer(TRUE, <<2>>), Unsigned(<<2>>), String(<< >>),
              Float(<<63, 248>> \o Zeros(6)), Float(<<191, 248>> \o Zeros(6)), Array(<<Null>>),
              Object([k \in {<<48>>} |-> Null])}
  \cup Subtyped(A) \cup {Binary(<< >>, << >>), Binary(<<98>>, <<<<7>>>>), Binary(A \o A, << >>)}
  \cup {Array(<<b, w>>) : b \in Subtyped(A), w \in {Unsigned(<<1>>), String(A)}}
  \cup Rounded

\* The magnitudes on both sides of every width.
Bounds ==
  {<< >>, <<23>>, <<24>>, <<31>>, <<32>>, <<33>>, <<127>>, <<128>>, <<129>>, <<255>>, <<1, 0>>,
   <<127, 255>>, <<128, 0>>, <<128, 1>>, <<255, 255>>, <<1, 0, 0>>, <<127, 255, 255, 255>>,
   <<128, 0, 0, 0>>, <<128, 0, 0, 1>>, <<255, 255, 255, 255>>, <<1, 0, 0, 0, 0>>,
   <<127>> \o [i \in 1 .. 7 |-> 255], <<128>> \o Zeros(7), [i \in 1 .. 8 |-> 255]}

As(n) == [i \in 1 .. n |-> 97]

Scalars ==
  {Null, Boolean(FALSE)} \cup {Unsigned(m) : m \in Bounds}
  \cup {Integer(TRUE, m) : m \in {m \in Bounds : m # << >> /\ AtMost(m, <<128>> \o Zeros(7))}}
  \cup {String(As(n)) : n \in {0, 1, 23, 24, 31, 32, 255, 256}}
  \cup UNION {Subtyped(As(n)) : n \in {0, 1, 2, 3, 4, 8, 16, 17}}
  \cup {Binary(As(n), <<m>>) : n \in {1, 3}, m \in Bounds}
  \cup {Float(StrToD(neg, d, e)) : neg \in BOOLEAN, d \in {<<0>>, <<1>>, <<1, 5>>, <<1, 2, 3>>}, e \in {-7, -1, 0, 3}}
  \cup {Float(Infinity(Binary64, TRUE)), Float(QuietNaN(Binary64))}

\* Strings that are UTF-8 and strings that are not.
Bytewise ==
  {String(s) : s \in {<<34, 92>>, <<7, 8, 31>>, <<127>>, <<194, 128>>, <<239, 191, 191>>, <<240, 144, 128, 128>>,
                      <<244, 143, 191, 191>>, <<128>>, <<97, 195>>, <<195, 97>>, <<224, 159, 191>>,
                      <<237, 160, 128>>, <<240, 143, 191, 191>>, <<244, 144, 128, 128>>, <<226, 130>>, <<97, 226, 130, 97>>}}

\* What BJData packs: a type, the dimensions and the data, row after row.
Packed(type, dims, data) ==
  Object([k \in {U!ArrayType, U!ArraySize, U!ArrayData} |->
            CASE k = U!ArrayType -> String(U!NdTypes[type].name)
              [] k = U!ArraySize -> Array([i \in DOMAIN dims |-> Unsigned(Mag(dims[i]))])
              [] k = U!ArrayData -> Array(data)])

Tables ==
  {Packed(1, <<2, 3>>, [i \in 1 .. 6 |-> Unsigned(Mag(40 * i))]), Packed(1, <<2, 2>>, <<Unsigned(<<1>>)>>),
   Packed(4, <<3, 1>>, [i \in 1 .. 3 |-> Integer(TRUE, <<i, 0>>)]),
   Packed(7, <<2, 1, 2>>, [i \in 1 .. 4 |-> Unsigned(<<i, 0, 0, 0, 0, 0, 0, 1>>)]),
   Packed(9, <<2, 1>>, [i \in 1 .. 2 |-> Float(StrToD(i = 1, <<1, 5>>, i - 2))]),
   Packed(10, <<2, 1>>, [i \in 1 .. 2 |-> Float(StrToD(i = 1, <<1, 1>>, -i))]),
   Packed(11, <<1, 1, 2>>, [i \in 1 .. 2 |-> Unsigned(<<96 + i>>)])}

MCValues ==
  Scalars \cup Tables \cup Bytewise \cup Rounded
  \cup {Array([i \in 1 .. n |-> Null]) : n \in {1, 15, 16, 23, 24}}
  \cup {Object([k \in {<<j>> : j \in 65 .. 64 + n} |-> Boolean(TRUE)]) : n \in {1, 15, 16, 24}}
  \cup {Array(<<v, w>>) : v, w \in {Null, Unsigned(<<1>>), Unsigned(<<200>>), Integer(TRUE, <<129>>), String(A), EmptyArray} \cup Subtyped(A)}
  \cup {Object([k \in {<< >>, A} |-> IF k = A THEN v ELSE w]) :
          v, w \in {Boolean(TRUE), Unsigned(<<255>>), Binary(A, << >>), Unsigned([i \in 1 .. 8 |-> 255]), EmptyObject}}

-----------------------------------------------------------------------------
MCRefusals ==
  {{}} \cup {{<<event, depth>>} : event \in {"value", "key", "start_object", "end_object", "start_array", "end_array"},
                                  depth \in 0 .. 2}
  \cup {{<<"value", 1, Unsigned(<<1>>)>>}, {<<"key", 2>>, <<"end_object", 1>>}, {<<"value", 2>>, <<"start_array", 1>>},
        {<<"value", 1>>, <<"end_object", 1>>}, {<<"end_array", 1>>, <<"end_object", 1>>}}

Init ==
  /\ part \in DOMAIN MCFragments \cup {"document", "ordered", "values"}
  /\ kind = IF part \in DOMAIN MCFragments THEN part ELSE "none"
  /\ text = << >>
  /\ IF part = "values" THEN doc \in MCValues ELSE doc = Null
  /\ MapInit

Next ==
  /\ UNCHANGED part
  /\ \/ part \in DOMAIN MCFragments /\ Extend /\ UNCHANGED <<doc, mapVars>>
     \/ part = "document" /\ Modify /\ UNCHANGED <<textVars, mapVars>>
     \/ part = "ordered" /\ ModifyOrdered /\ UNCHANGED <<textVars, doc>>

Spec == Init /\ [][Next]_vars

-----------------------------------------------------------------------------
(* Properties.                                                             *)

\* What dump writes parse reads as the same value; see TextReturns.
TextRoundTrip == part = "values" => TextReturns(doc)

\* What is written as CBOR, MessagePack, UBJSON, BJData or BSON is read as
\* the same value, and no part of it is; see BinaryReturns.
BinaryRoundTrip ==
  part = "values" =>
    \A v \in {doc, Object([k \in {A} |-> doc])} :
      BinaryReturns(v, IF v = doc THEN Manners ELSE [format : {"bson"}])

\* Of two values one is less or they are equal, and less is transitive; see
\* TotallyOrdered for the values this is said of.
OrderIsTotal == part \in {"document", "values"} => TotallyOrdered(doc)

=============================================================================
