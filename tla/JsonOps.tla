------------------------------ MODULE JsonOps ------------------------------
(***************************************************************************)
(* The operations of basic_json (nlohmann/json.hpp): construction, access, *)
(* modification, comparison.  An operation that can throw returns the set  *)
(* of its result, which is empty when it does.  An index or an iterator is *)
(* a number from 0.                                                        *)
(***************************************************************************)
EXTENDS JsonValue

LOCAL INSTANCE TLC

\* What std::vector and std::map do.
RECURSIVE Flattened(_), Merged(_)
Flattened(ss) == IF ss = << >> THEN << >> ELSE Flattened(SubSeq(ss, 1, Len(ss) - 1)) \o ss[Len(ss)]
Merged(os)    == IF os = << >> THEN << >> ELSE os[1] @@ Merged(Tail(os))

Member(o, k, v)  == (k :> v) @@ o
Emplaced(o, k, v) == o @@ (k :> v)
Grown(a, n)      == [i \in 1 .. IF n > Len(a) THEN n ELSE Len(a) |-> IF i <= Len(a) THEN a[i] ELSE Null]
Spliced(a, n, b) == SubSeq(a, 1, n) \o b \o SubSeq(a, n + 1, Len(a))
InsertedAt(a, n, v) == Spliced(a, n, <<v>>)
Without(a, first, last) == SubSeq(a, 1, first) \o SubSeq(a, last + 1, Len(a))

IntegerTypes == {"integer", "unsigned"}
NumberTypes  == IntegerTypes \cup {"float"}
Containers   == {"array", "object"}

-----------------------------------------------------------------------------
(* Construction.                                                           *)

\* json_value(value_t)
DefaultOf(t) ==
  CASE t = "object" -> EmptyObject      [] t = "array" -> EmptyArray
    [] t = "string" -> String(<< >>)    [] t = "binary" -> Binary(<< >>, << >>)
    [] t = "boolean" -> Boolean(FALSE)  [] t = "integer" -> Integer(FALSE, << >>)
    [] t = "unsigned" -> Unsigned(<< >>) [] t = "float" -> Float(Zeros(8))
    [] t = "null" -> Null               [] OTHER -> Discarded

\* An initializer list is an object when it is a list of pairs with a key.
IsPair(v)     == v.t = "array" /\ Len(v.a) = 2 /\ v.a[1].t = "string"
FirstPairs(a) ==
  [k \in {a[i].a[1].s : i \in DOMAIN a} |->
     a[CHOOSE i \in DOMAIN a : a[i].a[1].s = k /\ \A j \in 1 .. i - 1 : a[j].a[1].s # k].a[2]]

FromList(a, deduction, type) ==
  LET pairs == \A i \in DOMAIN a : IsPair(a[i])
  IN  IF ~deduction /\ type = "object" /\ ~pairs THEN {}
      ELSE IF pairs /\ (deduction \/ type # "array") THEN {Object(FirstPairs(a))}
      ELSE {Array(a)}

Repeated(n, v) == Array([i \in 1 .. n |-> v])

\* ~json_value: the children are moved to a stack, and their own before
\* each is destroyed.  The number of values destroyed, none by recursion.
Children(v) ==
  IF v.t = "array" THEN v.a
  ELSE IF v.t = "object" THEN LET ks == Keys(v) IN [i \in DOMAIN ks |-> v.o[ks[i]]]
  ELSE << >>

RECURSIVE DestroyStack(_)
DestroyStack(stack) ==
  IF stack = << >> THEN 0
  ELSE 1 + DestroyStack(SubSeq(stack, 1, Len(stack) - 1) \o Children(stack[Len(stack)]))

Destroyed(v) == 1 + DestroyStack(Children(v))

-----------------------------------------------------------------------------
(* Capacity, access and lookup.                                            *)

Size(v) ==
  CASE v.t = "null"   -> 0
    [] v.t = "array"  -> Len(v.a)
    [] v.t = "object" -> Cardinality(DOMAIN v.o)
    [] OTHER          -> 1

Empty(v) == v.t = "null" \/ (v.t \in Containers /\ Size(v) = 0)

AtIndex(v, n) == IF v.t = "array" /\ n < Len(v.a) THEN {v.a[n + 1]} ELSE {}
AtKey(v, k)   == IF v.t = "object" /\ k \in DOMAIN v.o THEN {v.o[k]} ELSE {}
HasKey(v, k)  == AtKey(v, k) # {}

\* value(key, fallback)
ValueOr(v, k, w) == IF v.t # "object" THEN {} ELSE IF HasKey(v, k) THEN AtKey(v, k) ELSE {w}

\* operator[] that is not const, and an assignment to what it returns.
IndexAssign(v, n, w) ==
  IF v.t \notin {"null", "array"} THEN {}
  ELSE {Array([Grown(IF v.t = "null" THEN << >> ELSE v.a, n + 1) EXCEPT ![n + 1] = w])}

MembersOf(v) == IF v.t = "null" THEN << >> ELSE v.o
KeyAssign(v, k, w) ==
  IF v.t \notin {"null", "object"} THEN {} ELSE {Object(Member(MembersOf(v), k, w))}

-----------------------------------------------------------------------------
(* Modification.                                                           *)

\* clear keeps the type, and the subtype of a binary value.
Clear(v) == IF v.t = "binary" THEN [v EXCEPT !.s = << >>] ELSE DefaultOf(v.t)

PushBack(v, w) ==
  IF v.t = "null" THEN {Array(<<w>>)} ELSE IF v.t = "array" THEN {Array(Append(v.a, w))} ELSE {}

\* push_back of a pair, emplace: a member there is stays as it is.
PushMember(v, k, w) ==
  IF v.t \in {"null", "object"} THEN {Object(Emplaced(MembersOf(v), k, w))} ELSE {}

PushList(v, a) ==
  IF v.t = "object" /\ Len(a) = 2 /\ a[1].t = "string" THEN PushMember(v, a[1].s, a[2])
  ELSE UNION {PushBack(v, w) : w \in FromList(a, TRUE, "array")}

\* insert before a position: copies of a value, or a list or range.
InsertItems(v, n, a) == IF v.t = "array" THEN {Array(Spliced(v.a, n, a))} ELSE {}
InsertMembers(v, w)  == IF v.t = "object" /\ w.t = "object" THEN {Object(v.o @@ w.o)} ELSE {}

\* erase by iterator, range, key and index.  What is left of a scalar is null.
EraseRange(v, first, last) ==
  CASE v.t = "array"  -> {Array(Without(v.a, first, last))}
    [] v.t = "object" -> {Object([k \in DOMAIN v.o \ {Keys(v)[i] : i \in first + 1 .. last} |-> v.o[k]])}
    [] v.t \in {"null", "discarded"} -> {}
    [] OTHER          -> IF first = 0 /\ last = 1 THEN {Null} ELSE {}

EraseKey(v, k)   == IF v.t = "object" THEN {Object(WithoutKey(v.o, k))} ELSE {}
EraseIndex(v, n) == IF v.t = "array" /\ n < Len(v.a) THEN EraseRange(v, n, n + 1) ELSE {}

\* update, in the order of the keys: what it has done, and whether it threw
\* at a member of v that cannot be merged into.
RECURSIVE Updated(_, _, _)
Updated(v, w, merge) ==
  LET Step(r, k) ==
        LET in == Updated(r.v.o[k], w.o[k], TRUE)
        IN  IF ~r.ok THEN r
            ELSE IF merge /\ w.o[k].t = "object" /\ k \in DOMAIN r.v.o
            THEN [v |-> Object(Member(r.v.o, k, in.v)), ok |-> in.ok]
            ELSE [r EXCEPT !.v = Object(Member(@.o, k, w.o[k]))]
      ks == Keys(w)
      after[i \in 0 .. Len(ks)] ==
        IF i = 0 THEN [v |-> Object(MembersOf(v)), ok |-> TRUE] ELSE Step(after[i - 1], ks[i])
  IN  IF v.t \notin {"null", "object"} THEN [v |-> v, ok |-> FALSE]
      ELSE IF w.t # "object" THEN [v |-> Object(MembersOf(v)), ok |-> FALSE]
      ELSE after[Len(ks)]

-----------------------------------------------------------------------------
(* Comparison.                                                             *)

\* static_cast to number_integer_t: 2^63 and above become negative.
AsInteger(v) ==
  IF v.t = "unsigned" /\ Len(v.m) = 8 /\ v.m[1] >= 128 THEN Integer(TRUE, Minus(<<1>> \o Zeros(8), v.m))
  ELSE Integer(v.t = "integer" /\ v.neg, v.m)
AsFloat(v) == IF v.t = "float" THEN v.bits ELSE DoubleOfInteger(v.t = "integer" /\ v.neg, v.m)

\* Wrong variant: two negative numbers compare as their magnitudes do.
IntegerLessByMagnitude(v, w) == (v.neg /\ ~w.neg) \/ (v.neg = w.neg /\ Less(v.m, w.m))

IntegerLess(v, w) ==
  \/ v.neg /\ ~w.neg
  \/ v.neg /\ w.neg /\ Less(w.m, v.m)
  \/ ~v.neg /\ ~w.neg /\ Less(v.m, w.m)

BothNumbers(v, w) == v.t # w.t /\ {v.t, w.t} \subseteq NumberTypes

RECURSIVE Equal(_, _), ValueLess(_, _), PairLess(_, _)
Equal(v, w) ==
  CASE v.t = w.t /\ v.t = "array"  -> Len(v.a) = Len(w.a) /\ \A i \in DOMAIN v.a : Equal(v.a[i], w.a[i])
    [] v.t = w.t /\ v.t = "object" -> DOMAIN v.o = DOMAIN w.o /\ \A k \in DOMAIN v.o : Equal(v.o[k], w.o[k])
    [] v.t = w.t /\ v.t = "float"  -> DoubleEqual(v.bits, w.bits)
    [] v.t = w.t /\ v.t \notin Containers \cup {"float"} -> v = w /\ v # Discarded
    [] BothNumbers(v, w) /\ "float" \in {v.t, w.t}    -> DoubleEqual(AsFloat(v), AsFloat(w))
    [] BothNumbers(v, w) /\ "float" \notin {v.t, w.t} -> AsInteger(v) = AsInteger(w)
    [] OTHER -> FALSE

Unordered(v, w) ==
  LET nan(x) == x.t = "float" /\ IsNaN(Binary64, x.bits)
  IN  \/ nan(v) /\ w.t \in NumberTypes
      \/ nan(w) /\ v.t \in NumberTypes
      \/ Discarded \in {v, w}

NotEqual(v, w) == ~Unordered(v, w) /\ ~Equal(v, w)

\* operator< of value_t; a discarded value is in no order.
TypeOrder(v) ==
  CASE v.t = "null" -> 0 [] v.t = "boolean" -> 1 [] v.t \in NumberTypes -> 2
    [] v.t = "object" -> 3 [] v.t = "array" -> 4 [] v.t = "string" -> 5 [] v.t = "binary" -> 6

\* std::lexicographical_compare, where neither of two is less when they tie.
Lexicographic(a, b, LessThan(_, _)) ==
  \E n \in 0 .. Len(b) - 1 :
    /\ n <= Len(a)
    /\ \A i \in 1 .. n : ~LessThan(a[i], b[i]) /\ ~LessThan(b[i], a[i])
    /\ n < Len(a) => LessThan(a[n + 1], b[n + 1])

PairLess(p, q) == BytesLess(p[1], q[1]) \/ (p[1] = q[1] /\ ValueLess(p[2], q[2]))
Pairs(v)       == LET ks == Keys(v) IN [i \in DOMAIN ks |-> <<ks[i], v.o[ks[i]]>>]

ValueLess(v, w) ==
  CASE v.t = w.t /\ v.t = "array"    -> Lexicographic(v.a, w.a, ValueLess)
    [] v.t = w.t /\ v.t = "object"   -> Lexicographic(Pairs(v), Pairs(w), PairLess)
    [] v.t = w.t /\ v.t \in {"string", "binary"} -> BytesLess(v.s, w.s)
    [] v.t = w.t /\ v.t = "boolean"  -> ~v.b /\ w.b
    [] v.t = w.t /\ v.t = "unsigned" -> Less(v.m, w.m)
    [] v.t = w.t /\ v.t \in {"null", "discarded"} -> FALSE
    [] {v.t, w.t} \subseteq NumberTypes /\ "float" \in {v.t, w.t} -> DoubleLess(AsFloat(v), AsFloat(w))
    [] {v.t, w.t} = IntegerTypes \/ {v.t, w.t} = {"integer"} -> IntegerLess(AsInteger(v), AsInteger(w))
    [] Discarded \in {v, w} /\ v.t # w.t -> FALSE
    [] OTHER -> TypeOrder(v) < TypeOrder(w)

AtMostValue(v, w) == ~Unordered(v, w) /\ ~ValueLess(w, v)

=============================================================================
