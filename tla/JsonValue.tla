----------------------------- MODULE JsonValue -----------------------------
(***************************************************************************)
(* basic_json of nlohmann/json.hpp: its values and the operations on them. *)
(* Keys and strings are sequences of bytes; an object is a function, and   *)
(* std::map iterates it in the order of its keys.                          *)
(***************************************************************************)
EXTENDS Double, FiniteSets

LOCAL INSTANCE TLC

Null          == [t |-> "null"]
Boolean(b)    == [t |-> "boolean", b |-> b]
Unsigned(m)   == [t |-> "unsigned", m |-> m]
Integer(neg, m) == [t |-> "integer", neg |-> neg, m |-> m]
Float(bits)   == [t |-> "float", bits |-> bits]
String(s)     == [t |-> "string", s |-> s]
Binary(s, subtype) == [t |-> "binary", s |-> s, subtype |-> subtype]
Array(a)      == [t |-> "array", a |-> a]
Object(o)     == [t |-> "object", o |-> o]
Discarded     == [t |-> "discarded"]

EmptyArray  == Array(<< >>)
EmptyObject == Object(<< >>)

\* The keys of an object in the order of the map.
RECURSIVE SortedKeys(_)
SortedKeys(S) ==
  IF S = {} THEN << >>
  ELSE LET k == CHOOSE k \in S : \A j \in S : j = k \/ BytesLess(k, j)
       IN  <<k>> \o SortedKeys(S \ {k})

Keys(v) == SortedKeys(DOMAIN v.o)

\* A path is a sequence of array indices, from 0, and object keys.
RECURSIVE ValueAt(_, _), PutAt(_, _, _)
ValueAt(v, path) ==
  IF path = << >> THEN v
  ELSE IF v.t = "array" THEN ValueAt(v.a[Head(path) + 1], Tail(path))
  ELSE ValueAt(v.o[Head(path)], Tail(path))

\* v with w at the path, whose last step may be new.
PutAt(v, path, w) ==
  IF path = << >> THEN w
  ELSE IF v.t = "array"
  THEN LET i == Head(path) + 1
       IN  IF i > Len(v.a) THEN Array(Append(v.a, w))
           ELSE Array([v.a EXCEPT ![i] = PutAt(@, Tail(path), w)])
  ELSE IF Head(path) \in DOMAIN v.o
  THEN Object([v.o EXCEPT ![Head(path)] = PutAt(@, Tail(path), w)])
  ELSE Object((Head(path) :> w) @@ v.o)

WithoutKey(o, k) == [j \in DOMAIN o \ {k} |-> o[j]]
WithoutIndex(a, i) == SubSeq(a, 1, i - 1) \o SubSeq(a, i + 1, Len(a))

\* The container without its first discarded child, in its own order.
WithoutFirstDiscarded(v) ==
  IF v.t = "array"
  THEN LET bad == {i \in DOMAIN v.a : v.a[i] = Discarded}
       IN  IF bad = {} THEN v ELSE Array(WithoutIndex(v.a, CHOOSE i \in bad : \A j \in bad : i <= j))
  ELSE LET bad == {k \in DOMAIN v.o : v.o[k] = Discarded}
       IN  IF bad = {} THEN v ELSE Object(WithoutKey(v.o, SortedKeys(bad)[1]))

=============================================================================
