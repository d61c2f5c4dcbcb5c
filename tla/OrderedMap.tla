----------------------------- MODULE OrderedMap -----------------------------
(***************************************************************************)
(* ordered_map of nlohmann/ordered_map.hpp, the object type of             *)
(* ordered_json: a vector of pairs <<key, value>> in the order of their    *)
(* insertion, searched from its front.  A key is const, so erasing         *)
(* constructs the later pairs anew further down, one by one.  Beside it    *)
(* stands twin, a std::map under the same calls: what the container is a   *)
(* replacement for.  An iterator is a number from 0.                       *)
(***************************************************************************)
EXTENDS Integers, Sequences, FiniteSets

CONSTANTS
  Key, T,       \* the template's parameters: key_type and mapped_type
  Default,      \* T{}
  MaxMembers    \* bound: the pairs in the vector

ASSUME MapAssumption == Default \in T

VARIABLES
  members,      \* the vector
  twin          \* the std::map

mapVars == <<members, twin>>

-----------------------------------------------------------------------------
(* The vector.                                                             *)

\* find: the position from 0, the length (end) when there is none.
FindKey(m, k) ==
  LET hits == {i \in DOMAIN m : m[i][1] = k}
  IN  IF hits = {} THEN Len(m) ELSE (CHOOSE i \in hits : \A j \in hits : i <= j) - 1

CountKey(m, k)  == IF FindKey(m, k) < Len(m) THEN 1 ELSE 0
AtOrdered(m, k) == IF CountKey(m, k) = 0 THEN {} ELSE {m[FindKey(m, k) + 1][2]}

\* emplace, and insert of one pair: a key that is there keeps its value.
EmplaceOrdered(m, k, v) == IF CountKey(m, k) = 1 THEN m ELSE Append(m, <<k, v>>)

\* operator[] and an assignment to what it returns.
AssignOrdered(m, k, v) ==
  LET e == EmplaceOrdered(m, k, Default) IN [e EXCEPT ![FindKey(e, k) + 1] = <<k, v>>]

\* Wrong variant: the vector is cut short by one pair, however many are erased.
EraseOrderedRangeByOne(m, first, last) ==
  LET n     == last - first
      moved == [i \in DOMAIN m |-> IF i > first /\ i + n <= Len(m) THEN m[i + n] ELSE m[i]]
  IN  IF first = last THEN m ELSE SubSeq(moved, 1, Len(m) - 1)

\* erase(first, last): from first on, the pair that lies as many behind as
\* there are to erase, until the vector ends there; then it is cut short.
EraseOrderedRange(m, first, last) ==
  LET n     == last - first
      moved == [i \in DOMAIN m |-> IF i > first /\ i + n <= Len(m) THEN m[i + n] ELSE m[i]]
  IN  IF first = last THEN m ELSE SubSeq(moved, 1, Len(m) - n)

\* erase(key) moves down the pairs behind the one it finds.
EraseOrderedKey(m, k) ==
  LET at == FindKey(m, k) + 1
  IN  IF CountKey(m, k) = 0 THEN m
      ELSE SubSeq([i \in DOMAIN m |-> IF i >= at /\ i < Len(m) THEN m[i + 1] ELSE m[i]], 1, Len(m) - 1)

-----------------------------------------------------------------------------
(* The std::map.                                                           *)

MapAssign(f, k, v)  == [j \in DOMAIN f \cup {k} |-> IF j = k THEN v ELSE f[j]]
MapEmplace(f, k, v) == IF k \in DOMAIN f THEN f ELSE MapAssign(f, k, v)
MapErase(f, S)      == [j \in DOMAIN f \ S |-> f[j]]

-----------------------------------------------------------------------------
(* The same calls on both.                                                 *)

MapInit == members = << >> /\ twin = << >>

Both(m, f) == Len(m) <= MaxMembers /\ members' = m /\ twin' = f

OrderedEmplace(k, v) == Both(EmplaceOrdered(members, k, v), MapEmplace(twin, k, v))
OrderedAssign(k, v)  == Both(AssignOrdered(members, k, v), MapAssign(twin, k, v))

\* insert(first, last) of two pairs, whose keys may be the same.
OrderedInsert(j, v, k, w) ==
  Both(EmplaceOrdered(EmplaceOrdered(members, j, v), k, w), MapEmplace(MapEmplace(twin, j, v), k, w))

OrderedErase(k) == Both(EraseOrderedKey(members, k), MapErase(twin, {k}))

OrderedEraseRange(first, last) ==
  /\ first <= last
  /\ Both(EraseOrderedRange(members, first, last),
          MapErase(twin, {members[i][1] : i \in first + 1 .. last}))

ModifyOrdered ==
  \/ \E k \in Key, v \in T : OrderedEmplace(k, v) \/ OrderedAssign(k, v)
  \/ \E j, k \in Key, v, w \in T : OrderedInsert(j, v, k, w)
  \/ \E k \in Key : OrderedErase(k)
  \/ \E first, last \in 0 .. Len(members) : OrderedEraseRange(first, last)

MapSpec == MapInit /\ [][ModifyOrdered]_mapVars

-----------------------------------------------------------------------------
KeysOf(m) == {m[i][1] : i \in DOMAIN m}

\* Pairs of the template's types, each key once, and the twin's value beside
\* each key.
SameMembers ==
  /\ members \in Seq(Key \X T)
  /\ \A i, j \in DOMAIN members : members[i][1] = members[j][1] => i = j
  /\ twin \in [KeysOf(members) -> T]
  /\ \A i \in DOMAIN members : twin[members[i][1]] = members[i][2]

\* An ordered_map holds what a std::map would, each key once, and finds it.
HoldsTheSame ==
  /\ DOMAIN twin = KeysOf(members)
  /\ Len(members) = Cardinality(DOMAIN twin)
  /\ \A k \in Key :
       AtOrdered(members, k) = IF k \in DOMAIN twin THEN {twin[k]} ELSE {}

\* Erasing keeps the order of the others and new keys come last: of two keys
\* there are after a call, if the later one was there before, the earlier one
\* was, and before it.
KeepsOrder ==
  \A j, k \in DOMAIN twin' :
    j \in DOMAIN twin /\ FindKey(members', k) < FindKey(members', j)
      => k \in DOMAIN twin /\ FindKey(members, k) < FindKey(members, j)

\* An ordered_map stays a map whose members keep the order they came in,
\* whatever calls it undergoes: so it leaves every call.
OrderedTwin == [][HoldsTheSame' /\ KeepsOrder]_mapVars

=============================================================================
