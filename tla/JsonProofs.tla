----------------------------- MODULE JsonProofs -----------------------------
(***************************************************************************)
(* Proofs about the parts of the JSON library that recurse over no data:   *)
(* ordered_map, whatever the keys, the values and the calls, and the       *)
(* readers and writers of Unicode, for every code point and every text.    *)
(***************************************************************************)
EXTENDS OrderedMap, JsonUnicode, FiniteSetTheorems, SequenceTheorems, TLAPS

\* Pairs of the types of the map, with each key once.
Distinct(m) ==
  /\ m \in Seq(Key \X T)
  /\ \A i, j \in DOMAIN m : m[i][1] = m[j][1] => i = j

\* f maps the key of each pair to its value.
Agrees(m, f) ==
  /\ f \in [KeysOf(m) -> T]
  /\ \A i \in DOMAIN m : f[m[i][1]] = m[i][2]

\* Whatever precedes in n a key of m precedes it in m.
Keeps(m, n) ==
  \A a, b \in DOMAIN n :
    a < b /\ n[b][1] \in KeysOf(m)
      => \E c, d \in DOMAIN m : c < d /\ m[c][1] = n[a][1] /\ m[d][1] = n[b][1]

-----------------------------------------------------------------------------
\* What find finds, and at and count with it.
LEMMA Found ==
  ASSUME NEW m, Distinct(m), NEW i \in DOMAIN m
  PROVE  /\ FindKey(m, m[i][1]) = i - 1
         /\ CountKey(m, m[i][1]) = 1
         /\ AtOrdered(m, m[i][1]) = {m[i][2]}
<1>1. Len(m) \in Nat /\ DOMAIN m = 1 .. Len(m)
  BY DEF Distinct
<1>2. {j \in DOMAIN m : m[j][1] = m[i][1]} = {i}
  BY DEF Distinct
<1>3. FindKey(m, m[i][1]) = i - 1
  BY <1>1, <1>2 DEF FindKey
<1> QED BY <1>1, <1>3 DEF CountKey, AtOrdered

LEMMA Missing ==
  ASSUME NEW m, Distinct(m), NEW k, k \notin KeysOf(m)
  PROVE  /\ FindKey(m, k) = Len(m)
         /\ CountKey(m, k) = 0
         /\ AtOrdered(m, k) = {}
<1>1. Len(m) \in Nat
  BY DEF Distinct
<1>2. {j \in DOMAIN m : m[j][1] = k} = {}
  BY DEF KeysOf
<1> QED BY <1>1, <1>2 DEF FindKey, CountKey, AtOrdered

\* Each key once: as many keys as pairs.
LEMMA AsManyKeys ==
  ASSUME NEW m, Distinct(m)
  PROVE  Cardinality(KeysOf(m)) = Len(m)
<1>1. Len(m) \in Nat /\ DOMAIN m = 1 .. Len(m)
  BY DEF Distinct
<1> DEFINE key == [i \in 1 .. Len(m) |-> m[i][1]]
<1>2. key \in Bijection(1 .. Len(m), KeysOf(m))
  BY <1>1 DEF Distinct, KeysOf, Bijection, Injection, IsInjective, Surjection
<1>3. ExistsBijection(1 .. Len(m), KeysOf(m))
  BY <1>2 DEF ExistsBijection
<1> QED BY <1>1, <1>3, FS_CountingElements

-----------------------------------------------------------------------------
\* emplace adds the pair behind the others unless its key is there.
LEMMA EmplaceForm ==
  ASSUME NEW m, Distinct(m), NEW k, NEW v
  PROVE  \/ k \in KeysOf(m) /\ EmplaceOrdered(m, k, v) = m
         \/ k \notin KeysOf(m) /\ EmplaceOrdered(m, k, v) = Append(m, <<k, v>>)
<1>1. CASE k \in KeysOf(m)
  BY <1>1, Found DEF KeysOf, EmplaceOrdered
<1>2. CASE k \notin KeysOf(m)
  BY <1>2, Missing DEF EmplaceOrdered
<1> QED BY <1>1, <1>2

LEMMA AppendForm ==
  ASSUME NEW m, Distinct(m), NEW k \in Key, NEW v \in T, k \notin KeysOf(m)
  PROVE  LET e == Append(m, <<k, v>>)
         IN  /\ Distinct(e)
             /\ KeysOf(e) = KeysOf(m) \cup {k}
             /\ Len(e) = Len(m) + 1
             /\ e[Len(m) + 1] = <<k, v>>
             /\ \A i \in DOMAIN m : i \in DOMAIN e /\ e[i] = m[i]
<1> DEFINE e == Append(m, <<k, v>>)
<1>1. /\ m \in Seq(Key \X T) /\ Len(m) \in Nat /\ DOMAIN m = 1 .. Len(m)
      /\ <<k, v>> \in Key \X T
  BY DEF Distinct
<1>2. e \in Seq(Key \X T)
  BY <1>1
<1>3. /\ Len(e) = Len(m) + 1 /\ DOMAIN e = 1 .. Len(m) + 1
      /\ e[Len(m) + 1] = <<k, v>>
      /\ \A i \in 1 .. Len(m) : e[i] = m[i]
  BY <1>1
<1>4. KeysOf(e) = KeysOf(m) \cup {k}
  <2>1. ASSUME NEW x \in KeysOf(e) PROVE x \in KeysOf(m) \cup {k}
    <3>1. PICK i \in DOMAIN e : x = e[i][1]
      BY DEF KeysOf
    <3>2. i \in 1 .. Len(m) \/ i = Len(m) + 1
      BY <1>1, <1>3
    <3> QED BY <1>1, <1>3, <3>1, <3>2 DEF KeysOf
  <2>2. k = e[Len(m) + 1][1] /\ Len(m) + 1 \in DOMAIN e
    BY <1>1, <1>3
  <2>3. KeysOf(m) \subseteq KeysOf(e)
    BY <1>1, <1>3 DEF KeysOf
  <2> QED BY <2>1, <2>2, <2>3 DEF KeysOf
<1>5. ASSUME NEW i \in DOMAIN e, NEW j \in DOMAIN e, e[i][1] = e[j][1]
      PROVE  i = j
  <2>1. \A h \in 1 .. Len(m) : e[h][1] = m[h][1] /\ m[h][1] # k
    BY <1>1, <1>3 DEF KeysOf
  <2>2. e[Len(m) + 1][1] = k
    BY <1>3
  <2>3. /\ i \in 1 .. Len(m) \/ i = Len(m) + 1
        /\ j \in 1 .. Len(m) \/ j = Len(m) + 1
    BY <1>1, <1>3
  <2> QED BY <1>1, <1>5, <2>1, <2>2, <2>3 DEF Distinct
<1> QED BY <1>1, <1>2, <1>3, <1>4, <1>5 DEF Distinct

\* emplace does to the vector what it does to the std::map.
LEMMA EmplaceKeeps ==
  ASSUME NEW m, NEW f, Distinct(m), Agrees(m, f), NEW k \in Key, NEW v \in T
  PROVE  LET e == EmplaceOrdered(m, k, v)
         IN  /\ Distinct(e) /\ Agrees(e, MapEmplace(f, k, v))
             /\ Keeps(m, e) /\ KeysOf(m) \subseteq KeysOf(e) /\ k \in KeysOf(e)
<1>1. CASE k \in KeysOf(m)
  <2>1. EmplaceOrdered(m, k, v) = m /\ MapEmplace(f, k, v) = f
    BY <1>1, EmplaceForm DEF MapEmplace, Agrees
  <2>2. Keeps(m, m)
    BY DEF Keeps
  <2> QED BY <1>1, <2>1, <2>2
<1>2. CASE k \notin KeysOf(m)
  <2> DEFINE e == Append(m, <<k, v>>)
             g == MapAssign(f, k, v)
  <2>1. EmplaceOrdered(m, k, v) = e /\ MapEmplace(f, k, v) = g
    BY <1>2, EmplaceForm DEF MapEmplace, Agrees
  <2>2. /\ Distinct(e) /\ KeysOf(e) = KeysOf(m) \cup {k}
        /\ Len(e) = Len(m) + 1
        /\ e[Len(m) + 1] = <<k, v>>
        /\ \A i \in DOMAIN m : i \in DOMAIN e /\ e[i] = m[i]
    BY <1>2, AppendForm
  <2>3. /\ Len(m) \in Nat /\ DOMAIN m = 1 .. Len(m)
        /\ DOMAIN e = 1 .. Len(m) + 1
    BY <2>2 DEF Distinct
  <2>4. g \in [KeysOf(e) -> T]
    BY <2>2 DEF MapAssign, Agrees
  <2>5. ASSUME NEW i \in DOMAIN e PROVE g[e[i][1]] = e[i][2]
    <3>1. CASE i = Len(m) + 1
      BY <2>2, <3>1 DEF MapAssign
    <3>2. CASE i \in DOMAIN m
      <4>1. m[i][1] \in KeysOf(m) /\ m[i][1] # k
        BY <1>2, <3>2 DEF KeysOf
      <4> QED BY <2>2, <3>2, <4>1 DEF MapAssign, Agrees
    <3> QED BY <2>3, <3>1, <3>2
  <2>6. Keeps(m, e)
    <3> SUFFICES ASSUME NEW a \in DOMAIN e, NEW b \in DOMAIN e, a < b,
                        e[b][1] \in KeysOf(m)
                 PROVE  \E c, d \in DOMAIN m :
                          c < d /\ m[c][1] = e[a][1] /\ m[d][1] = e[b][1]
      BY DEF Keeps
    <3>1. b # Len(m) + 1
      BY <1>2, <2>2
    <3>2. a \in DOMAIN m /\ b \in DOMAIN m
      BY <2>3, <3>1
    <3> QED BY <2>2, <3>2
  <2> HIDE DEF e, g
  <2> QED BY <2>1, <2>2, <2>4, <2>5, <2>6 DEF Agrees
<1> QED BY <1>1, <1>2

\* operator[] and an assignment.
LEMMA AssignKeeps ==
  ASSUME NEW m, NEW f, Distinct(m), Agrees(m, f), NEW k \in Key, NEW v \in T
  PROVE  LET a == AssignOrdered(m, k, v)
         IN  Distinct(a) /\ Agrees(a, MapAssign(f, k, v)) /\ Keeps(m, a)
<1> DEFINE e == EmplaceOrdered(m, k, Default)
           h == MapEmplace(f, k, Default)
<1>1. Distinct(e) /\ Agrees(e, h) /\ Keeps(m, e) /\ k \in KeysOf(e)
  BY MapAssumption, EmplaceKeeps
<1> HIDE DEF e, h
<1>2. PICK i \in DOMAIN e : e[i][1] = k
  BY <1>1 DEF KeysOf
<1>3. FindKey(e, k) + 1 = i
  <2>1. FindKey(e, k) = i - 1
    BY <1>1, <1>2, Found
  <2>2. i \in Int
    BY <1>1 DEF Distinct
  <2> QED BY <2>1, <2>2
<1> DEFINE a == [e EXCEPT ![i] = <<k, v>>]
<1>4. AssignOrdered(m, k, v) = a
  BY <1>3 DEF AssignOrdered, e
<1>5. /\ a \in Seq(Key \X T) /\ DOMAIN a = DOMAIN e
      /\ \A j \in DOMAIN e : a[j] = IF j = i THEN <<k, v>> ELSE e[j]
  BY <1>1, <1>2 DEF Distinct
<1> HIDE DEF a
<1>6. \A j \in DOMAIN e : a[j][1] = e[j][1]
  BY <1>2, <1>5
<1>7. Distinct(a) /\ KeysOf(a) = KeysOf(e)
  <2>1. Distinct(a)
    BY <1>1, <1>5, <1>6 DEF Distinct
  <2>2. KeysOf(a) = KeysOf(e)
    BY <1>5, <1>6 DEF KeysOf
  <2> QED BY <2>1, <2>2
<1>8. Keeps(m, a)
  BY <1>1, <1>5, <1>6 DEF Keeps
<1>9. Agrees(a, MapAssign(f, k, v))
  <2> DEFINE g == MapAssign(f, k, v)
  <2>1. \A j \in DOMAIN h : g[j] = IF j = k THEN v ELSE h[j]
    BY DEF h, MapEmplace, MapAssign
  <2>2. DOMAIN g = DOMAIN h
    <3>1. DOMAIN g = DOMAIN f \cup {k}
      BY DEF MapAssign
    <3>2. DOMAIN h = DOMAIN f \cup {k}
      BY DEF h, MapEmplace, MapAssign
    <3> QED BY <3>1, <3>2
  <2>3. DOMAIN h = KeysOf(a) /\ h \in [KeysOf(e) -> T]
    BY <1>1, <1>7 DEF Agrees
  <2>4. g \in [KeysOf(a) -> T]
    <3>1. g = [j \in DOMAIN g |-> g[j]]
      BY DEF MapAssign
    <3> HIDE DEF g
    <3> QED BY <2>1, <2>2, <2>3, <3>1, <1>7
  <2>5. ASSUME NEW j \in DOMAIN a PROVE g[a[j][1]] = a[j][2]
    <3>1. a[j][1] \in DOMAIN h /\ h[e[j][1]] = e[j][2]
      BY <1>1, <1>5, <1>7, <2>3 DEF KeysOf, Agrees
    <3>2. CASE j = i
      <4>1. a[j][1] = k /\ a[j][2] = v
        BY <1>2, <1>5, <3>2
      <4> HIDE DEF g
      <4> QED BY <2>1, <3>1, <4>1
    <3>3. CASE j # i
      <4>1. a[j] = e[j] /\ e[j][1] # k
        BY <1>1, <1>2, <1>5, <3>3 DEF Distinct
      <4> HIDE DEF g
      <4> QED BY <2>1, <3>1, <4>1
    <3> QED BY <3>2, <3>3
  <2> HIDE DEF g
  <2> QED BY <2>4, <2>5 DEF Agrees, g
<1> QED BY <1>4, <1>7, <1>8, <1>9

-----------------------------------------------------------------------------
\* erase of a range leaves the pairs before it and those behind it.
LEMMA EraseForm ==
  ASSUME NEW m, Distinct(m), NEW first \in 0 .. Len(m),
         NEW last \in 0 .. Len(m), first <= last
  PROVE  LET r == EraseOrderedRange(m, first, last)
         IN  /\ r \in Seq(Key \X T)
             /\ DOMAIN r = 1 .. Len(m) - (last - first)
             /\ \A i \in DOMAIN r : r[i] = m[IF i > first THEN i + (last - first) ELSE i]
<1> DEFINE n == last - first
           moved == [i \in DOMAIN m |->
                       IF i > first /\ i + n <= Len(m) THEN m[i + n] ELSE m[i]]
<1>1. /\ m \in Seq(Key \X T) /\ Len(m) \in Nat /\ DOMAIN m = 1 .. Len(m)
      /\ n \in 0 .. Len(m)
  BY DEF Distinct
<1>2. CASE first = last
  BY <1>1, <1>2 DEF EraseOrderedRange
<1>3. CASE first # last
  <2>1. moved \in Seq(Key \X T) /\ Len(moved) = Len(m)
    <3>1. \A i \in 1 .. Len(m) : moved[i] \in Key \X T
      BY <1>1
    <3>2. moved \in [1 .. Len(m) -> Key \X T]
      BY <1>1, <3>1
    <3> QED BY <1>1, <3>2
  <2>2. EraseOrderedRange(m, first, last) = SubSeq(moved, 1, Len(m) - n)
    BY <1>3 DEF EraseOrderedRange
  <2>3. \A i \in 1 .. Len(m) - n : moved[i] = m[IF i > first THEN i + n ELSE i]
    BY <1>1
  <2> HIDE DEF moved, n
  <2>4. /\ SubSeq(moved, 1, Len(m) - n) \in Seq(Key \X T)
        /\ DOMAIN SubSeq(moved, 1, Len(m) - n) = 1 .. Len(m) - n
        /\ \A i \in 1 .. Len(m) - n : SubSeq(moved, 1, Len(m) - n)[i] = moved[i]
    BY <1>1, <2>1
  <2> QED BY <2>2, <2>3, <2>4 DEF n
<1> QED BY <1>2, <1>3

LEMMA EraseKeeps ==
  ASSUME NEW m, NEW f, Distinct(m), Agrees(m, f), NEW first \in 0 .. Len(m),
         NEW last \in 0 .. Len(m), first <= last
  PROVE  LET r == EraseOrderedRange(m, first, last)
         IN  /\ Distinct(r)
             /\ Agrees(r, MapErase(f, {m[i][1] : i \in first + 1 .. last}))
             /\ Keeps(m, r)
<1> DEFINE r == EraseOrderedRange(m, first, last)
           gone == {m[i][1] : i \in first + 1 .. last}
           from(i) == IF i > first THEN i + (last - first) ELSE i
<1>1. Len(m) \in Nat /\ DOMAIN m = 1 .. Len(m)
  BY DEF Distinct
<1>2. /\ r \in Seq(Key \X T)
      /\ DOMAIN r = 1 .. Len(m) - (last - first)
      /\ \A i \in DOMAIN r : r[i] = m[from(i)]
  BY EraseForm
<1> HIDE DEF r
\* The pairs that stay, in their order.
<1>3. /\ \A i \in DOMAIN r : from(i) \in DOMAIN m /\ from(i) \notin first + 1 .. last
      /\ \A i, j \in DOMAIN r : i < j => from(i) < from(j)
      /\ \A j \in DOMAIN m : j \notin first + 1 .. last => \E i \in DOMAIN r : from(i) = j
  <2>1. \A i \in DOMAIN r : from(i) \in DOMAIN m /\ from(i) \notin first + 1 .. last
    BY <1>1, <1>2
  <2>2. \A i, j \in DOMAIN r : i < j => from(i) < from(j)
    BY <1>1, <1>2
  <2>3. ASSUME NEW j \in DOMAIN m, j \notin first + 1 .. last
        PROVE  \E i \in DOMAIN r : from(i) = j
    <3>1. CASE j <= first
      <4>1. j \in DOMAIN r /\ from(j) = j
        BY <1>1, <1>2, <3>1
      <4> QED BY <4>1
    <3>2. CASE j > last
      <4>1. j - (last - first) \in DOMAIN r /\ from(j - (last - first)) = j
        BY <1>1, <1>2, <3>2
      <4> QED BY <4>1
    <3> QED BY <1>1, <2>3, <3>1, <3>2
  <2> QED BY <2>1, <2>2, <2>3
<1>4. \A i \in DOMAIN r : from(i) \in DOMAIN m /\ from(i) \in Int
  BY <1>1, <1>3
<1> HIDE DEF from
<1>5. Distinct(r)
  <2> SUFFICES ASSUME NEW i \in DOMAIN r, NEW j \in DOMAIN r, r[i][1] = r[j][1]
               PROVE  i = j
    BY <1>2 DEF Distinct
  <2>1. from(i) = from(j)
    BY <1>2, <1>4 DEF Distinct
  <2>2. i \in Int /\ j \in Int /\ from(i) \in Int /\ from(j) \in Int
    BY <1>1, <1>2, <1>4
  <2>3. ~(i < j) /\ ~(j < i)
    BY <1>3, <2>1, <2>2
  <2> QED BY <2>2, <2>3
<1>6. KeysOf(r) = KeysOf(m) \ gone
  <2>1. ASSUME NEW x \in KeysOf(r) PROVE x \in KeysOf(m) \ gone
    <3>1. PICK i \in DOMAIN r : x = r[i][1]
      BY DEF KeysOf
    <3>2. x = m[from(i)][1] /\ from(i) \in DOMAIN m /\ from(i) \notin first + 1 .. last
      BY <1>2, <1>3, <3>1
    <3>3. ASSUME x \in gone PROVE FALSE
      <4>1. PICK j \in first + 1 .. last : x = m[j][1]
        BY <3>3
      <4>2. j \in DOMAIN m
        BY <1>1, <4>1
      <4> QED BY <3>2, <4>1, <4>2 DEF Distinct
    <3> QED BY <3>2, <3>3 DEF KeysOf
  <2>2. ASSUME NEW x \in KeysOf(m) \ gone PROVE x \in KeysOf(r)
    <3>1. PICK j \in DOMAIN m : x = m[j][1]
      BY DEF KeysOf
    <3>2. j \notin first + 1 .. last
      BY <3>1
    <3>3. PICK i \in DOMAIN r : from(i) = j
      BY <1>3, <3>2
    <3> QED BY <1>2, <3>1, <3>3 DEF KeysOf
  <2> QED BY <2>1, <2>2
<1>7. Agrees(r, MapErase(f, gone))
  <2>1. MapErase(f, gone) \in [KeysOf(r) -> T]
    BY <1>6 DEF MapErase, Agrees
  <2>2. ASSUME NEW i \in DOMAIN r PROVE MapErase(f, gone)[r[i][1]] = r[i][2]
    <3>1. r[i] = m[from(i)] /\ from(i) \in DOMAIN m /\ r[i][1] \in KeysOf(r)
      BY <1>2, <1>4 DEF KeysOf
    <3>2. MapErase(f, gone)[r[i][1]] = f[r[i][1]]
      BY <1>6, <3>1 DEF MapErase, Agrees
    <3> QED BY <3>1, <3>2 DEF Agrees
  <2> HIDE DEF gone
  <2> QED BY <2>1, <2>2 DEF Agrees
<1>8. Keeps(m, r)
  <2> SUFFICES ASSUME NEW a \in DOMAIN r, NEW b \in DOMAIN r, a < b
               PROVE  \E c, d \in DOMAIN m :
                        c < d /\ m[c][1] = r[a][1] /\ m[d][1] = r[b][1]
    BY DEF Keeps
  <2> QED BY <1>2, <1>3, <1>4
<1> QED BY <1>5, <1>7, <1>8 DEF r

\* erase of a key erases the range of the one pair that has it.
LEMMA EraseKeyKeeps ==
  ASSUME NEW m, NEW f, Distinct(m), Agrees(m, f), NEW k
  PROVE  LET r == EraseOrderedKey(m, k)
         IN  Distinct(r) /\ Agrees(r, MapErase(f, {k})) /\ Keeps(m, r)
<1>1. Len(m) \in Nat /\ DOMAIN m = 1 .. Len(m)
  BY DEF Distinct
<1>2. CASE k \notin KeysOf(m)
  <2>1. EraseOrderedKey(m, k) = m
    BY <1>2, Missing DEF EraseOrderedKey
  <2>2. MapErase(f, {k}) = f
    BY <1>2 DEF MapErase, Agrees
  <2>3. Keeps(m, m)
    BY DEF Keeps
  <2> QED BY <2>1, <2>2, <2>3
<1>3. CASE k \in KeysOf(m)
  <2>1. PICK i \in DOMAIN m : m[i][1] = k
    BY <1>3 DEF KeysOf
  <2>2. FindKey(m, k) = i - 1 /\ CountKey(m, k) = 1
    BY <2>1, Found
  <2>3. i \in Int /\ i - 1 \in 0 .. Len(m) /\ i \in 0 .. Len(m) /\ i - 1 < i
        /\ (i - 1) + 1 = i /\ i - (i - 1) = 1 /\ i - 1 # i /\ i - 1 <= i
    BY <1>1
  <2> DEFINE moved == [h \in DOMAIN m |-> IF h >= i /\ h < Len(m) THEN m[h + 1] ELSE m[h]]
             ranged == [h \in DOMAIN m |-> IF h > i - 1 /\ h + 1 <= Len(m) THEN m[h + 1] ELSE m[h]]
  <2>4. moved = ranged
    <3>1. \A h \in DOMAIN m : (h >= i /\ h < Len(m)) <=> (h > i - 1 /\ h + 1 <= Len(m))
      BY <1>1
    <3> QED BY <3>1
  <2>5. EraseOrderedKey(m, k) = SubSeq(moved, 1, Len(m) - 1)
    <3>1. FindKey(m, k) + 1 = i /\ CountKey(m, k) # 0
      BY <2>2, <2>3
    <3> QED BY <3>1, Zenon DEF EraseOrderedKey
  <2>6. EraseOrderedRange(m, i - 1, i) = SubSeq(ranged, 1, Len(m) - 1)
    BY <2>3 DEF EraseOrderedRange
  <2>7. {m[h][1] : h \in (i - 1) + 1 .. i} = {k}
    <3>1. (i - 1) + 1 .. i = {i}
      BY <1>1
    <3> QED BY <2>1, <3>1
  <2> HIDE DEF moved, ranged
  <2>8. LET r == EraseOrderedRange(m, i - 1, i)
        IN  /\ Distinct(r)
            /\ Agrees(r, MapErase(f, {m[h][1] : h \in (i - 1) + 1 .. i}))
            /\ Keeps(m, r)
    BY <2>3, EraseKeeps
  <2> QED BY <2>4, <2>5, <2>6, <2>7, <2>8
<1> QED BY <1>2, <1>3

-----------------------------------------------------------------------------
LEMMA SameForm == SameMembers <=> Distinct(members) /\ Agrees(members, twin)
BY DEF SameMembers, Distinct, Agrees

LEMMA SameInit == MapInit => SameMembers
BY DEF MapInit, SameMembers, KeysOf

\* What of n precedes a key of m precedes it in p, if neither loses a key.
LEMMA KeepsTransitive ==
  ASSUME NEW m, NEW n, NEW p, Keeps(m, n), Keeps(n, p), KeysOf(m) \subseteq KeysOf(n)
  PROVE  Keeps(m, p)
<1> SUFFICES ASSUME NEW a \in DOMAIN p, NEW b \in DOMAIN p, a < b,
                    p[b][1] \in KeysOf(m)
             PROVE  \E c, d \in DOMAIN m :
                      c < d /\ m[c][1] = p[a][1] /\ m[d][1] = p[b][1]
  BY DEF Keeps
<1>1. PICK c, d \in DOMAIN n : c < d /\ n[c][1] = p[a][1] /\ n[d][1] = p[b][1]
  BY DEF Keeps
<1> QED BY <1>1 DEF Keeps

\* Every call does the same to both containers and keeps the order.
LEMMA CallKeeps ==
  ASSUME SameMembers, ModifyOrdered
  PROVE  SameMembers' /\ Keeps(members, members')
<1> DEFINE Done == Distinct(members') /\ Agrees(members', twin')
                     /\ Keeps(members, members')
<1>0. Distinct(members) /\ Agrees(members, twin)
  BY SameForm
<1>1. ASSUME NEW k \in Key, NEW v \in T, OrderedEmplace(k, v) PROVE Done
  BY <1>0, <1>1, EmplaceKeeps DEF OrderedEmplace, Both
<1>2. ASSUME NEW k \in Key, NEW v \in T, OrderedAssign(k, v) PROVE Done
  BY <1>0, <1>2, AssignKeeps DEF OrderedAssign, Both
<1>3. ASSUME NEW j \in Key, NEW k \in Key, NEW v \in T, NEW w \in T,
             OrderedInsert(j, v, k, w)
      PROVE  Done
  <2> DEFINE n == EmplaceOrdered(members, j, v)
             g == MapEmplace(twin, j, v)
  <2>1. /\ Distinct(n) /\ Agrees(n, g) /\ Keeps(members, n)
        /\ KeysOf(members) \subseteq KeysOf(n)
    BY <1>0, EmplaceKeeps
  <2>2. members' = EmplaceOrdered(n, k, w) /\ twin' = MapEmplace(g, k, w)
    BY <1>3 DEF OrderedInsert, Both
  <2> HIDE DEF n, g
  <2>3. Distinct(members') /\ Agrees(members', twin') /\ Keeps(n, members')
    BY <2>1, <2>2, EmplaceKeeps
  <2> QED BY <2>1, <2>3, KeepsTransitive
<1>4. ASSUME NEW k \in Key, OrderedErase(k) PROVE Done
  BY <1>0, <1>4, EraseKeyKeeps DEF OrderedErase, Both
<1>5. ASSUME NEW first \in 0 .. Len(members), NEW last \in 0 .. Len(members),
             OrderedEraseRange(first, last)
      PROVE  Done
  BY <1>0, <1>5, EraseKeeps DEF OrderedEraseRange, Both
<1>6. Done
  BY <1>1, <1>2, <1>3, <1>4, <1>5 DEF ModifyOrdered
<1>7. SameMembers' <=> Distinct(members') /\ Agrees(members', twin')
  BY DEF SameMembers, Distinct, Agrees
<1> QED BY <1>6, <1>7

LEMMA SameStep == SameMembers /\ [ModifyOrdered]_mapVars => SameMembers'
<1>1. CASE ModifyOrdered
  BY <1>1, CallKeeps
<1>2. CASE UNCHANGED mapVars
  BY <1>2 DEF mapVars, SameMembers, KeysOf
<1> QED BY <1>1, <1>2

LEMMA SameHolds == SameMembers => HoldsTheSame
<1> SUFFICES ASSUME SameMembers PROVE HoldsTheSame
  OBVIOUS
<1>0. Distinct(members) /\ Agrees(members, twin)
  BY SameForm
<1>1. DOMAIN twin = KeysOf(members)
  BY <1>0 DEF Agrees
<1>2. Len(members) = Cardinality(DOMAIN twin)
  BY <1>0, <1>1, AsManyKeys
<1>3. ASSUME NEW k \in Key
      PROVE  AtOrdered(members, k) = IF k \in DOMAIN twin THEN {twin[k]} ELSE {}
  <2>1. CASE k \in DOMAIN twin
    <3>1. PICK i \in DOMAIN members : members[i][1] = k
      BY <1>1, <2>1 DEF KeysOf
    <3>2. AtOrdered(members, k) = {members[i][2]}
      BY <1>0, <3>1, Found
    <3>3. twin[k] = members[i][2]
      BY <1>0, <3>1 DEF Agrees
    <3> QED BY <2>1, <3>2, <3>3
  <2>2. CASE k \notin DOMAIN twin
    BY <1>0, <1>1, <2>2, Missing
  <2> QED BY <2>1, <2>2
<1> QED BY <1>1, <1>2, <1>3 DEF HoldsTheSame

\* What Keeps says of pairs, in terms of find.
LEMMA KeepsFound ==
  ASSUME SameMembers, SameMembers', Keeps(members, members')
  PROVE  KeepsOrder
<1>0. /\ Distinct(members) /\ Distinct(members')
      /\ DOMAIN twin = KeysOf(members) /\ DOMAIN twin' = KeysOf(members')
  BY DEF SameMembers, Distinct
<1> SUFFICES ASSUME NEW j \in DOMAIN twin', NEW k \in DOMAIN twin',
                    j \in DOMAIN twin,
                    FindKey(members', k) < FindKey(members', j)
             PROVE  k \in DOMAIN twin /\ FindKey(members, k) < FindKey(members, j)
  BY DEF KeepsOrder
<1>1. PICK a \in DOMAIN members', b \in DOMAIN members' :
        members'[a][1] = k /\ members'[b][1] = j
  BY <1>0 DEF KeysOf
<1>2. a \in Int /\ b \in Int
  BY <1>0 DEF Distinct
<1>3. a < b
  <2>1. FindKey(members', k) = a - 1 /\ FindKey(members', j) = b - 1
    BY <1>0, <1>1, Found
  <2> QED BY <1>2, <2>1
<1>4. PICK c \in DOMAIN members, d \in DOMAIN members :
        c < d /\ members[c][1] = k /\ members[d][1] = j
  BY <1>0, <1>1, <1>3 DEF Keeps
<1>5. FindKey(members, k) = c - 1 /\ FindKey(members, j) = d - 1
  BY <1>0, <1>4, Found
<1>6. c \in Int /\ d \in Int
  BY <1>0 DEF Distinct
<1> QED BY <1>0, <1>4, <1>5, <1>6 DEF KeysOf

\* An ordered_map stays a map whose members keep the order they came in,
\* whatever the keys, the values and the calls.
THEOREM OrderedMapIsMap == MapSpec => OrderedTwin
<1>1. SameMembers /\ [ModifyOrdered]_mapVars => [KeepsOrder]_mapVars
  <2> SUFFICES ASSUME SameMembers, ModifyOrdered PROVE KeepsOrder
    OBVIOUS
  <2> QED BY CallKeeps, KeepsFound
<1> QED BY <1>1, SameInit, SameStep, SameHolds, PTL DEF MapSpec, OrderedTwin

-----------------------------------------------------------------------------
(***************************************************************************)
(* Unicode: the lexer, the serializer and the adapters of JsonUnicode, for *)
(* every code point and every text.                                        *)
(***************************************************************************)

\* The code points that are characters.
ScalarValues == {c \in Nat : c < 1114112 /\ c \notin HighSurrogates /\ c \notin LowSurrogates}

\* The text t stands in x behind position i.
At(x, i, t) == \A j \in DOMAIN t : i + j \in DOMAIN x /\ x[i + j] = t[j]

\* Places of a number in the bases 16, 64 and 1024.
LEMMA Quotients ==
  ASSUME NEW c \in Nat
  PROVE  /\ c % 16 \in 0 .. 15 /\ c = (c \div 16) * 16 + (c % 16)
         /\ (c \div 16) \div 16 = c \div 256 /\ (c \div 256) \div 16 = c \div 4096
         /\ c % 64 \in 0 .. 63 /\ c = (c \div 64) * 64 + (c % 64)
         /\ (c \div 64) \div 64 = c \div 4096 /\ (c \div 4096) \div 64 = c \div 262144
         /\ c % 1024 \in 0 .. 1023 /\ c = (c \div 1024) * 1024 + (c % 1024)
         /\ c \div 16 \in Nat /\ c \div 64 \in Nat /\ c \div 256 \in Nat
         /\ c \div 1024 \in Nat /\ c \div 4096 \in Nat /\ c \div 262144 \in Nat
BY SMT

LEMMA Places16 ==
  ASSUME NEW c \in Nat, c < 65536
  PROVE  /\ c \div 4096 \in 0 .. 15 /\ (c \div 256) % 16 \in 0 .. 15
         /\ (c \div 16) % 16 \in 0 .. 15 /\ c % 16 \in 0 .. 15
         /\ (c \div 4096) * 4096 + ((c \div 256) % 16) * 256 + ((c \div 16) % 16) * 16 + (c % 16) = c
<1>1. c \div 4096 < 16
  BY SMT
<1>2. c \div 16 \in Nat /\ c \div 256 \in Nat /\ c \div 4096 \in Nat
  BY Quotients
<1> QED BY ONLY <1>1, <1>2, Quotients, c \in Nat, SMT

LEMMA Places64 ==
  ASSUME NEW c \in Nat
  PROVE  /\ (c \div 4096) % 64 \in 0 .. 63 /\ (c \div 64) % 64 \in 0 .. 63 /\ c % 64 \in 0 .. 63
         /\ c = (c \div 64) * 64 + (c % 64)
         /\ c = (c \div 4096) * 4096 + ((c \div 64) % 64) * 64 + (c % 64)
         /\ c = (c \div 262144) * 262144 + ((c \div 4096) % 64) * 4096 + ((c \div 64) % 64) * 64 + (c % 64)
<1>2. c \div 64 \in Nat /\ c \div 4096 \in Nat /\ c \div 262144 \in Nat
  BY Quotients, SMT
<1> QED BY ONLY <1>2, Quotients, c \in Nat, SMT

LEMMA TwoSixes ==
  ASSUME NEW g \in Seq(Int), NEW l \in Seq(Int), Len(g) = 6, Len(l) = 6
  PROVE  /\ DOMAIN (g \o l) = 1 .. 12 /\ Len(g \o l) = 12
         /\ \A j \in 1 .. 6 : (g \o l)[j] = g[j] /\ (g \o l)[6 + j] = l[j]
<1> DEFINE s == g \o l
<1>1. /\ s \in Seq(Int) /\ Len(s) = Len(g) + Len(l)
      /\ \A i \in 1 .. Len(g) + Len(l) : s[i] = IF i <= Len(g) THEN g[i] ELSE l[i - Len(g)]
  BY ONLY g \in Seq(Int), l \in Seq(Int), ConcatProperties, Zenon
<1> HIDE DEF s
<1>2. Len(s) = 12
  BY ONLY <1>1, Len(g) = 6, Len(l) = 6, SMT
<1>3. DOMAIN s = 1 .. 12
  <2>1. s \in Seq(Int)
    BY <1>1
  <2> QED BY ONLY <2>1, <1>2, SMT
<1>4. \A i \in 1 .. 12 : s[i] = IF i <= 6 THEN g[i] ELSE l[i - 6]
  BY ONLY <1>1, Len(g) = 6, Len(l) = 6, SMT
<1>5. \A j \in 1 .. 6 : s[j] = g[j] /\ s[6 + j] = l[j]
  <2>1. \A j \in 1 .. 6 : /\ j \in 1 .. 12 /\ 6 + j \in 1 .. 12 /\ j <= 6
                            /\ ~(6 + j <= 6) /\ (6 + j) - 6 = j
    BY SMT
  <2>2. ASSUME NEW j \in 1 .. 6
        PROVE  s[j] = g[j] /\ s[6 + j] = l[j]
    <3>1. s[j] = g[j]
      BY <1>4, <2>1, Zenon
    <3>2. s[6 + j] = l[(6 + j) - 6]
      BY <1>4, <2>1, Zenon
    <3>3. (6 + j) - 6 = j
      BY <2>1
    <3> QED BY ONLY <3>1, <3>2, <3>3, Zenon
  <2> QED BY <2>2
<1> QED BY <1>2, <1>3, <1>5, Zenon DEF s

\* A digit read is the digit written, and so are four of them after \u.
LEMMA HexRead == \A d \in 0 .. 15 : HexValue(HexDigit(d)) = d /\ HexValue(HexDigit(d)) # -1
BY DEF HexValue, HexDigit, Digits

LEMMA UnicodeHexRead ==
  ASSUME NEW c \in Nat, c < 65536, NEW x, NEW i \in Nat, At(x, i, UnicodeHex(c))
  PROVE  /\ Get(x, i + 1) = Backslash /\ Get(x, i + 2) = LowerU
         /\ GetCodepoint(x, i + 2) = [code |-> c, read |-> i + 6]
<1> DEFINE h == <<c \div 4096, (c \div 256) % 16, (c \div 16) % 16, c % 16>>
<1>0. h[1] \in 0 .. 15 /\ h[2] \in 0 .. 15 /\ h[3] \in 0 .. 15 /\ h[4] \in 0 .. 15
      /\ h[1] * 4096 + h[2] * 256 + h[3] * 16 + h[4] = c
  BY Places16
<1>a. UnicodeHex(c) = <<92, 117, HexDigit(h[1]), HexDigit(h[2]), HexDigit(h[3]), HexDigit(h[4])>>
  BY DEF UnicodeHex
<1> HIDE DEF h
<1>1. \A j \in 1 .. 6 : Get(x, i + j) = UnicodeHex(c)[j]
  BY <1>a DEF At, Get
<1>2. Get(x, i + 1) = 92 /\ Get(x, i + 2) = 117 /\ Get(x, i + 3) = HexDigit(h[1]) /\ Get(x, i + 4) = HexDigit(h[2])
      /\ Get(x, i + 5) = HexDigit(h[3]) /\ Get(x, i + 6) = HexDigit(h[4])
  BY <1>1, <1>a
<1>3. HexValue(Get(x, (i + 2) + 1)) = h[1] /\ HexValue(Get(x, (i + 2) + 2)) = h[2]
      /\ HexValue(Get(x, (i + 2) + 3)) = h[3] /\ HexValue(Get(x, (i + 2) + 4)) = h[4]
  <2>1. (i + 2) + 1 = i + 3 /\ (i + 2) + 2 = i + 4 /\ (i + 2) + 3 = i + 5 /\ (i + 2) + 4 = i + 6
    OBVIOUS
  <2> QED BY <2>1, <1>2, <1>0, HexRead
<1>4. {j \in 1 .. 4 : HexValue(Get(x, (i + 2) + j)) = -1} = {}
  <2>1. ASSUME NEW j \in 1 .. 4
        PROVE  HexValue(Get(x, (i + 2) + j)) \in 0 .. 15
    <3>1. j = 1 \/ j = 2 \/ j = 3 \/ j = 4
      OBVIOUS
    <3> QED BY ONLY <3>1, <1>3, <1>0
  <2> DEFINE value(j) == HexValue(Get(x, (i + 2) + j))
  <2>2. \A j \in 1 .. 4 : value(j) \in 0 .. 15
    BY <2>1
  <2> HIDE DEF value
  <2>3. {j \in 1 .. 4 : value(j) = -1} = {}
    BY ONLY <2>2, SMT
  <2> QED BY ONLY <2>3 DEF value
<1>5. GetCodepoint(x, i + 2) = [code |-> h[1] * 4096 + h[2] * 256 + h[3] * 16 + h[4], read |-> (i + 2) + 4]
  BY <1>3, <1>4 DEF GetCodepoint
<1> QED BY <1>0, <1>2, <1>5 DEF Backslash, LowerU

\* The halves of a surrogate pair, and the code point they stand for.
LEMMA PairHalves ==
  ASSUME NEW c \in Nat, c >= 65536, c < 1114112
  PROVE  /\ 55232 + c \div 1024 \in 55296 .. 56319
         /\ 56320 + (c % 1024) \in 56320 .. 57343
         /\ ((55232 + c \div 1024) - 55296) * 1024 + ((56320 + (c % 1024)) - 56320) + 65536 = c
         /\ PairOf(55232 + c \div 1024, 56320 + (c % 1024)) = c
<1> DEFINE q == c \div 1024
           r == c % 1024
<1>1. q >= 64 /\ q < 1088
  BY SMT
<1>2. q \in Nat /\ r \in 0 .. 1023 /\ c = q * 1024 + r
  BY Quotients
<1> HIDE DEF q, r
<1>3. (55232 + q) % 1024 = q - 64 /\ (56320 + r) % 1024 = r
  BY ONLY <1>1, <1>2, SMT
<1>4. 55232 + q \in Nat /\ 56320 + r \in Nat
  BY <1>1, <1>2
<1>5. \A n \in Nat : n \div 1 = n
  BY SMT
<1>6. PairOf(55232 + q, 56320 + r) = 65536 + (q - 64) * 1024 + r
  BY <1>3, <1>4, <1>5 DEF PairOf, Bits
<1>7. PairOf(55232 + q, 56320 + r) = c
  BY <1>1, <1>2, <1>6
<1>8. 55232 + q \in 55296 .. 56319 /\ 56320 + r \in 56320 .. 57343
      /\ ((55232 + q) - 55296) * 1024 + ((56320 + r) - 56320) + 65536 = c
  BY <1>1, <1>2
<1> QED BY <1>7, <1>8 DEF q, r

\* The lexer reads back every escape the serializer writes (dump_escaped with
\* ensure_ascii): where the \uxxxx or the pair of them for the character c stands
\* in a text, the scan of the escape gives the UTF-8 bytes of c and has read all
\* of the escape, whatever precedes and follows it.
THEOREM EscapesReadBack ==
  ASSUME NEW c \in ScalarValues, NEW x, NEW i \in Nat, At(x, i, Escaped(c))
  PROVE  UnicodeEscape(x, i + 2) = Unit(CodepointBytes(c), i + Len(Escaped(c)))
<1>1. c \in Nat /\ c < 1114112 /\ c \notin HighSurrogates /\ c \notin LowSurrogates /\ c # -1
  BY DEF ScalarValues
<1>2. CASE c < 65536
  <2>1. Escaped(c) = UnicodeHex(c) /\ Len(UnicodeHex(c)) = 6
    BY <1>2 DEF Escaped, UnicodeHex
  <2>2. GetCodepoint(x, i + 2) = [code |-> c, read |-> i + 6]
    BY <1>1, <1>2, <2>1, UnicodeHexRead
  <2> QED BY <1>1, <2>1, <2>2 DEF UnicodeEscape
<1>3. CASE c >= 65536
  <2> DEFINE high == 55232 + c \div 1024
             low  == 56320 + (c % 1024)
  <2>1. /\ high \in 55296 .. 56319 /\ low \in 56320 .. 57343
        /\ (high - 55296) * 1024 + (low - 56320) + 65536 = c
    BY <1>1, <1>3, PairHalves
  <2>2. Escaped(c) = UnicodeHex(high) \o UnicodeHex(low)
    BY <1>1, <1>3 DEF Escaped, SurrogatePair
  <2> HIDE DEF high, low
  <2>3. high \in Nat /\ high < 65536 /\ low \in Nat /\ low < 65536 /\ high # -1 /\ high \notin LowSurrogates
        /\ high \in HighSurrogates /\ low \in LowSurrogates
    BY <2>1 DEF LowSurrogates, HighSurrogates
  <2>4. /\ Len(Escaped(c)) = 12
        /\ At(x, i, UnicodeHex(high)) /\ At(x, i + 6, UnicodeHex(low))
    <3> DEFINE g == UnicodeHex(high)
               l == UnicodeHex(low)
    <3>1. DOMAIN g = 1 .. 6 /\ DOMAIN l = 1 .. 6 /\ Len(g) = 6 /\ Len(l) = 6
      BY DEF UnicodeHex
    <3>2. g \in Seq(Int) /\ l \in Seq(Int)
      <4>1. \A d \in Int : HexDigit(d) \in Int
        BY DEF HexDigit
      <4>2. \A n \in Nat : n \div 4096 \in Int /\ (n \div 256) % 16 \in Int /\ (n \div 16) % 16 \in Int /\ n % 16 \in Int
        BY SMT
      <4> QED BY <2>3, <4>1, <4>2 DEF UnicodeHex
    <3> HIDE DEF g, l
    <3>3. DOMAIN (g \o l) = 1 .. 12 /\ Len(g \o l) = 12
      BY <3>1, <3>2, TwoSixes, Zenon
    <3>4. \A j \in 1 .. 6 : (g \o l)[j] = g[j] /\ (g \o l)[6 + j] = l[j]
      BY <3>1, <3>2, TwoSixes, Zenon
    <3>5. Escaped(c) = g \o l
      BY <2>2 DEF g, l
    <3>6. \A j \in 1 .. 12 : i + j \in DOMAIN x /\ x[i + j] = (g \o l)[j]
      BY <3>3, <3>5 DEF At
    <3>7. \A j \in 1 .. 6 : j \in 1 .. 12 /\ 6 + j \in 1 .. 12 /\ i + (6 + j) = (i + 6) + j
      OBVIOUS
    <3>8. At(x, i, g)
      BY <3>1, <3>4, <3>6, <3>7 DEF At
    <3>9. At(x, i + 6, l)
      <4>1. \A j \in 1 .. 6 : i + (6 + j) \in DOMAIN x /\ x[i + (6 + j)] = (g \o l)[6 + j]
        BY <3>6, <3>7
      <4> QED BY <3>1, <3>4, <3>7, <4>1 DEF At
    <3> QED BY <3>3, <3>5, <3>8, <3>9 DEF g, l
  <2>5. GetCodepoint(x, i + 2) = [code |-> high, read |-> i + 6]
    BY <2>3, <2>4, UnicodeHexRead
  <2>6. /\ Get(x, (i + 6) + 1) = Backslash /\ Get(x, (i + 6) + 2) = LowerU
        /\ GetCodepoint(x, (i + 6) + 2) = [code |-> low, read |-> (i + 6) + 6]
    BY <2>3, <2>4, UnicodeHexRead
  <2>7. UnicodeEscape(x, i + 2) = LowHalf(x, [code |-> high, read |-> i + 6])
    BY <2>3, <2>5 DEF UnicodeEscape
  <2>8. LowHalf(x, [code |-> high, read |-> i + 6]) = Unit(CodepointBytes(c), (i + 6) + 6)
    BY <2>1, <2>3, <2>6 DEF LowHalf
  <2> QED BY <2>4, <2>7, <2>8
<1> QED BY <1>1, <1>2, <1>3

-----------------------------------------------------------------------------
\* The sequences of bytes that are a character, by the table of the Unicode
\* standard, and the number of the character.
One(y1)      == y1 \in 0 .. 127
Two(y1, y2)  == y1 \in 194 .. 223 /\ y2 \in 128 .. 191
Three(y1, y2, y3) ==
  /\ y1 \in 224 .. 239 /\ y2 \in 128 .. 191 /\ y3 \in 128 .. 191
  /\ y1 = 224 => y2 >= 160
  /\ y1 = 237 => y2 < 160
Four(y1, y2, y3, y4) ==
  /\ y1 \in 240 .. 244 /\ y2 \in 128 .. 191 /\ y3 \in 128 .. 191 /\ y4 \in 128 .. 191
  /\ y1 = 240 => y2 >= 144
  /\ y1 = 244 => y2 < 144

Utf8(b) ==
  \/ Len(b) = 1 /\ One(b[1])
  \/ Len(b) = 2 /\ Two(b[1], b[2])
  \/ Len(b) = 3 /\ Three(b[1], b[2], b[3])
  \/ Len(b) = 4 /\ Four(b[1], b[2], b[3], b[4])

OfTwo(y1, y2)           == (y1 - 192) * 64 + (y2 - 128)
OfThree(y1, y2, y3)     == ((y1 - 224) * 64 + (y2 - 128)) * 64 + (y3 - 128)
OfFour(y1, y2, y3, y4)  == (((y1 - 240) * 64 + (y2 - 128)) * 64 + (y3 - 128)) * 64 + (y4 - 128)

Character(b) ==
  IF Len(b) = 1 THEN b[1]
  ELSE IF Len(b) = 2 THEN OfTwo(b[1], b[2])
  ELSE IF Len(b) = 3 THEN OfThree(b[1], b[2], b[3])
  ELSE OfFour(b[1], b[2], b[3], b[4])

LEMMA IsScalar ==
  \A c \in Nat : c \in ScalarValues <=> c < 1114112 /\ (c < 55296 \/ c >= 57344)
BY SMT DEF ScalarValues, HighSurrogates, LowSurrogates

LEMMA Offset ==
  ASSUME NEW low \in Nat, NEW high \in Nat, NEW y \in low .. high
  PROVE  \E p \in 0 .. high - low : y = low + p
<1>1. y - low \in 0 .. high - low /\ y = low + (y - low)
  OBVIOUS
<1> QED BY <1>1, Zenon

LEMMA Encoded ==
  ASSUME NEW c \in ScalarValues
  PROVE  /\ CodepointBytes(c) \in Seq(0 .. 255)
         /\ Utf8(CodepointBytes(c)) /\ Character(CodepointBytes(c)) = c
<1>1. /\ c \in Nat /\ c < 1114112
      /\ c < 55296 \/ c >= 57344
  BY IsScalar, SMT DEF ScalarValues
<1> DEFINE b == CodepointBytes(c)
<1>2. CASE c < 128
  BY <1>1, <1>2, SMT DEF CodepointBytes, Utf8, Character, OfTwo, OfThree, OfFour, One
<1>3. CASE c >= 128 /\ c < 2048
  <2>1. c \div 64 >= 2 /\ c \div 64 < 32
    BY <1>1, <1>3, SMT
  <2>2. c \div 64 \in Nat /\ c % 64 \in 0 .. 63 /\ c = (c \div 64) * 64 + (c % 64)
    BY <1>1, Quotients, SMT
  <2>3. b = <<192 + c \div 64, 128 + (c % 64)>>
    BY <1>1, <1>3, SMT DEF CodepointBytes
  <2> QED BY <2>1, <2>2, <2>3, SMT DEF Utf8, Character, OfTwo, OfThree, OfFour, Two
<1>4. CASE c >= 2048 /\ c < 65536
  <2> DEFINE p == c \div 4096
             q == (c \div 64) % 64
             r == c % 64
  <2>1. p < 16
    BY <1>1, <1>4, SMT
  <2>2. p \in Nat /\ q \in 0 .. 63 /\ r \in 0 .. 63 /\ c = p * 4096 + q * 64 + r
    BY <1>1, Quotients, Places64, SMT
  <2>3. b = <<224 + p, 128 + q, 128 + r>>
    BY <1>1, <1>4, SMT DEF CodepointBytes
  <2> HIDE DEF p, q, r, b
  <2>4. /\ 224 + p = 224 => 128 + q >= 160
        /\ 224 + p = 237 => 128 + q < 160
    BY <1>1, <1>4, <2>1, <2>2, SMT
  <2>5. Three(b[1], b[2], b[3]) /\ Len(b) = 3 /\ b \in Seq(0 .. 255)
    BY <2>1, <2>2, <2>3, <2>4, SMT DEF Three
  <2>6. Character(b) = (p * 64 + q) * 64 + r
    BY <2>1, <2>2, <2>3, SMT DEF Character, OfTwo, OfThree, OfFour
  <2> QED BY <2>2, <2>5, <2>6, SMT DEF Utf8, b
<1>5. CASE c >= 65536
  <2> DEFINE o == c \div 262144
             p == (c \div 4096) % 64
             q == (c \div 64) % 64
             r == c % 64
  <2>1. o <= 4
    BY <1>1, <1>5, SMT
  <2>2. o \in Nat /\ p \in 0 .. 63 /\ q \in 0 .. 63 /\ r \in 0 .. 63 /\ c = o * 262144 + p * 4096 + q * 64 + r
    BY <1>1, Quotients, Places64, SMT
  <2>3. b = <<240 + o, 128 + p, 128 + q, 128 + r>>
    BY <1>1, <1>5, SMT DEF CodepointBytes
  <2> HIDE DEF o, p, q, r, b
  <2>4. /\ 240 + o = 240 => 128 + p >= 144
        /\ 240 + o = 244 => 128 + p < 144
    BY <1>1, <1>5, <2>1, <2>2, SMT
  <2>5. Four(b[1], b[2], b[3], b[4]) /\ Len(b) = 4 /\ b \in Seq(0 .. 255)
    BY <2>1, <2>2, <2>3, <2>4, SMT DEF Four
  <2>6. Character(b) = ((o * 64 + p) * 64 + q) * 64 + r
    BY <2>1, <2>2, <2>3, SMT DEF Character, OfTwo, OfThree, OfFour
  <2> QED BY <2>2, <2>5, <2>6, SMT DEF Utf8, b
<1> QED BY <1>1, <1>2, <1>3, <1>4, <1>5, SMT

LEMMA Decoded ==
  ASSUME NEW b \in Seq(0 .. 255), Utf8(b)
  PROVE  Character(b) \in ScalarValues /\ b = CodepointBytes(Character(b))
<1> DEFINE c == Character(b)
<1>1. CASE Len(b) = 1 /\ One(b[1])
  <2>1. PICK y \in 0 .. 127 : b[1] = y
    BY <1>1, Zenon DEF One
  <2>2. c = y /\ b = <<y>>
    BY <1>1, <2>1, SMT DEF Character, OfTwo, OfThree, OfFour
  <2> HIDE DEF c
  <2>3. c \in Nat /\ c < 128 /\ b = CodepointBytes(c)
    BY <2>2, SMT DEF CodepointBytes
  <2> QED BY <2>3, IsScalar, SMT DEF c
<1>2. CASE Len(b) = 2 /\ Two(b[1], b[2])
  <2>1. PICK p \in 0 .. 29 : b[1] = 194 + p
    BY <1>2, Offset, SMT DEF Two
  <2>2. PICK q \in 0 .. 63 : b[2] = 128 + q
    BY <1>2, Offset, SMT DEF Two
  <2>3. c = (p + 2) * 64 + q /\ b = <<192 + (p + 2), 128 + q>>
    BY <1>2, <2>1, <2>2, SMT DEF Character, OfTwo, OfThree, OfFour
  <2> HIDE DEF c
  <2>4. c \div 64 = p + 2 /\ c % 64 = q
    BY ONLY <2>3, SMT
  <2>5. c \in Nat /\ c >= 128 /\ c < 2048
    BY <2>3, SMT
  <2>6. b = CodepointBytes(c)
    BY <2>3, <2>4, <2>5, SMT DEF CodepointBytes
  <2> QED BY <2>5, <2>6, IsScalar, SMT DEF c
<1>3. CASE Len(b) = 3 /\ Three(b[1], b[2], b[3])
  <2>1. PICK p \in 0 .. 15 : b[1] = 224 + p
    BY <1>3, Offset, SMT DEF Three
  <2>2. PICK q \in 0 .. 63 : b[2] = 128 + q
    BY <1>3, Offset, SMT DEF Three
  <2>3. PICK r \in 0 .. 63 : b[3] = 128 + r
    BY <1>3, Offset, SMT DEF Three
  <2>4. c = p * 4096 + q * 64 + r /\ b = <<224 + p, 128 + q, 128 + r>>
    BY <1>3, <2>1, <2>2, <2>3, SMT DEF Character, OfTwo, OfThree, OfFour
  <2>5. (p = 0 => q >= 32) /\ (p = 13 => q < 32)
    BY <1>3, <2>1, <2>2, SMT DEF Three
  <2> HIDE DEF c
  <2>6. c \div 4096 = p /\ (c \div 64) % 64 = q /\ c % 64 = r
    BY ONLY <2>4, SMT
  <2>7. c \in Nat /\ c >= 2048 /\ c < 65536 /\ (c < 55296 \/ c >= 57344)
    BY <2>4, <2>5, SMT
  <2>8. b = CodepointBytes(c)
    BY <2>4, <2>6, <2>7, SMT DEF CodepointBytes
  <2> QED BY <2>7, <2>8, IsScalar, SMT DEF c
<1>4. CASE Len(b) = 4 /\ Four(b[1], b[2], b[3], b[4])
  <2>1. PICK o \in 0 .. 4 : b[1] = 240 + o
    BY <1>4, Offset, SMT DEF Four
  <2>2. PICK p \in 0 .. 63 : b[2] = 128 + p
    BY <1>4, Offset, SMT DEF Four
  <2>3. PICK q \in 0 .. 63 : b[3] = 128 + q
    BY <1>4, Offset, SMT DEF Four
  <2>4. PICK r \in 0 .. 63 : b[4] = 128 + r
    BY <1>4, Offset, SMT DEF Four
  <2>5. c = o * 262144 + p * 4096 + q * 64 + r /\ b = <<240 + o, 128 + p, 128 + q, 128 + r>>
    BY <1>4, <2>1, <2>2, <2>3, <2>4, SMT DEF Character, OfTwo, OfThree, OfFour
  <2>6. (o = 0 => p >= 16) /\ (o = 4 => p < 16)
    BY <1>4, <2>1, <2>2, SMT DEF Four
  <2> HIDE DEF c
  <2>7. c \div 262144 = o /\ (c \div 4096) % 64 = p /\ (c \div 64) % 64 = q /\ c % 64 = r
    BY ONLY <2>5, SMT
  <2>8. c \in Nat /\ c >= 65536 /\ c < 1114112
    BY <2>5, <2>6, SMT
  <2>9. b = CodepointBytes(c)
    BY <2>5, <2>7, <2>8, SMT DEF CodepointBytes
  <2> QED BY <2>8, <2>9, IsScalar, SMT DEF c
<1> QED BY <1>1, <1>2, <1>3, <1>4, Zenon DEF Utf8

LEMMA AsUtf8 ==
  ASSUME NEW b \in Seq(0 .. 255), NEW c
  PROVE  c \in ScalarValues /\ b = CodepointBytes(c) <=> Utf8(b) /\ c = Character(b)
BY Encoded, Decoded, Zenon

LEMMA Remainders ==
  /\ \A y \in Nat : y >= 128 /\ y < 192 => y % 64 = y - 128
  /\ \A y \in Nat : y >= 192 /\ y < 224 => y % 32 = y - 192
  /\ \A y \in Nat : y >= 224 /\ y < 240 => y % 16 = y - 224
  /\ \A y \in Nat : y >= 240 /\ y < 248 => y % 8 = y - 240
BY SMT

\* What one byte y does to the automaton in a state s that is not Reject1,
\* with the code point n so far.
StepsTo(s, n, y, t, m) ==
  /\ t \in 0 .. 8 /\ m \in Int
  /\ s = 0 => /\ y < 128 => t = 0 /\ m = y
              /\ y \in 194 .. 223 => t = 2 /\ m = y - 192
              /\ y \in 224 .. 239 => m = y - 224 /\ t = IF y = 224 THEN 4 ELSE IF y = 237 THEN 5 ELSE 3
              /\ y \in 240 .. 244 => m = y - 240 /\ t = IF y = 240 THEN 6 ELSE IF y = 244 THEN 8 ELSE 7
              /\ y \in 128 .. 193 \/ y > 244 => t = 1
  /\ s = 2 => t = IF y \in 128 .. 191 THEN 0 ELSE 1
  /\ s = 3 => t = IF y \in 128 .. 191 THEN 2 ELSE 1
  /\ s = 4 => t = IF y \in 160 .. 191 THEN 2 ELSE 1
  /\ s = 5 => t = IF y \in 128 .. 159 THEN 2 ELSE 1
  /\ s = 6 => t = IF y \in 144 .. 191 THEN 3 ELSE 1
  /\ s = 7 => t = IF y \in 128 .. 191 THEN 3 ELSE 1
  /\ s = 8 => t = IF y \in 128 .. 143 THEN 3 ELSE 1
  /\ s # 0 /\ y \in 128 .. 191 => m = n * 64 + (y - 128)

LEMMA FirstByte ==
  ASSUME NEW y \in 0 .. 255, NEW n \in Int
  PROVE  StepsTo(0, n, y, Decode(0, n, y)[1], Decode(0, n, y)[2])
<1>1. Decode(0, n, y)[1] = LeadState(y)
  BY SMT DEF Decode, Accept0
<1>2. Decode(0, n, y)[2] = IF y < 128 THEN y ELSE IF y < 224 THEN y % 32 ELSE IF y < 240 THEN y % 16 ELSE y % 8
  BY SMT DEF Decode, Accept0
<1>3. /\ y < 128 => LeadState(y) = 0
      /\ y \in 194 .. 223 => LeadState(y) = 2
      /\ y \in 224 .. 239 => LeadState(y) = IF y = 224 THEN 4 ELSE IF y = 237 THEN 5 ELSE 3
      /\ y \in 240 .. 244 => LeadState(y) = IF y = 240 THEN 6 ELSE IF y = 244 THEN 8 ELSE 7
      /\ y \in 128 .. 193 \/ y > 244 => LeadState(y) = 1
      /\ LeadState(y) \in 0 .. 8
  BY SMT DEF LeadState, Accept0, Reject1
<1>4. /\ y \in 194 .. 223 => y % 32 = y - 192
      /\ y \in 224 .. 239 => y % 16 = y - 224
      /\ y \in 240 .. 244 => y % 8 = y - 240
      /\ y % 32 \in Int /\ y % 16 \in Int /\ y % 8 \in Int
  BY Remainders, SMT
<1> DEFINE t == Decode(0, n, y)[1]
           m == Decode(0, n, y)[2]
<1>5. t = LeadState(y) /\ m = IF y < 128 THEN y ELSE IF y < 224 THEN y % 32 ELSE IF y < 240 THEN y % 16 ELSE y % 8
  BY <1>1, <1>2
<1> HIDE DEF t, m
<1>6. m \in Int /\ t \in 0 .. 8
  BY <1>3, <1>4, <1>5, SMT
<1>7. StepsTo(0, n, y, t, m)
  BY <1>3, <1>4, <1>5, <1>6, SMT DEF StepsTo
<1> QED BY <1>7 DEF t, m

LEMMA NextByte ==
  ASSUME NEW y \in 0 .. 255, NEW n \in Int, NEW s \in 2 .. 8
  PROVE  StepsTo(s, n, y, Decode(s, n, y)[1], Decode(s, n, y)[2])
<1>1. y % 64 \in Int /\ (y \in 128 .. 191 => y % 64 = y - 128)
  BY Remainders, SMT
<1>2. Decode(s, n, y)[2] = n * 64 + (y % 64)
  BY SMT DEF Decode, Accept0
<1>3. Decode(s, n, y)[1] = IF y \in Expected[s - 1][1] THEN Expected[s - 1][2] ELSE 1
  BY SMT DEF Decode, Accept0, Reject1
<1>4. /\ Expected[1] = <<128 .. 191, 0>> /\ Expected[2] = <<128 .. 191, 2>>
      /\ Expected[3] = <<160 .. 191, 2>> /\ Expected[4] = <<128 .. 159, 2>>
      /\ Expected[5] = <<144 .. 191, 3>> /\ Expected[6] = <<128 .. 191, 3>>
      /\ Expected[7] = <<128 .. 143, 3>>
  BY SMT DEF Expected
<1> DEFINE t == Decode(s, n, y)[1]
           m == Decode(s, n, y)[2]
<1>5. /\ s = 2 => t = IF y \in 128 .. 191 THEN 0 ELSE 1
      /\ s = 3 => t = IF y \in 128 .. 191 THEN 2 ELSE 1
      /\ s = 4 => t = IF y \in 160 .. 191 THEN 2 ELSE 1
      /\ s = 5 => t = IF y \in 128 .. 159 THEN 2 ELSE 1
      /\ s = 6 => t = IF y \in 144 .. 191 THEN 3 ELSE 1
      /\ s = 7 => t = IF y \in 128 .. 191 THEN 3 ELSE 1
      /\ s = 8 => t = IF y \in 128 .. 143 THEN 3 ELSE 1
  BY <1>3, <1>4, SMT
<1> HIDE DEF t, m
<1>6. m \in Int /\ (y \in 128 .. 191 => m = n * 64 + (y - 128))
  BY <1>1, <1>2, SMT DEF m
<1>7. t \in 0 .. 8
  BY <1>5, SMT
<1>8. StepsTo(s, n, y, t, m)
  BY <1>5, <1>6, <1>7, SMT DEF StepsTo
<1> QED BY <1>8 DEF t, m

\* What the automaton has read when it waits after two bytes, and after three.
AfterTwo(y1, y2, s, n) ==
  /\ y1 \in 224 .. 244 /\ y2 \in 128 .. 191
  /\ (y1 = 224 => y2 >= 160) /\ (y1 = 237 => y2 < 160)
  /\ (y1 = 240 => y2 >= 144) /\ (y1 = 244 => y2 < 144)
  /\ s = (IF y1 < 240 THEN 2 ELSE 3)
  /\ n = (IF y1 < 240 THEN y1 - 224 ELSE y1 - 240) * 64 + (y2 - 128)

AfterThree(y1, y2, y3, s, n) ==
  /\ y1 \in 240 .. 244 /\ y2 \in 128 .. 191 /\ y3 \in 128 .. 191
  /\ (y1 = 240 => y2 >= 144) /\ (y1 = 244 => y2 < 144)
  /\ s = 2 /\ n = ((y1 - 240) * 64 + (y2 - 128)) * 64 + (y3 - 128)

\* The automaton from its first byte to its last.
EndsOne(y1, s1, n1) ==
  /\ s1 = 0 <=> One(y1)
  /\ s1 = 0 => n1 = y1
  /\ s1 \in 2 .. 8 <=> y1 \in 194 .. 244

LEMMA EndOfOne ==
  ASSUME NEW n0 \in Int, NEW y1 \in 0 .. 255, NEW s1, NEW n1, StepsTo(0, n0, y1, s1, n1)
  PROVE  EndsOne(y1, s1, n1)
BY SMT DEF EndsOne, StepsTo, One

EndsTwo(y1, y2, s2, n2) ==
  /\ s2 = 0 <=> Two(y1, y2)
  /\ s2 = 0 => n2 = OfTwo(y1, y2)
  /\ s2 \in 2 .. 8 => AfterTwo(y1, y2, s2, n2)
  /\ \A y3, y4 : Three(y1, y2, y3) \/ Four(y1, y2, y3, y4) => s2 \in 2 .. 8

LEMMA EndOfTwo ==
  ASSUME NEW n0 \in Int, NEW y1 \in 0 .. 255, NEW s1, NEW n1, StepsTo(0, n0, y1, s1, n1), s1 \in 2 .. 8,
         NEW y2 \in 0 .. 255, NEW s2, NEW n2, StepsTo(s1, n1, y2, s2, n2)
  PROVE  EndsTwo(y1, y2, s2, n2)
<1>1. /\ s2 = 0 <=> y1 \in 194 .. 223 /\ y2 \in 128 .. 191
      /\ s2 = 0 => n2 = (y1 - 192) * 64 + (y2 - 128)
      /\ s2 \in 2 .. 8 <=>
           /\ y1 \in 224 .. 244 /\ y2 \in 128 .. 191
           /\ (y1 = 224 => y2 >= 160) /\ (y1 = 237 => y2 < 160)
           /\ (y1 = 240 => y2 >= 144) /\ (y1 = 244 => y2 < 144)
      /\ s2 \in 2 .. 8 => s2 = IF y1 < 240 THEN 2 ELSE 3
      /\ s2 \in 2 .. 8 => n2 = (IF y1 < 240 THEN y1 - 224 ELSE y1 - 240) * 64 + (y2 - 128)
  BY SMT DEF StepsTo
<1>2. ASSUME NEW y3, NEW y4, Three(y1, y2, y3) \/ Four(y1, y2, y3, y4)
      PROVE  s2 \in 2 .. 8
  BY <1>1, <1>2, SMT DEF Three, Four
<1>3. (s2 = 0 <=> Two(y1, y2)) /\ (s2 = 0 => n2 = OfTwo(y1, y2))
  BY <1>1, Zenon DEF Two, OfTwo
<1>4. s2 \in 2 .. 8 => AfterTwo(y1, y2, s2, n2)
  BY <1>1, SMT DEF AfterTwo
<1> QED BY <1>2, <1>3, <1>4, Zenon DEF EndsTwo

EndsThree(y1, y2, y3, s3, n3) ==
  /\ s3 = 0 <=> Three(y1, y2, y3)
  /\ s3 = 0 => n3 = OfThree(y1, y2, y3)
  /\ s3 \in 2 .. 8 => AfterThree(y1, y2, y3, s3, n3)
  /\ \A y4 : Four(y1, y2, y3, y4) => s3 \in 2 .. 8

LEMMA EndOfThree ==
  ASSUME NEW y1 \in 0 .. 255, NEW y2 \in 0 .. 255, NEW s2, NEW n2, AfterTwo(y1, y2, s2, n2),
         NEW y3 \in 0 .. 255, NEW s3, NEW n3, StepsTo(s2, n2, y3, s3, n3)
  PROVE  EndsThree(y1, y2, y3, s3, n3)
<1>1. /\ y1 \in 224 .. 244 /\ y2 \in 128 .. 191
      /\ (y1 = 224 => y2 >= 160) /\ (y1 = 237 => y2 < 160)
      /\ (y1 = 240 => y2 >= 144) /\ (y1 = 244 => y2 < 144)
      /\ s2 = (IF y1 < 240 THEN 2 ELSE 3)
      /\ n2 = (IF y1 < 240 THEN y1 - 224 ELSE y1 - 240) * 64 + (y2 - 128)
  BY SMT DEF AfterTwo
<1>2. CASE y1 < 240
  <2>1. s2 = 2 /\ n2 = (y1 - 224) * 64 + (y2 - 128)
    BY <1>1, <1>2, SMT
  <2>2. /\ s3 = 0 <=> y3 \in 128 .. 191
        /\ s3 = 0 => n3 = n2 * 64 + (y3 - 128)
        /\ s3 \notin 2 .. 8
    BY <2>1, SMT DEF StepsTo
  <2>3. s3 = 0 <=> Three(y1, y2, y3)
    BY <1>1, <1>2, <2>2, SMT DEF Three
  <2>4. s3 = 0 => n3 = OfThree(y1, y2, y3)
    BY <2>1, <2>2, Zenon DEF OfThree
  <2>5. \A y4 : ~Four(y1, y2, y3, y4)
    BY <1>1, <1>2, SMT DEF Four
  <2>6. s3 \notin 2 .. 8
    BY <2>2, Zenon
  <2> QED BY <2>3, <2>4, <2>5, <2>6, Zenon DEF EndsThree
<1>3. CASE y1 >= 240
  <2>1. s2 = 3 /\ n2 = (y1 - 240) * 64 + (y2 - 128)
    BY <1>1, <1>3, SMT
  <2>2. /\ s3 \in 2 .. 8 <=> y3 \in 128 .. 191
        /\ s3 \in 2 .. 8 => s3 = 2 /\ n3 = n2 * 64 + (y3 - 128)
        /\ s3 # 0
    BY <2>1, SMT DEF StepsTo
  <2>3. ~Three(y1, y2, y3) /\ y1 \in 240 .. 244
    BY <1>1, <1>3, SMT DEF Three
  <2>4. \A y4 : Four(y1, y2, y3, y4) => s3 \in 2 .. 8
    BY <2>2, Zenon DEF Four
  <2>5. s3 \in 2 .. 8 => AfterThree(y1, y2, y3, s3, n3)
    BY <1>1, <2>1, <2>2, <2>3, SMT DEF AfterThree
  <2>6. s3 # 0
    BY <2>2, Zenon
  <2> QED BY <2>3, <2>4, <2>5, <2>6, Zenon DEF EndsThree
<1>4. y1 < 240 \/ y1 >= 240
  OBVIOUS
<1> QED BY <1>2, <1>3, <1>4, Zenon

EndsFour(y1, y2, y3, y4, s4, n4) ==
  /\ s4 = 0 <=> Four(y1, y2, y3, y4)
  /\ s4 = 0 => n4 = OfFour(y1, y2, y3, y4)
  /\ s4 \notin 2 .. 8

LEMMA EndOfFour ==
  ASSUME NEW y1 \in 0 .. 255, NEW y2 \in 0 .. 255, NEW y3 \in 0 .. 255, NEW s3, NEW n3,
         AfterThree(y1, y2, y3, s3, n3),
         NEW y4 \in 0 .. 255, NEW s4, NEW n4, StepsTo(s3, n3, y4, s4, n4)
  PROVE  EndsFour(y1, y2, y3, y4, s4, n4)
<1>1. /\ y1 \in 240 .. 244 /\ y2 \in 128 .. 191 /\ y3 \in 128 .. 191
      /\ (y1 = 240 => y2 >= 144) /\ (y1 = 244 => y2 < 144)
      /\ s3 = 2 /\ n3 = ((y1 - 240) * 64 + (y2 - 128)) * 64 + (y3 - 128)
  BY SMT DEF AfterThree
<1>2. /\ s4 = 0 <=> y4 \in 128 .. 191
      /\ s4 = 0 => n4 = n3 * 64 + (y4 - 128)
      /\ s4 \notin 2 .. 8
  BY <1>1, SMT DEF StepsTo
<1> QED BY <1>1, <1>2, Zenon DEF EndsFour, Four, OfFour

LEMMA UtfLeads ==
  \A y1, y2, y3, y4 :
    Two(y1, y2) \/ Three(y1, y2, y3) \/ Four(y1, y2, y3, y4) => y1 \in 194 .. 244
BY SMT DEF Two, Three, Four

-----------------------------------------------------------------------------
\* The states and code points the automaton goes through as it reads b.
Reads(b, states, codes) ==
  /\ states[0] = Accept0 /\ codes[0] \in Int
  /\ \A i \in 1 .. Len(b) :
       <<states[i], codes[i]>> = Decode(states[i - 1], codes[i - 1], b[i])

\* It waits until the last byte of b, and accepts with that.
Accepts(b, states) ==
  /\ b # << >> /\ states[Len(b)] = Accept0
  /\ \A i \in 1 .. Len(b) - 1 : states[i] \notin {Accept0, Reject1}

\* What is to be shown of b, said of its bytes.
Recognised(b, states, codes) ==
  /\ Accepts(b, states) <=> Utf8(b)
  /\ Accepts(b, states) => codes[Len(b)] = Character(b)

LEMMA ByteAt ==
  ASSUME NEW S, NEW b \in Seq(S), NEW i \in 1 .. Len(b)
  PROVE  b[i] \in S
OBVIOUS

LEMMA ReadsOne ==
  ASSUME NEW b \in Seq(0 .. 255), NEW states, NEW codes, Reads(b, states, codes),
         NEW i \in 1 .. Len(b),
         codes[i - 1] \in Int, (i = 1 \/ states[i - 1] \in 2 .. 8)
  PROVE  StepsTo(states[i - 1], codes[i - 1], b[i], states[i], codes[i])
<1>1. b[i] \in 0 .. 255
  BY ByteAt
<1>2. <<states[i], codes[i]>> = Decode(states[i - 1], codes[i - 1], b[i])
  BY Zenon DEF Reads
<1>3. /\ states[i] = Decode(states[i - 1], codes[i - 1], b[i])[1]
      /\ codes[i] = Decode(states[i - 1], codes[i - 1], b[i])[2]
  <2> DEFINE d == Decode(states[i - 1], codes[i - 1], b[i])
  <2> HIDE DEF d
  <2>1. <<states[i], codes[i]>> = d
    BY <1>2 DEF d
  <2>2. states[i] = d[1] /\ codes[i] = d[2]
    BY ONLY <2>1, SMT
  <2> QED BY <2>2 DEF d
<1>4. CASE states[i - 1] = 0
  BY <1>1, <1>3, <1>4, FirstByte, Zenon
<1>5. CASE states[i - 1] \in 2 .. 8
  BY <1>1, <1>3, <1>5, NextByte, Zenon
<1>6. i = 1 => states[i - 1] = 0
  BY SMT DEF Reads, Accept0
<1> QED BY <1>4, <1>5, <1>6

LEMMA Utf8Length ==
  ASSUME NEW b \in Seq(0 .. 255), Utf8(b)
  PROVE  Len(b) \in 1 .. 4
BY SMT DEF Utf8

\* A byte, and the state and the code point it led to.
After(b, states, codes, i) == b[i] \in 0 .. 255 /\ codes[i] \in Int /\ states[i] \in 0 .. 8

LEMMA FirstStep ==
  ASSUME NEW b \in Seq(0 .. 255), NEW states, NEW codes, Reads(b, states, codes), Len(b) >= 1
  PROVE  After(b, states, codes, 1) /\ EndsOne(b[1], states[1], codes[1])
                                    /\ StepsTo(0, codes[0], b[1], states[1], codes[1]) /\ codes[0] \in Int
<1>1. 1 \in 1 .. Len(b) /\ 1 - 1 = 0
  OBVIOUS
<1>2. codes[0] \in Int /\ states[0] = 0
  BY Zenon DEF Reads, Accept0
<1>3. StepsTo(0, codes[0], b[1], states[1], codes[1])
  BY <1>1, <1>2, ReadsOne
<1>4. b[1] \in 0 .. 255
  BY <1>1, ByteAt, Zenon
<1>5. EndsOne(b[1], states[1], codes[1])
  BY <1>2, <1>3, <1>4, EndOfOne, Zenon
<1>6. codes[1] \in Int /\ states[1] \in 0 .. 8
  BY <1>3, Zenon DEF StepsTo
<1> QED BY <1>2, <1>3, <1>4, <1>5, <1>6, Zenon DEF After

LEMMA NextStep ==
  ASSUME NEW b \in Seq(0 .. 255), NEW states, NEW codes, Reads(b, states, codes),
         NEW i \in Nat, NEW j \in Nat, j = i + 1, i >= 1, j <= Len(b),
         After(b, states, codes, i), states[i] \in 2 .. 8
  PROVE  StepsTo(states[i], codes[i], b[j], states[j], codes[j]) /\ After(b, states, codes, j)
<1>1. j \in 1 .. Len(b) /\ j - 1 = i
  OBVIOUS
<1>2. codes[i] \in Int
  BY Zenon DEF After
<1>3. StepsTo(states[i], codes[i], b[j], states[j], codes[j])
  BY <1>1, <1>2, ReadsOne
<1>4. b[j] \in 0 .. 255
  BY <1>1, ByteAt, Zenon
<1> QED BY <1>3, <1>4, Zenon DEF StepsTo, After

LEMMA Lengths ==
  \A n \in Nat :
    /\ n = 0 \/ n = 1 \/ n >= 2
    /\ n >= 2 => n = 2 \/ n >= 3
    /\ n >= 3 => n = 3 \/ n >= 4
    /\ n >= 4 => n = 4 \/ n >= 5
    /\ n >= 2 => n >= 1 /\ n # 0 /\ n # 1 /\ 1 \in 1 .. n - 1
    /\ n >= 3 => n >= 2 /\ n # 2 /\ 2 \in 1 .. n - 1
    /\ n >= 4 => n >= 3 /\ n # 3 /\ 3 \in 1 .. n - 1
    /\ n >= 5 => n >= 4 /\ n # 4 /\ 4 \in 1 .. n - 1
    /\ n = 1 => n >= 1 /\ \A i \in 1 .. n - 1 : FALSE
    /\ n = 2 => \A i \in 1 .. n - 1 : i = 1
    /\ n = 3 => \A i \in 1 .. n - 1 : i \in {1, 2}
    /\ n = 4 => \A i \in 1 .. n - 1 : i \in {1, 2, 3}
OBVIOUS

LEMMA Waits == \A s \in 0 .. 8 : s \in 2 .. 8 \/ s = 0 \/ s = 1
OBVIOUS

\* The automaton stops before the end of b, and b is no character.
LEMMA Stops ==
  ASSUME NEW b \in Seq(0 .. 255), NEW states, NEW codes, NEW i \in 1 .. Len(b) - 1,
         states[i] = 0 \/ states[i] = 1, ~Utf8(b)
  PROVE  Recognised(b, states, codes)
BY Zenon DEF Recognised, Accepts, Accept0, Reject1

LEMMA Automaton ==
  ASSUME NEW b \in Seq(0 .. 255), NEW states, NEW codes, Reads(b, states, codes)
  PROVE  Recognised(b, states, codes)
<1> DEFINE L == Len(b)
<1>0. L \in Nat /\ (b = << >> <=> L = 0)
  OBVIOUS
<1> HIDE DEF L
<1>1. CASE L = 0
  <2>1. ~Utf8(b)
    BY <1>1, SMT DEF Utf8, L
  <2> QED BY <1>0, <1>1, <2>1, Zenon DEF Recognised, Accepts
<1>2. ASSUME L >= 1
      PROVE  After(b, states, codes, 1) /\ EndsOne(b[1], states[1], codes[1])
  BY <1>2, FirstStep, Zenon DEF L
<1>3. CASE L = 1
  <2>1. states[1] = 0 <=> One(b[1])
    BY <1>0, <1>2, <1>3, Lengths, Zenon DEF EndsOne
  <2>2. states[1] = 0 => codes[1] = b[1]
    BY <1>0, <1>2, <1>3, Lengths, Zenon DEF EndsOne
  <2>3. Accepts(b, states) <=> states[1] = 0
    <3>1. Len(b) = 1 /\ b # << >> /\ ~(\E i \in 1 .. Len(b) - 1 : TRUE)
      BY <1>0, <1>3, Lengths, SMT DEF L
    <3> QED BY <3>1, Zenon DEF Accepts, Accept0
  <2>4. Utf8(b) <=> One(b[1])
    BY <1>3, SMT DEF Utf8, L
  <2>5. Len(b) = 1 /\ Character(b) = b[1]
    BY <1>3, Zenon DEF Character, L
  <2> QED BY <2>1, <2>2, <2>3, <2>4, <2>5, Zenon DEF Recognised
<1>4. CASE L >= 2 /\ states[1] \notin 2 .. 8
  <2>0. L >= 1
    BY <1>0, <1>4, Lengths, Zenon
  <2>1. /\ states[1] = 0 \/ states[1] = 1
        /\ ~(b[1] \in 194 .. 244)
    <3>1. EndsOne(b[1], states[1], codes[1]) /\ states[1] \in 0 .. 8
      BY <1>2, <2>0, Zenon DEF After
    <3>2. states[1] = 0 \/ states[1] = 1
      BY <1>4, <3>1, Waits, Zenon
    <3>3. ~(b[1] \in 194 .. 244)
      BY <1>4, <3>1, Zenon DEF EndsOne
    <3> QED BY <3>2, <3>3
  <2>2. Len(b) # 1 /\ 1 \in 1 .. Len(b) - 1
    BY <1>0, <1>4, Lengths, Zenon DEF L
  <2>3. ~Utf8(b)
    BY <2>1, <2>2, UtfLeads, Zenon DEF Utf8
  <2> QED BY <2>1, <2>2, <2>3, Stops, Zenon
<1>5. ASSUME L >= 2, states[1] \in 2 .. 8
      PROVE  After(b, states, codes, 2) /\ EndsTwo(b[1], b[2], states[2], codes[2])
  <2>1. L >= 1 /\ 2 <= L /\ 2 = 1 + 1 /\ 1 >= 1 /\ 1 \in Nat /\ 2 \in Nat
    BY <1>0, <1>5
  <2>2. After(b, states, codes, 1) /\ StepsTo(0, codes[0], b[1], states[1], codes[1]) /\ codes[0] \in Int
    BY <2>1, FirstStep, Zenon DEF L
  <2>3. StepsTo(states[1], codes[1], b[2], states[2], codes[2]) /\ After(b, states, codes, 2)
    BY <1>5, <2>1, <2>2, NextStep, Zenon DEF L
  <2>4. EndsTwo(b[1], b[2], states[2], codes[2])
    BY <1>5, <2>2, <2>3, EndOfTwo, Zenon DEF After
  <2> QED BY <2>3, <2>4, Zenon
<1>6. CASE L = 2 /\ states[1] \in 2 .. 8
  <2>1. /\ L >= 2 /\ Len(b) = 2 /\ b # << >>
        /\ \A i \in 1 .. Len(b) - 1 : i = 1
        /\ states[1] # 0 /\ states[1] # 1
    BY <1>0, <1>6, SMT DEF L
  <2>2. 1 \in 1 .. Len(b) - 1
    BY <2>1, SMT
  <2>3. /\ states[2] = 0 <=> Two(b[1], b[2])
        /\ states[2] = 0 => codes[2] = OfTwo(b[1], b[2])
    BY <1>5, <1>6, <2>1, Zenon DEF EndsTwo
  <2>4. Accepts(b, states) <=> states[2] = 0
    BY <2>1, <2>2, Zenon DEF Accepts, Accept0, Reject1
  <2>5. Utf8(b) <=> Two(b[1], b[2])
    BY <2>1, SMT DEF Utf8
  <2>6. Character(b) = OfTwo(b[1], b[2])
    BY <2>1, SMT DEF Character
  <2> QED BY <2>1, <2>3, <2>4, <2>5, <2>6, Zenon DEF Recognised
<1>7. CASE L >= 3 /\ states[1] \in 2 .. 8 /\ states[2] \notin 2 .. 8
  <2>1. L >= 2 /\ 2 \in 1 .. Len(b) - 1 /\ Len(b) # 1 /\ Len(b) # 2
    BY <1>0, <1>7, Lengths, Zenon DEF L
  <2>2. /\ states[2] = 0 \/ states[2] = 1
        /\ \A y3, y4 : ~Three(b[1], b[2], y3) /\ ~Four(b[1], b[2], y3, y4)
    BY <1>5, <1>7, <2>1, Waits, Zenon DEF EndsTwo, After
  <2>3. ~Utf8(b)
    BY <2>1, <2>2, Zenon DEF Utf8
  <2> QED BY <2>1, <2>2, <2>3, Stops, Zenon
<1>8. ASSUME L >= 3, states[1] \in 2 .. 8, states[2] \in 2 .. 8
      PROVE  /\ After(b, states, codes, 1) /\ After(b, states, codes, 2) /\ After(b, states, codes, 3)
             /\ EndsThree(b[1], b[2], b[3], states[3], codes[3])
  <2>1. L >= 1 /\ L >= 2 /\ 3 <= L /\ 3 = 2 + 1 /\ 2 >= 1 /\ 2 \in Nat /\ 3 \in Nat
    BY <1>0, <1>8
  <2>2. After(b, states, codes, 1) /\ After(b, states, codes, 2)
    BY <1>2, <1>5, <1>8, <2>1, Zenon
  <2>3. AfterTwo(b[1], b[2], states[2], codes[2])
    BY <1>5, <1>8, <2>1, Zenon DEF EndsTwo
  <2>4. StepsTo(states[2], codes[2], b[3], states[3], codes[3]) /\ After(b, states, codes, 3)
    BY <1>8, <2>1, <2>2, NextStep, Zenon DEF L
  <2>5. EndsThree(b[1], b[2], b[3], states[3], codes[3])
    BY <2>2, <2>3, <2>4, EndOfThree, Zenon DEF After
  <2> QED BY <2>2, <2>4, <2>5, Zenon
<1>9. CASE L = 3 /\ states[1] \in 2 .. 8 /\ states[2] \in 2 .. 8
  <2>1. /\ L >= 3 /\ Len(b) = 3 /\ b # << >>
        /\ \A i \in 1 .. Len(b) - 1 : i = 1 \/ i = 2
        /\ states[1] # 0 /\ states[1] # 1 /\ states[2] # 0 /\ states[2] # 1
    BY <1>0, <1>9, SMT DEF L
  <2>3. /\ states[3] = 0 <=> Three(b[1], b[2], b[3])
        /\ states[3] = 0 => codes[3] = OfThree(b[1], b[2], b[3])
    BY <1>8, <1>9, <2>1, Zenon DEF EndsThree
  <2>4. Accepts(b, states) <=> states[3] = 0
    BY <2>1, Zenon DEF Accepts, Accept0, Reject1
  <2>5. Utf8(b) <=> Three(b[1], b[2], b[3])
    BY <2>1, SMT DEF Utf8
  <2>6. Character(b) = OfThree(b[1], b[2], b[3])
    BY <2>1, SMT DEF Character
  <2> QED BY <2>1, <2>3, <2>4, <2>5, <2>6, Zenon DEF Recognised
<1>10. CASE L >= 4 /\ states[1] \in 2 .. 8 /\ states[2] \in 2 .. 8 /\ states[3] \notin 2 .. 8
  <2>1. L >= 3 /\ 3 \in 1 .. Len(b) - 1 /\ Len(b) # 1 /\ Len(b) # 2 /\ Len(b) # 3
    BY <1>0, <1>10, Lengths, Zenon DEF L
  <2>2. /\ states[3] = 0 \/ states[3] = 1
        /\ \A y4 : ~Four(b[1], b[2], b[3], y4)
    BY <1>8, <1>10, <2>1, Waits, Zenon DEF EndsThree, After
  <2>3. ~Utf8(b)
    BY <2>1, <2>2, Zenon DEF Utf8
  <2> QED BY <2>1, <2>2, <2>3, Stops, Zenon
<1>11. CASE L >= 4 /\ states[1] \in 2 .. 8 /\ states[2] \in 2 .. 8 /\ states[3] \in 2 .. 8
  <2>0. 4 <= L /\ 4 = 3 + 1 /\ 3 >= 1 /\ 3 \in Nat /\ 4 \in Nat /\ states[3] \in 2 .. 8
    BY <1>11
  <2>1. L >= 3 /\ Len(b) # 1 /\ Len(b) # 2 /\ Len(b) # 3
    BY <1>0, <1>11, Lengths, Zenon DEF L
  <2>2. /\ After(b, states, codes, 1) /\ After(b, states, codes, 2) /\ After(b, states, codes, 3)
        /\ AfterThree(b[1], b[2], b[3], states[3], codes[3])
    BY <1>8, <1>11, <2>1, Zenon DEF EndsThree
  <2>3. StepsTo(states[3], codes[3], b[4], states[4], codes[4]) /\ After(b, states, codes, 4)
    <3>1. After(b, states, codes, 3)
      BY <2>2
    <3>2. 4 <= Len(b)
      BY <2>0 DEF L
    <3> QED BY <2>0, <3>1, <3>2, NextStep, Zenon
  <2>4. EndsFour(b[1], b[2], b[3], b[4], states[4], codes[4])
    BY <2>2, <2>3, EndOfFour, Zenon DEF After
  <2>5. CASE L = 4
    <3>1. /\ Len(b) = 4 /\ b # << >>
          /\ \A i \in 1 .. Len(b) - 1 : i = 1 \/ i = 2 \/ i = 3
          /\ states[1] # 0 /\ states[1] # 1 /\ states[2] # 0 /\ states[2] # 1 /\ states[3] # 0 /\ states[3] # 1
      BY <1>0, <1>11, <2>5, SMT DEF L
    <3>2. Accepts(b, states) <=> states[4] = 0
      BY <3>1, Zenon DEF Accepts, Accept0, Reject1
    <3>3. Utf8(b) <=> Four(b[1], b[2], b[3], b[4])
      BY <3>1, SMT DEF Utf8
    <3>4. Character(b) = OfFour(b[1], b[2], b[3], b[4])
      BY <3>1, SMT DEF Character
    <3> QED BY <2>4, <3>1, <3>2, <3>3, <3>4, Zenon DEF Recognised, EndsFour
  <2>6. CASE L >= 5
    <3>1. Len(b) # 4 /\ 4 \in 1 .. Len(b) - 1
      BY <1>0, <2>6, Lengths, Zenon DEF L
    <3>2. states[4] = 0 \/ states[4] = 1
      BY <2>3, <2>4, Waits, Zenon DEF EndsFour, After
    <3>3. ~Utf8(b)
      BY <2>1, <3>1, Zenon DEF Utf8
    <3> QED BY <3>1, <3>2, <3>3, Stops, Zenon
  <2> QED BY <1>0, <1>11, <2>5, <2>6, Lengths, Zenon
<1>12. CASE L = 0 \/ L = 1 \/ states[1] \notin 2 .. 8
  BY <1>0, <1>1, <1>3, <1>4, <1>12, Lengths, Zenon
<1>13. CASE L >= 2 /\ states[1] \in 2 .. 8 /\ states[2] \notin 2 .. 8
  BY <1>0, <1>6, <1>7, <1>13, Lengths, Zenon
<1>14. CASE L >= 2 /\ states[1] \in 2 .. 8 /\ states[2] \in 2 .. 8
  <2>1. L = 2 \/ L = 3 \/ L >= 4
    BY <1>0, <1>14, Lengths, Zenon
  <2> QED BY <1>6, <1>9, <1>10, <1>11, <1>14, <2>1, Zenon
<1> QED BY <1>0, <1>12, <1>13, <1>14, Lengths, Zenon

\* The serializer's automaton (decode, with the table utf8d) recognises exactly
\* the UTF-8 of characters: run over bytes b from its initial state it accepts at
\* the last of them and not before, with code point c, if and only if c is a
\* character and b its encoding.  No overlong form, surrogate or number beyond
\* U+10FFFF passes, and no character is refused.
THEOREM AutomatonIsUtf8 ==
  ASSUME NEW b \in Seq(0 .. 255), NEW states, NEW codes, Reads(b, states, codes), NEW c
  PROVE  Accepts(b, states) /\ codes[Len(b)] = c <=> c \in ScalarValues /\ b = CodepointBytes(c)
<1>1. /\ Accepts(b, states) <=> Utf8(b)
      /\ Accepts(b, states) => codes[Len(b)] = Character(b)
  BY Automaton, Zenon DEF Recognised
<1>2. c \in ScalarValues /\ b = CodepointBytes(c) <=> Utf8(b) /\ c = Character(b)
  BY AsUtf8, Zenon
<1> QED BY <1>1, <1>2, Zenon

-----------------------------------------------------------------------------
\* The bytes after the first are in the ranges the lexer has for it.
InRanges(r, b) == r # << >> /\ Len(b) = Len(r) + 1 /\ \A j \in 1 .. Len(r) : b[j + 1] \in r[j]

\* What is needed of the ranges: at most three, and none holds the end of x.
Sound(r) ==
  /\ Len(r) \in 0 .. 3 /\ DOMAIN r = 1 .. Len(r)
  /\ \A j \in 1 .. Len(r) : Eof \notin r[j]

LEMMA RangesOne ==
  ASSUME NEW r, NEW r1, r = <<r1>>, Eof \notin r1
  PROVE  Sound(r) /\ \A b : InRanges(r, b) <=> Len(b) = 2 /\ b[2] \in r1
BY SMT DEF InRanges, Sound

LEMMA RangesTwo ==
  ASSUME NEW r, NEW r1, NEW r2, r = <<r1, r2>>, Eof \notin r1, Eof \notin r2
  PROVE  Sound(r) /\ \A b : InRanges(r, b) <=> Len(b) = 3 /\ b[2] \in r1 /\ b[3] \in r2
BY SMT DEF InRanges, Sound

LEMMA RangesThree ==
  ASSUME NEW r, NEW r1, NEW r2, NEW r3, r = <<r1, r2, r3>>, Eof \notin r1, Eof \notin r2, Eof \notin r3
  PROVE  Sound(r) /\ \A b : InRanges(r, b) <=> Len(b) = 4 /\ b[2] \in r1 /\ b[3] \in r2 /\ b[4] \in r3
BY SMT DEF InRanges, Sound

\* The first bytes of the characters of two, three and four bytes.
Lead2 == 194 .. 223
Lead3 == 224 .. 239
Lead4 == 240 .. 244

LEMMA Shapes ==
  ASSUME NEW b, NEW y, y = b[1], ~One(y)
  PROVE  /\ y \in Lead2 => (Utf8(b) <=> Len(b) = 2 /\ Two(y, b[2]))
         /\ y \in Lead3 => (Utf8(b) <=> Len(b) = 3 /\ Three(y, b[2], b[3]))
         /\ y \in Lead4 => (Utf8(b) <=> Len(b) = 4 /\ Four(y, b[2], b[3], b[4]))
         /\ y \notin Lead2 /\ y \notin Lead3 /\ y \notin Lead4 => ~Utf8(b)
<1>1. y \in Lead2 => \A y2, y3, y4 : ~Three(y, y2, y3) /\ ~Four(y, y2, y3, y4)
  BY SMT DEF Lead2, Three, Four
<1>2. y \in Lead3 => \A y2, y3, y4 : ~Two(y, y2) /\ ~Four(y, y2, y3, y4)
  BY SMT DEF Lead3, Two, Four
<1>3. y \in Lead4 => \A y2, y3, y4 : ~Two(y, y2) /\ ~Three(y, y2, y3)
  BY SMT DEF Lead4, Two, Three
<1>4. y \notin Lead2 /\ y \notin Lead3 /\ y \notin Lead4 =>
        \A y2, y3, y4 : ~Two(y, y2) /\ ~Three(y, y2, y3) /\ ~Four(y, y2, y3, y4)
  BY SMT DEF Lead2, Lead3, Lead4, Two, Three, Four
<1> QED BY <1>1, <1>2, <1>3, <1>4, Zenon DEF Utf8

LEMMA ByRanges ==
  ASSUME NEW b, NEW y \in 128 .. 255, b[1] = y
  PROVE  Sound(Continuation(y)) /\ (Utf8(b) <=> InRanges(Continuation(y), b))
<1> DEFINE r == Continuation(y)
<1> HIDE DEF r
<1>0. y = b[1] /\ ~One(y)
  BY SMT DEF One
<1>1. CASE y \in Lead2
  <2> DEFINE tail == 128 .. 191
  <2>1. r = <<tail>>
    BY <1>1, SMT DEF Continuation, r, Lead2
  <2>2. y \in Lead2 /\ \A y2 : Two(y, y2) <=> y2 \in tail
    BY <1>1, SMT DEF Two, Lead2
  <2>0. Eof \notin tail
    BY SMT DEF Eof
  <2> HIDE DEF tail
  <2>3. Utf8(b) <=> Len(b) = 2 /\ Two(y, b[2])
    BY <1>0, <2>2, Shapes, Zenon
  <2>4. Sound(r) /\ (InRanges(r, b) <=> Len(b) = 2 /\ b[2] \in tail)
    BY <2>0, <2>1, RangesOne, Zenon
  <2> QED BY ONLY <2>2, <2>3, <2>4, Zenon DEF r
<1>2. CASE y = 224
  <2> DEFINE tail == 128 .. 191
             second == 160 .. 191
  <2>1. r = <<second, tail>>
    BY <1>2, SMT DEF Continuation, r
  <2>2. y \in Lead3 /\ \A y2, y3 : Three(y, y2, y3) <=> y2 \in second /\ y3 \in tail
    BY <1>2, SMT DEF Three, Lead3
  <2>0. Eof \notin tail /\ Eof \notin second
    BY SMT DEF Eof
  <2> HIDE DEF tail, second
  <2>3. Utf8(b) <=> Len(b) = 3 /\ Three(y, b[2], b[3])
    BY <1>0, <2>2, Shapes, Zenon
  <2>4. Sound(r) /\ (InRanges(r, b) <=> Len(b) = 3 /\ b[2] \in second /\ b[3] \in tail)
    BY <2>0, <2>1, RangesTwo, Zenon
  <2> QED BY ONLY <2>2, <2>3, <2>4, Zenon DEF r
<1>3. CASE y = 237
  <2> DEFINE tail == 128 .. 191
             second == 128 .. 159
  <2>1. r = <<second, tail>>
    BY <1>3, SMT DEF Continuation, r
  <2>2. y \in Lead3 /\ \A y2, y3 : Three(y, y2, y3) <=> y2 \in second /\ y3 \in tail
    BY <1>3, SMT DEF Three, Lead3
  <2>0. Eof \notin tail /\ Eof \notin second
    BY SMT DEF Eof
  <2> HIDE DEF tail, second
  <2>3. Utf8(b) <=> Len(b) = 3 /\ Three(y, b[2], b[3])
    BY <1>0, <2>2, Shapes, Zenon
  <2>4. Sound(r) /\ (InRanges(r, b) <=> Len(b) = 3 /\ b[2] \in second /\ b[3] \in tail)
    BY <2>0, <2>1, RangesTwo, Zenon
  <2> QED BY ONLY <2>2, <2>3, <2>4, Zenon DEF r
<1>4. CASE y \in 225 .. 236 \/ y \in 238 .. 239
  <2> DEFINE tail == 128 .. 191
  <2>1. r = <<tail, tail>>
    <3>1. ~(y \in 194 .. 223) /\ y # 224 /\ y # 237 /\ y \in 225 .. 239
      BY <1>4, SMT
    <3> QED BY <1>4, <3>1, SMT DEF Continuation, r
  <2>2. y \in Lead3 /\ \A y2, y3 : Three(y, y2, y3) <=> y2 \in tail /\ y3 \in tail
    BY <1>4, SMT DEF Three, Lead3
  <2>0. Eof \notin tail
    BY SMT DEF Eof
  <2> HIDE DEF tail
  <2>3. Utf8(b) <=> Len(b) = 3 /\ Three(y, b[2], b[3])
    BY <1>0, <2>2, Shapes, Zenon
  <2>4. Sound(r) /\ (InRanges(r, b) <=> Len(b) = 3 /\ b[2] \in tail /\ b[3] \in tail)
    BY <2>0, <2>1, RangesTwo, Zenon
  <2> QED BY ONLY <2>2, <2>3, <2>4, Zenon DEF r
<1>5. CASE y = 240
  <2> DEFINE tail == 128 .. 191
             second == 144 .. 191
  <2>1. r = <<second, tail, tail>>
    <3>1. Continuation(240) = <<second, tail, tail>>
      BY SMT DEF Continuation
    <3>2. r = Continuation(240)
      BY <1>5 DEF r
    <3> QED BY <3>1, <3>2
  <2>2. y \in Lead4 /\ \A y2, y3, y4 : Four(y, y2, y3, y4) <=> y2 \in second /\ y3 \in tail /\ y4 \in tail
    BY <1>5, SMT DEF Four, Lead4
  <2>0. Eof \notin tail /\ Eof \notin second
    BY SMT DEF Eof
  <2> HIDE DEF tail, second
  <2>3. Utf8(b) <=> Len(b) = 4 /\ Four(y, b[2], b[3], b[4])
    BY <1>0, <2>2, Shapes, Zenon
  <2>4. Sound(r) /\ (InRanges(r, b) <=> Len(b) = 4 /\ b[2] \in second /\ b[3] \in tail /\ b[4] \in tail)
    BY <2>0, <2>1, RangesThree, Zenon
  <2> QED BY ONLY <2>2, <2>3, <2>4, Zenon DEF r
<1>6. CASE y \in 241 .. 243
  <2> DEFINE tail == 128 .. 191
  <2>1. r = <<tail, tail, tail>>
    <3>1. /\ Continuation(241) = <<tail, tail, tail>>
          /\ Continuation(242) = <<tail, tail, tail>>
          /\ Continuation(243) = <<tail, tail, tail>>
      BY SMT DEF Continuation
    <3>2. y = 241 \/ y = 242 \/ y = 243
      BY <1>6, SMT
    <3> QED BY <3>1, <3>2, Zenon DEF r
  <2>2. y \in Lead4 /\ \A y2, y3, y4 : Four(y, y2, y3, y4) <=> y2 \in tail /\ y3 \in tail /\ y4 \in tail
    BY <1>6, SMT DEF Four, Lead4
  <2>0. Eof \notin tail
    BY SMT DEF Eof
  <2> HIDE DEF tail
  <2>3. Utf8(b) <=> Len(b) = 4 /\ Four(y, b[2], b[3], b[4])
    BY <1>0, <2>2, Shapes, Zenon
  <2>4. Sound(r) /\ (InRanges(r, b) <=> Len(b) = 4 /\ b[2] \in tail /\ b[3] \in tail /\ b[4] \in tail)
    BY <2>0, <2>1, RangesThree, Zenon
  <2> QED BY ONLY <2>2, <2>3, <2>4, Zenon DEF r
<1>7. CASE y = 244
  <2> DEFINE tail == 128 .. 191
             second == 128 .. 143
  <2>1. r = <<second, tail, tail>>
    <3>1. Continuation(244) = <<second, tail, tail>>
      BY SMT DEF Continuation
    <3>2. r = Continuation(244)
      BY <1>7 DEF r
    <3> QED BY <3>1, <3>2
  <2>2. y \in Lead4 /\ \A y2, y3, y4 : Four(y, y2, y3, y4) <=> y2 \in second /\ y3 \in tail /\ y4 \in tail
    BY <1>7, SMT DEF Four, Lead4
  <2>0. Eof \notin tail /\ Eof \notin second
    BY SMT DEF Eof
  <2> HIDE DEF tail, second
  <2>3. Utf8(b) <=> Len(b) = 4 /\ Four(y, b[2], b[3], b[4])
    BY <1>0, <2>2, Shapes, Zenon
  <2>4. Sound(r) /\ (InRanges(r, b) <=> Len(b) = 4 /\ b[2] \in second /\ b[3] \in tail /\ b[4] \in tail)
    BY <2>0, <2>1, RangesThree, Zenon
  <2> QED BY ONLY <2>2, <2>3, <2>4, Zenon DEF r
<1>8. CASE y \in 128 .. 193 \/ y \in 245 .. 255
  <2>1. r = << >>
    BY <1>8, SMT DEF Continuation, r
  <2>2. y \notin Lead2 /\ y \notin Lead3 /\ y \notin Lead4
    BY <1>8, SMT DEF Lead2, Lead3, Lead4
  <2>3. ~Utf8(b) /\ ~InRanges(r, b)
    BY <1>0, <2>1, <2>2, Shapes, Zenon DEF InRanges
  <2>4. Sound(r)
    BY <2>1, SMT DEF Sound
  <2> QED BY ONLY <2>3, <2>4, Zenon DEF r
<1>9. \/ y \in Lead2 \/ y = 224 \/ y = 237 \/ (y \in 225 .. 236 \/ y \in 238 .. 239)
      \/ y = 240 \/ y \in 241 .. 243 \/ y = 244 \/ (y \in 128 .. 193 \/ y \in 245 .. 255)
  BY SMT DEF Lead2
<1> QED BY <1>1, <1>2, <1>3, <1>4, <1>5, <1>6, <1>7, <1>8, <1>9, Zenon

LEMMA Bounds ==
  /\ \A y \in 0 .. 255 : y >= 128 => y \in 128 .. 255
  /\ \A l \in 1 .. 4 : 1 \in 1 .. l
OBVIOUS

LEMMA Window ==
  ASSUME NEW x \in Seq(0 .. 255), NEW i \in 1 .. Len(x), NEW n \in Nat, i + n <= Len(x)
  PROVE  /\ SubSeq(x, i, i + n) \in Seq(0 .. 255) /\ Len(SubSeq(x, i, i + n)) = n + 1
         /\ \A j \in 1 .. n + 1 : SubSeq(x, i, i + n)[j] = x[i - 1 + j]
<1>1. i \in Int /\ i + n \in Int /\ i <= i + n /\ i + n - i + 1 = n + 1
  OBVIOUS
<1>2. \A j \in i .. i + n : x[j] \in 0 .. 255
  <2>1. ASSUME NEW j \in i .. i + n
        PROVE  x[j] \in 0 .. 255
    <3>1. j \in 1 .. Len(x)
      OBVIOUS
    <3> QED BY <3>1, ByteAt, Zenon
  <2> QED BY <2>1
<1>3. \A j \in 1 .. n + 1 : i + j - 1 = i - 1 + j
  OBVIOUS
<1> QED BY <1>1, <1>2, <1>3, SubSeqProperties

\* The unit the lexer makes of the byte at i and of those after it.
Scanned(x, i) == NextByteInRange(x, i, Continuation(x[i]))
ScansCharacter(x, i) == Continuation(x[i]) # << >> /\ Scanned(x, i).ok

\* The lexer's ranges (next_byte_in_range, the cases of scan_string) recognise
\* the same bytes: at a byte beyond ASCII the scan takes a unit if and only if the
\* UTF-8 of a character stands there, and the unit is that encoding, to its end.
THEOREM LexerIsUtf8 ==
  ASSUME NEW x \in Seq(0 .. 255), NEW i \in 1 .. Len(x), x[i] >= 128
  PROVE  /\ \A c \in ScalarValues :
              At(x, i - 1, CodepointBytes(c)) =>
                /\ ScansCharacter(x, i)
                /\ Scanned(x, i) = Unit(CodepointBytes(c), i + Len(CodepointBytes(c)) - 1)
         /\ ScansCharacter(x, i) =>
              \E c \in ScalarValues : At(x, i - 1, CodepointBytes(c))
<1> DEFINE r == Continuation(x[i])
           n == Len(r)
           w == SubSeq(x, i, i + n)
           bad == {j \in DOMAIN r : Get(x, i + j) \notin r[j]}
<1>0. x[i] \in 128 .. 255
  <2>1. x[i] \in 0 .. 255
    BY ByteAt
  <2> QED BY <2>1, Bounds, Zenon
<1>1. /\ n \in 0 .. 3 /\ DOMAIN r = 1 .. n /\ n \in Nat
      /\ \A j \in 1 .. n : -1 \notin r[j]
  <2>1. Sound(r)
    <3>1. \E b : b[1] = x[i]
      <4>1. <<x[i]>>[1] = x[i]
        OBVIOUS
      <4> QED BY <4>1, Zenon
    <3> QED BY <1>0, <3>1, ByRanges, Zenon
  <2> QED BY <2>1 DEF Sound, Eof
<1>2. /\ bad = {} => Scanned(x, i) = Unit(w, i + n)
      /\ bad # {} => Scanned(x, i).ok = FALSE
  <2>1. bad = {} => Scanned(x, i) = Unit(w, i + n)
    BY Zenon DEF Scanned, NextByteInRange
  <2>2. \A m : IllFormed(m).ok = FALSE
    BY DEF IllFormed
  <2> QED BY <2>1, <2>2, Zenon DEF Scanned, NextByteInRange
<1>3. Unit(w, i + n).ok
  BY DEF Unit
<1>4. ASSUME NEW c \in ScalarValues, At(x, i - 1, CodepointBytes(c))
      PROVE  ScansCharacter(x, i) /\ Scanned(x, i) = Unit(CodepointBytes(c), i + Len(CodepointBytes(c)) - 1)
  <2> DEFINE t == CodepointBytes(c)
  <2>1. t \in Seq(0 .. 255) /\ Utf8(t)
    BY Encoded, Zenon
  <2>2. \A j \in 1 .. Len(t) : i - 1 + j \in 1 .. Len(x) /\ x[i - 1 + j] = t[j]
    <3>1. DOMAIN t = 1 .. Len(t) /\ DOMAIN x = 1 .. Len(x)
      BY <2>1
    <3> QED BY <1>4, <3>1, Zenon DEF At
  <2> HIDE DEF t
  <2>3. t[1] = x[i]
    <3>1. Len(t) \in 1 .. 4
      BY <2>1, Utf8Length, Zenon
    <3>2. 1 \in 1 .. Len(t)
      BY <3>1, Bounds, Zenon
    <3>3. i - 1 + 1 = i
      BY SMT
    <3> QED BY <2>2, <3>2, <3>3, Zenon
  <2>4. InRanges(r, t)
    BY <1>0, <2>1, <2>3, ByRanges, Zenon
  <2>5. r # << >> /\ Len(t) = n + 1 /\ \A j \in 1 .. n : t[j + 1] \in r[j]
    BY <2>4, Zenon DEF InRanges
  <2> HIDE DEF r, n
  <2>6. bad = {}
    <3>1. ASSUME NEW j \in 1 .. n
          PROVE  Get(x, i + j) \in r[j]
      <4>1. j + 1 \in 1 .. Len(t) /\ i - 1 + (j + 1) = i + j
        BY <1>1, <2>5
      <4>2. i + j \in DOMAIN x /\ x[i + j] = t[j + 1]
        BY <2>2, <4>1
      <4> QED BY <2>5, <4>2 DEF Get
    <3> QED BY <1>1, <3>1
  <2>7. w = t
    <3>1. i + n \in 1 .. Len(x) /\ i + n <= Len(x)
      <4>1. n + 1 \in 1 .. Len(t) /\ i - 1 + (n + 1) = i + n
        BY <1>1, <2>5
      <4> QED BY <2>2, <4>1
    <3>2. w \in Seq(0 .. 255) /\ Len(w) = n + 1 /\ \A j \in 1 .. n + 1 : w[j] = x[i - 1 + j]
      BY <1>1, <3>1, Window, Zenon
    <3>3. \A j \in 1 .. n + 1 : w[j] = t[j]
      BY <2>2, <2>5, <3>2
    <3> HIDE DEF w
    <3> QED BY <2>1, <2>5, <3>2, <3>3, SeqEqual, Zenon
  <2>8. i + n = i + Len(t) - 1
    BY <1>1, <2>5
  <2> QED BY <1>2, <1>3, <2>5, <2>6, <2>7, <2>8, Zenon DEF ScansCharacter, r, t
<1>5. ASSUME ScansCharacter(x, i)
      PROVE  \E c \in ScalarValues : At(x, i - 1, CodepointBytes(c))
  <2>1. r # << >> /\ bad = {}
    BY <1>2, <1>5, Zenon DEF ScansCharacter
  <2> HIDE DEF r, n
  <2>2. ASSUME NEW j \in 1 .. n
        PROVE  i + j \in 1 .. Len(x) /\ x[i + j] \in r[j]
    <3>1. Get(x, i + j) \in r[j]
      BY <1>1, <2>1, Zenon
    <3>2. Get(x, i + j) # -1
      BY <1>1, <3>1, Zenon
    <3>3. i + j \in DOMAIN x
      BY <3>2, Zenon DEF Get, Eof
    <3>4. x[i + j] \in r[j]
      BY <3>1, <3>3, Zenon DEF Get
    <3> QED BY <3>3, <3>4
  <2>3. i + n <= Len(x)
    <3>1. CASE n = 0
      BY <3>1
    <3>2. CASE n # 0
      <4>1. n \in 1 .. n
        BY <1>1, <3>2
      <4> QED BY <2>2, <4>1
    <3> QED BY <3>1, <3>2
  <2>4. w \in Seq(0 .. 255) /\ Len(w) = n + 1 /\ \A j \in 1 .. n + 1 : w[j] = x[i - 1 + j]
    BY <1>1, <2>3, Window, Zenon
  <2> HIDE DEF w
  <2>5. w[1] = x[i]
    <3>1. 1 \in 1 .. n + 1 /\ i - 1 + 1 = i
      BY <1>1
    <3> QED BY <2>4, <3>1
  <2>6. \A j \in 1 .. n : w[j + 1] \in r[j]
    <3>1. ASSUME NEW j \in 1 .. n
          PROVE  w[j + 1] \in r[j]
      <4>1. j + 1 \in 1 .. n + 1 /\ i - 1 + (j + 1) = i + j
        BY <1>1
      <4>2. w[j + 1] = x[i + j]
        BY <2>4, <4>1
      <4> QED BY <2>2, <4>2
    <3> QED BY <3>1
  <2>7. InRanges(r, w)
    BY <2>1, <2>4, <2>6, Zenon DEF InRanges, n
  <2>8. Utf8(w)
    BY <1>0, <2>5, <2>7, ByRanges, Zenon DEF r
  <2>9. Character(w) \in ScalarValues /\ w = CodepointBytes(Character(w))
    BY <2>4, <2>8, Decoded, Zenon
  <2>10. At(x, i - 1, w)
    <3>1. ASSUME NEW j \in 1 .. n + 1
          PROVE  i - 1 + j \in 1 .. Len(x)
      BY <1>1, <2>3, <3>1
    <3>2. DOMAIN w = 1 .. n + 1 /\ DOMAIN x = 1 .. Len(x)
      BY <2>4
    <3> QED BY <2>4, <3>1, <3>2, Zenon DEF At
  <2> QED BY <2>9, <2>10, Zenon
<1> QED BY <1>4, <1>5, Zenon

\* The adapters for wide strings (fill_buffer) write the same bytes as the lexer
\* (its UTF-8 of \uxxxx) for every code point of UTF-32, and for the two halves of
\* a code point beyond 2^16 in UTF-16.
THEOREM AdaptersAgree ==
  ASSUME NEW c \in Nat, c < 1114112
  PROVE  /\ FillFrom32(c) = CodepointBytes(c)
         /\ c >= 65536 =>
              LET high == 55232 + c \div 1024
                  low  == 56320 + (c % 1024)
              IN  IsSurrogate(high) /\ IsSurrogate(low) /\ FourBytes(PairOf(high, low)) = CodepointBytes(c)
<1>0. \A m \in Nat : m \div 1 = m
  BY SMT
<1>1. CASE c < 128
  <2>1. FillFrom32(c) = CodepointBytes(c)
    BY <1>1, SMT DEF FillFrom32, CodepointBytes
  <2> QED BY <1>1, <2>1, SMT
<1>2. CASE c >= 128 /\ c < 2048
  <2>1. c \div 64 \in Nat /\ c \div 64 < 32
    BY <1>2, SMT
  <2>2. (c \div 64) % 32 = c \div 64
    BY ONLY <2>1, SMT
  <2>3. TwoBytes(c) = <<192 + c \div 64, 128 + (c % 64)>>
    BY <1>0, <2>2, SMT DEF TwoBytes, Bits
  <2>4. FillFrom32(c) = TwoBytes(c)
    BY <1>2, SMT DEF FillFrom32
  <2>5. CodepointBytes(c) = <<192 + c \div 64, 128 + (c % 64)>>
    BY <1>2, SMT DEF CodepointBytes
  <2> QED BY <1>2, <2>3, <2>4, <2>5, SMT
<1>3. CASE c >= 2048 /\ c < 65536
  <2>1. c \div 4096 \in Nat /\ c \div 4096 < 16
    BY <1>3, SMT
  <2>2. (c \div 4096) % 16 = c \div 4096
    BY ONLY <2>1, SMT
  <2>3. ThreeBytes(c) = <<224 + c \div 4096, 128 + ((c \div 64) % 64), 128 + (c % 64)>>
    BY <1>0, <2>2, SMT DEF ThreeBytes, Bits
  <2>4. FillFrom32(c) = ThreeBytes(c)
    BY <1>3, SMT DEF FillFrom32
  <2>5. CodepointBytes(c) = <<224 + c \div 4096, 128 + ((c \div 64) % 64), 128 + (c % 64)>>
    BY <1>3, SMT DEF CodepointBytes
  <2> QED BY <1>3, <2>3, <2>4, <2>5, SMT
<1>4. CASE c >= 65536
  <2> DEFINE high == 55232 + c \div 1024
             low  == 56320 + (c % 1024)
  <2>1. c \div 262144 \in Nat /\ c \div 262144 < 8
    BY <1>4, SMT
  <2>2. (c \div 262144) % 8 = c \div 262144
    BY ONLY <2>1, SMT
  <2>3. FourBytes(c) = <<240 + c \div 262144, 128 + ((c \div 4096) % 64), 128 + ((c \div 64) % 64), 128 + (c % 64)>>
    BY <1>0, <2>2, SMT DEF FourBytes, Bits
  <2>4. FillFrom32(c) = FourBytes(c)
    BY <1>4, SMT DEF FillFrom32
  <2>5. CodepointBytes(c) = <<240 + c \div 262144, 128 + ((c \div 4096) % 64), 128 + ((c \div 64) % 64), 128 + (c % 64)>>
    BY <1>4, SMT DEF CodepointBytes
  <2>6. /\ high \in 55296 .. 56319
        /\ low \in 56320 .. 57343
        /\ PairOf(high, low) = c
    BY <1>4, PairHalves, SMT
  <2>7. IsSurrogate(high) /\ IsSurrogate(low)
    BY <2>6, SMT DEF IsSurrogate
  <2>8. FillFrom32(c) = CodepointBytes(c) /\ FourBytes(PairOf(high, low)) = CodepointBytes(c)
    BY <2>3, <2>4, <2>5, <2>6, SMT
  <2> QED BY <2>7, <2>8, SMT
<1> QED BY <1>1, <1>2, <1>3, <1>4, SMT

=============================================================================
