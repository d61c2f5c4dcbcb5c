---------------------------- MODULE JsonDocument ----------------------------
(***************************************************************************)
(* A basic_json value under the operations of its class, any of them next. *)
(* One that throws leaves the value as it was, but for update and          *)
(* patch_inplace, which have done a part by then.                          *)
(***************************************************************************)
EXTENDS JsonOps

LOCAL INSTANCE TLC

-----------------------------------------------------------------------------
(***************************************************************************)
(* JSON pointers (nlohmann/detail/json_pointer.hpp, string_escape.hpp) and *)
(* what is built on them in json.hpp: flatten and unflatten, JSON patch,   *)
(* diff and merge patch.                                                   *)
(*                                                                         *)
(* A pointer is the sequence of its reference tokens.  An operation that   *)
(* can throw returns the set of its result, which is empty when it does.   *)
(***************************************************************************)

Tilde == 126
Slash == 47
Zero  == 48
One   == 49
Dash  == <<45>>

\* Wrong variant: the slashes first, so that the ~ of ~1 is escaped again.
EscapeSlashFirst(s) ==
  Flattened([i \in DOMAIN s |-> IF s[i] = Tilde THEN <<Tilde, Zero>> ELSE IF s[i] = Slash THEN <<Tilde, Zero, One>> ELSE <<s[i]>>])

\* escape: ~ becomes ~0 and / becomes ~1.
Escape(s) ==
  Flattened([i \in DOMAIN s |-> IF s[i] = Tilde THEN <<Tilde, Zero>> ELSE IF s[i] = Slash THEN <<Tilde, One>> ELSE <<s[i]>>])

\* unescape: what it replaces is never replaced again, neither by the
\* first pass, for ~1, nor by the second, for ~0.
Replaced(s, code, byte) ==
  LET hit(i) == i < Len(s) /\ s[i] = Tilde /\ s[i + 1] = code
  IN  Flattened([i \in DOMAIN s |-> IF hit(i) THEN <<byte>> ELSE IF i > 1 /\ hit(i - 1) THEN << >> ELSE <<s[i]>>])

Unescape(s) == Replaced(Replaced(s, One, Slash), Zero, Tilde)

ToText(tokens) == Flattened([i \in DOMAIN tokens |-> <<Slash>> \o Escape(tokens[i])])

\* split: nothing, or a slash before each token; each ~ escapes something.
Split(s) ==
  LET slashes == {i \in DOMAIN s : s[i] = Slash}
      nth(n)  == CHOOSE i \in slashes : Cardinality({j \in slashes : j <= i}) = n
      end(n)  == IF n = Cardinality(slashes) THEN Len(s) ELSE nth(n + 1) - 1
      sound   == \A i \in DOMAIN s : s[i] = Tilde => i < Len(s) /\ s[i + 1] \in {Zero, One}
  IN  IF s = << >> THEN {<< >>}
      ELSE IF s[1] # Slash \/ ~sound THEN {}
      ELSE {[n \in 1 .. Cardinality(slashes) |-> Unescape(SubSeq(s, nth(n) + 1, end(n)))]}

\* array_index: a decimal number without a leading zero, below 2^64 - 1.
ArrayIndex(s) ==
  LET m == FromDigits([i \in DOMAIN s |-> s[i] - Zero])
  IN  IF s = << >> \/ (\E i \in DOMAIN s : s[i] \notin 48 .. 57) \/ (Len(s) > 1 /\ s[1] = Zero) THEN {}
      ELSE IF Less(m, [i \in 1 .. 8 |-> 255]) THEN {m} ELSE {}

\* The indices, from 0, of the elements an array has.
IndexIn(a, s) == {n \in 0 .. Len(a) - 1 : {Mag(n)} = ArrayIndex(s)}

-----------------------------------------------------------------------------
\* get_checked: the value pointed to.
RECURSIVE At(_, _)
At(v, tokens) ==
  IF tokens = << >> THEN {v}
  ELSE IF v.t = "object" /\ tokens[1] \in DOMAIN v.o THEN At(v.o[tokens[1]], Tail(tokens))
  ELSE IF v.t = "array" THEN UNION {At(v.a[n + 1], Tail(tokens)) : n \in IndexIn(v.a, tokens[1])}
  ELSE {}

\* The value with another one where the pointer, which resolves, points.
RECURSIVE Assign(_, _, _)
Assign(v, tokens, w) ==
  IF tokens = << >> THEN w
  ELSE IF v.t = "object" THEN Object([v.o EXCEPT ![tokens[1]] = Assign(@, Tail(tokens), w)])
  ELSE Array([v.a EXCEPT ![1 + CHOOSE n \in IndexIn(v.a, tokens[1]) : TRUE] = Assign(@, Tail(tokens), w)])

\* contains: FALSE, TRUE, or an exception for an empty token and an index
\* that does not fit.
RECURSIVE Contains(_, _)
Contains(v, tokens) ==
  LET s == tokens[1]
      malformed == /\ s # << >>
                   /\ s = Dash \/ (\E i \in DOMAIN s : s[i] \notin 48 .. 57) \/ (Len(s) > 1 /\ s[1] = Zero)
      hits == IndexIn(v.a, s)
  IN  IF tokens = << >> THEN {TRUE}
      ELSE IF v.t = "object" THEN IF s \in DOMAIN v.o THEN Contains(v.o[s], Tail(tokens)) ELSE {FALSE}
      ELSE IF v.t # "array" \/ malformed THEN {FALSE}
      ELSE IF ArrayIndex(s) = {} THEN {}
      ELSE IF hits = {} THEN {FALSE} ELSE UNION {Contains(v.a[n + 1], Tail(tokens)) : n \in hits}

\* get_and_create of unflatten, and the assignment to its result: nulls on
\* the way become containers.
RECURSIVE Create(_, _, _)
Create(v, tokens, w) ==
  LET s == tokens[1]
      in(o) == {Object(Member(o, s, c)) : c \in Create(IF s \in DOMAIN o THEN o[s] ELSE Null, Tail(tokens), w)}
      at(a, n) == {Array([Grown(a, n + 1) EXCEPT ![n + 1] = c]) : c \in Create(Grown(a, n + 1)[n + 1], Tail(tokens), w)}
  IN  IF tokens = << >> THEN {w}
      ELSE IF v.t = "null" THEN IF s = <<Zero>> THEN at(<< >>, 0) ELSE in(<< >>)
      ELSE IF v.t = "object" THEN in(v.o)
      ELSE IF v.t = "array" THEN UNION {at(v.a, Number(n)) : n \in ArrayIndex(s)}
      ELSE {}

\* get_unchecked, and an assignment to its result: a null becomes an array
\* for digits (and for the empty token) or "-", else an object.
RECURSIVE PutUnchecked(_, _, _)
PutUnchecked(v, tokens, w) ==
  LET s == tokens[1]
      numeric == s = Dash \/ \A i \in DOMAIN s : s[i] \in 48 .. 57
      u == IF v.t # "null" THEN v ELSE IF numeric THEN EmptyArray ELSE EmptyObject
      index == IF s = Dash THEN {Len(u.a)} ELSE {Number(n) : n \in ArrayIndex(s)}
      at(n) == {Array([Grown(u.a, n + 1) EXCEPT ![n + 1] = c]) : c \in PutUnchecked(Grown(u.a, n + 1)[n + 1], Tail(tokens), w)}
  IN  IF tokens = << >> THEN {w}
      ELSE IF u.t = "object"
      THEN {Object(Member(u.o, s, c)) : c \in PutUnchecked(IF s \in DOMAIN u.o THEN u.o[s] ELSE Null, Tail(tokens), w)}
      ELSE IF u.t = "array" THEN UNION {at(n) : n \in index}
      ELSE {}

-----------------------------------------------------------------------------
\* The text of an array index.
IndexText(n) == IF n < 10 THEN <<Zero + n>> ELSE <<Zero + n \div 10, Zero + (n % 10)>>

\* flatten: the primitive values by the texts of their pointers; an empty
\* container is null.
RECURSIVE FlattenAt(_, _)
FlattenAt(text, v) ==
  LET ks == Keys(v)
      parts == IF v.t = "array" THEN [i \in DOMAIN v.a |-> FlattenAt(text \o <<Slash>> \o IndexText(i - 1), v.a[i])]
               ELSE [i \in DOMAIN ks |-> FlattenAt(text \o <<Slash>> \o Escape(ks[i]), v.o[ks[i]])]
  IN  IF v.t \notin {"array", "object"} THEN Member(<< >>, text, v)
      ELSE IF Size(v) = 0 THEN Member(<< >>, text, Null)
      ELSE Merged(parts)

Flatten(v) == Object(FlattenAt(<< >>, v))

\* unflatten: each value is put where its key points, in the order of the keys.
UnflattenFrom(v, n) ==
  LET ks == Keys(v)
      step[i \in 0 .. n] ==
        IF i = 0 THEN {Null}
        ELSE UNION {UNION {Create(r, p, v.o[ks[i]]) : p \in Split(ks[i])} : r \in step[i - 1]}
  IN  step[n]

Unflatten(v) ==
  IF v.t # "object" \/ \E k \in DOMAIN v.o : v.o[k].t \in {"array", "object"} THEN {}
  ELSE UnflattenFrom(v, Cardinality(DOMAIN v.o))

-----------------------------------------------------------------------------
(* patch_inplace and diff.                                                 *)

\* The member names and the operations of a patch.
ThePath  == <<112, 97, 116, 104>>
TheOp    == <<111, 112>>
TheValue == <<118, 97, 108, 117, 101>>
TheFrom  == <<102, 114, 111, 109>>
Operation ==
  [add |-> <<97, 100, 100>>, remove |-> <<114, 101, 109, 111, 118, 101>>,
   replace |-> <<114, 101, 112, 108, 97, 99, 101>>, move |-> <<109, 111, 118, 101>>,
   copy |-> <<99, 111, 112, 121>>, test |-> <<116, 101, 115, 116>>]

FrontOf(s) == SubSeq(s, 1, Len(s) - 1)
LastOf(s)  == s[Len(s)]

\* operation_add.  The first token must exist unless it is all there is; a
\* primitive parent ends the program in an assertion.
AddTo(parent, token, w) ==
  CASE parent.t \in {"null", "object"} ->
         {Object(Member(IF parent.t = "null" THEN << >> ELSE parent.o, token, w))}
    [] parent.t = "array" ->
         IF token = Dash THEN {Array(Append(parent.a, w))}
         ELSE {Array(InsertedAt(parent.a, n, w)) : n \in {n \in 0 .. Len(parent.a) : {Mag(n)} = ArrayIndex(token)}}
    [] OTHER -> {}

OperationAdd(v, p, w) ==
  IF p = << >> THEN {w}
  ELSE IF Len(p) > 1 /\ At(v, <<p[1]>>) = {} THEN {}
  ELSE UNION {{Assign(v, FrontOf(p), c) : c \in AddTo(parent, LastOf(p), w)} : parent \in At(v, FrontOf(p))}

\* operation_remove: from a primitive parent nothing is removed.
RemoveFrom(parent, token) ==
  CASE parent.t = "object" -> IF token \in DOMAIN parent.o THEN {Object(WithoutKey(parent.o, token))} ELSE {}
    [] parent.t = "array"  -> {Array(WithoutIndex(parent.a, n + 1)) : n \in IndexIn(parent.a, token)}
    [] OTHER               -> {parent}

OperationRemove(v, p) ==
  IF p = << >> THEN {}
  ELSE UNION {{Assign(v, FrontOf(p), c) : c \in RemoveFrom(parent, LastOf(p))} : parent \in At(v, FrontOf(p))}

\* get_value: a member there must be, a string where one is asked for; and
\* a pointer read from one.
Text(step, name)    == {w.s : w \in {w \in AtKey(step, name) : w.t = "string"}}
Pointer(step, name) == UNION {Split(s) : s \in Text(step, name)}

Apply(v, op, p, step) ==
  CASE op = Operation.add     -> UNION {OperationAdd(v, p, w) : w \in AtKey(step, TheValue)}
    [] op = Operation.remove  -> OperationRemove(v, p)
    [] op = Operation.replace -> {Assign(v, p, w) : w \in IF At(v, p) = {} THEN {} ELSE AtKey(step, TheValue)}
    [] op = Operation.move    -> UNION {UNION {UNION {OperationAdd(u, p, w) : u \in OperationRemove(v, from)}
                                                 : w \in At(v, from)} : from \in Pointer(step, TheFrom)}
    [] op = Operation.copy    -> UNION {UNION {OperationAdd(v, p, w) : w \in At(v, from)} : from \in Pointer(step, TheFrom)}
    [] op = Operation.test    -> {v : w \in {w \in At(v, p) : \E u \in AtKey(step, TheValue) : Equal(w, u)}}
    [] OTHER                  -> {}

PatchStep(v, step) ==
  UNION {UNION {Apply(v, op, p, step) : p \in Pointer(step, ThePath)} : op \in Text(step, TheOp)}

\* The steps in order; one that throws leaves what the ones before it did:
\* the value then, and whether all was done.
AfterStep(before, r) ==
  IF ~before.ok \/ r = {} THEN [before EXCEPT !.ok = FALSE] ELSE [v |-> CHOOSE u \in r : TRUE, ok |-> TRUE]

PatchInplace(v, patch) ==
  LET after[i \in 0 .. Size(patch)] ==
        IF i = 0 THEN [v |-> v, ok |-> patch.t = "array"]
        ELSE AfterStep(after[i - 1], PatchStep(after[i - 1].v, patch.a[i]))
  IN  after[IF patch.t = "array" THEN Len(patch.a) ELSE 0]

\* patch: on a copy, so a failure leaves nothing.
Patch(v, patch) == {r.v : r \in {r \in {PatchInplace(v, patch)} : r.ok}}

\* diff: the steps from source to target; path is the text of the pointer to both.
StepFor(op, path)        == Object(TheOp :> String(op) @@ ThePath :> String(path))
StepWith(op, path, value) == Object(StepFor(op, path).o @@ TheValue :> value)
Below(path, token)       == path \o <<Slash>> \o token

\* Wrong variant: the elements are removed from the first on, which moves the rest.
RemoveTailUpwards(first, last, path) ==
  [i \in 1 .. last - first |-> StepFor(Operation.remove, Below(path, IndexText(first + i - 1)))]

RemoveTail(first, last, path) ==
  [i \in 1 .. last - first |-> StepFor(Operation.remove, Below(path, IndexText(last - i)))]

RECURSIVE Diff(_, _, _)
DiffArrays(a, b, path) ==
  LET common  == IF Len(a) < Len(b) THEN Len(a) ELSE Len(b)
      changed == [i \in 1 .. common |-> Diff(a[i], b[i], Below(path, IndexText(i - 1)))]
      removed == RemoveTail(common, Len(a), path)
      added   == [i \in 1 .. Len(b) - common |-> StepWith(Operation.add, Below(path, Dash), b[common + i])]
  IN  Flattened(changed) \o removed \o added

DiffObjects(v, w, path) ==
  LET ks   == Keys(v)
      new  == SelectSeq(Keys(w), LAMBDA k : k \notin DOMAIN v.o)
      to(k) == Below(path, Escape(k))
      old  == [i \in DOMAIN ks |->
                 LET k == ks[i]
                 IN  IF k \in DOMAIN w.o THEN Diff(v.o[k], w.o[k], to(k)) ELSE <<StepFor(Operation.remove, to(k))>>]
  IN  Flattened(old) \o [i \in DOMAIN new |-> StepWith(Operation.add, to(new[i]), w.o[new[i]])]

Diff(v, w, path) ==
  IF Equal(v, w) THEN << >>
  ELSE IF v.t = "array" /\ w.t = "array" THEN DiffArrays(v.a, w.a, path)
  ELSE IF v.t = "object" /\ w.t = "object" THEN DiffObjects(v, w, path)
  ELSE <<StepWith(Operation.replace, path, w)>>

PatchTo(v, w) == Array(Diff(v, w, << >>))

\* merge_patch: a null member removes, another one merges.
RECURSIVE MergePatch(_, _)
MergePatch(v, p) ==
  LET o == IF v.t = "object" THEN v.o ELSE << >>
      kept == (DOMAIN o \cup DOMAIN p.o) \ {k \in DOMAIN p.o : p.o[k] = Null}
  IN  IF p.t # "object" THEN p
      ELSE Object([k \in kept |-> IF k \in DOMAIN p.o THEN MergePatch(IF k \in DOMAIN o THEN o[k] ELSE Null, p.o[k]) ELSE o[k]])

-----------------------------------------------------------------------------
(***************************************************************************)
(* The document.                                                           *)
(***************************************************************************)

CONSTANTS
  Items,      \* the values the operations bring in
  Names,      \* the keys
  Others,     \* values to compare doc with
  MaxSize,    \* bound: the elements or members of doc
  MaxValues   \* bound: the values in doc, itself and nested ones

VARIABLE doc

Positions(v) == 0 .. Size(v)
Lists        == {<<v, w>> : v \in {String(k) : k \in Names} \cup {Null}, w \in Items}

Becomes(results) ==
  \E v \in results : Size(v) <= MaxSize /\ Destroyed(v) <= MaxValues /\ doc' = v

-----------------------------------------------------------------------------
AddValue    == \E w \in Items : Becomes(PushBack(doc, w))
AddList     == \E a \in Lists : Becomes(PushList(doc, a))
AddMember   == \E k \in Names, w \in Items : Becomes(PushMember(doc, k, w))
SetIndex    == \E n \in 0 .. MaxSize - 1, w \in Items : Becomes(IndexAssign(doc, n, w))
SetKey      == \E k \in Names, w \in Items : Becomes(KeyAssign(doc, k, w))
SetAt       == \E j, k \in Names : Becomes(PutUnchecked(doc, <<j, k>>, Null))
Insert      == \E n \in Positions(doc), w \in Items : Becomes(InsertItems(doc, n, <<w, Null>>))
InsertAll   == \E w \in Items : Becomes(InsertMembers(doc, w))
EraseAt     == \E first, last \in Positions(doc) : first <= last /\ Becomes(EraseRange(doc, first, last))
EraseByKey  == \E k \in Names : Becomes(EraseKey(doc, k))
EraseByIndex == \E n \in Positions(doc) : Becomes(EraseIndex(doc, n))
ClearAll    == Becomes({Clear(doc)})
Update      == \E w \in Items, merge \in BOOLEAN : Becomes({Updated(doc, w, merge).v})
Merge       == \E w \in Items : Becomes({MergePatch(doc, w)})
Construct   == \E a \in Lists : Becomes(FromList(a, TRUE, "array") \cup FromList(<<Array(a)>>, FALSE, "object"))
PatchMove   == \E j, k \in Names :
                 Becomes({PatchInplace(doc, Array(<<StepFor(Operation.remove, Below(<< >>, Escape(j))),
                                                    StepWith(Operation.add, Below(<< >>, Escape(k)), Null)>>)).v})

Modify ==
  \/ AddValue \/ AddList \/ AddMember \/ SetIndex \/ SetKey \/ SetAt \/ Insert \/ InsertAll
  \/ EraseAt \/ EraseByKey \/ EraseByIndex \/ ClearAll \/ Update \/ Merge \/ Construct \/ PatchMove

-----------------------------------------------------------------------------
(* Properties.                                                             *)

\* The patch from a value to another one turns the first into the second,
\* through the texts of the pointers in it: diff, then patch.
Patches(v, w) == \E u \in Patch(v, PatchTo(v, w)) : Equal(u, w)

PatchOfDiff == [][Patches(doc, doc') /\ Patches(doc', doc)]_doc

\* What flatten forgets: an empty container is null afterwards, and an
\* object is taken for an array when unflatten meets its key 0 first.
RECURSIVE Hollow(_), LooksLikeArray(_)
Hollow(v) ==
  IF Empty(v) THEN Null
  ELSE IF v.t = "array" THEN Array([i \in DOMAIN v.a |-> Hollow(v.a[i])])
  ELSE IF v.t = "object" THEN Object([k \in DOMAIN v.o |-> Hollow(v.o[k])])
  ELSE v
LooksLikeArray(v) ==
  \/ v.t = "object" /\ ~Empty(v) /\ \A p \in Split(Keys(Flatten(v))[1]) : p[1] = <<Zero>>
  \/ \E i \in DOMAIN Children(v) : LooksLikeArray(Children(v)[i])

\* unflatten puts back what flatten took apart, and every key of flatten is
\* a pointer that leads to the value beside it.
FlattenRestores ==
  LET flat == Flatten(doc)
  IN  /\ \A k \in DOMAIN flat.o : \E p \in Split(k) : \E v \in At(doc, p) : Hollow(v) = flat.o[k] /\ Contains(doc, p) = {TRUE}
      /\ LooksLikeArray(doc) \/ Unflatten(flat) = {Hollow(doc)}

\* Of two values one is less or they are equal, and less is transitive, as
\* the keys of a sorted container need it.  That takes values without NaN, and
\* numbers that compare the same way whatever their types: either integers
\* that a double holds exactly, up to 2^53, beside floats; or integers alone,
\* below 2^63, from where on an unsigned one compares to a signed one as
\* negative.  With larger integers beside floats there are cycles, as the
\* float ties with an integer's neighbour: [2^53 + 1, 0] is less than
\* [2^53 as a float, 1], that one less than [2^53, 2], and that one than the
\* first.  Less sees the bytes of a binary value alone and equal its subtype
\* too, so values that differ in nothing but subtypes are neither.
RECURSIVE Sortable(_, _), Bare(_)
Sortable(v, floats) ==
  /\ ~Unordered(v, v)
  /\ v.t = "float" => floats
  /\ v.t \in IntegerTypes => IF floats THEN AtMost(v.m, <<32>> \o Zeros(6))
                             ELSE v.t = "unsigned" => ~AsInteger(v).neg
  /\ \A i \in DOMAIN Children(v) : Sortable(Children(v)[i], floats)

Bare(v) ==
  CASE v.t = "binary" -> Binary(v.s, << >>)
    [] v.t = "array"  -> Array([i \in DOMAIN v.a |-> Bare(v.a[i])])
    [] v.t = "object" -> Object([k \in DOMAIN v.o |-> Bare(v.o[k])])
    [] OTHER          -> v

OnlySubtypesDiffer(v, w) == ~Equal(v, w) /\ Equal(Bare(v), Bare(w))

InOrder(v, others, below, above) ==
  /\ below \cap above = {}
  /\ {w \in others : Equal(w, v) \/ OnlySubtypesDiffer(w, v)} = others \ (below \cup above)
  /\ \A u \in below, w \in above : ValueLess(u, w)

TotallyOrdered(v) ==
  \A floats \in BOOLEAN :
    Sortable(v, floats) =>
      LET others == {w \in Others : Sortable(w, floats)}
      IN  InOrder(v, others, {w \in others : ValueLess(w, v)}, {w \in others : ValueLess(v, w)})

=============================================================================
