------------------------------ MODULE JsonText ------------------------------
(***************************************************************************)
(* Texts that grow by a fragment at a time, and what the JSON library      *)
(* reads in each: the lexer and the parser go from left to right and never *)
(* back, JsonGrammar says what a text means as a whole.                    *)
(***************************************************************************)
EXTENDS Integers, Sequences, FiniteSets

P == INSTANCE JsonParser
G == INSTANCE JsonGrammar

CONSTANTS
  Fragments,   \* kind of text -> the fragments it is made of
  MostUnits,   \* kind of text -> its length at most
  FreeUnits,   \* kind of text -> the length below which it grows although refused
  Refusals     \* the callbacks: sets of what they refuse, see JsonParser

VARIABLES
  kind,        \* "utf16" and "utf32" texts are made of code units
  text

textVars == <<kind, text>>

IsWide   == kind \in {"utf16", "utf32"}
Comments == kind = "comments"

\* What the lexer reads of the text.
Octets == CASE kind = "utf16" -> P!Utf8From16(text)
            [] kind = "utf32" -> P!Utf8From32(text)
            [] OTHER          -> text

\* Bound: an exponent has two characters, or it is one of the fragments at the
\* limits of a double, ends the text and comes after few characters.
BoundedExponent(x, f) ==
  /\ kind = "numbers" => \A i \in DOMAIN (x \o f) : (x \o f)[i] = 101 => Len(x \o f) - i <= 2
  /\ kind = "exponents" => (\A i \in DOMAIN x : x[i] # 101) /\ (Len(f) = 1 => Len(x) < 2)

Extend ==
  /\ Len(text) < FreeUnits[kind] \/ P!SaxParse(Octets, Comments, TRUE).read > Len(Octets)
  /\ \E f \in Fragments[kind] :
       /\ Len(text \o f) <= MostUnits[kind]
       /\ BoundedExponent(text, f)
       /\ text' = text \o f
  /\ UNCHANGED kind

-----------------------------------------------------------------------------
(* What the text means.                                                    *)

\* The characters of a wide text; {} when it is ill-formed.
RECURSIVE Characters16(_)
Characters16(units) ==
  LET high == units[1] \in 55296 .. 56319
      low  == Len(units) > 1 /\ units[2] \in 56320 .. 57343
      then(c, n) == {<<c>> \o r : r \in Characters16(SubSeq(units, n + 1, Len(units)))}
  IN  IF units = << >> THEN {<< >>}
      ELSE IF high /\ low THEN then(65536 + (units[1] - 55296) * 1024 + (units[2] - 56320), 2)
      ELSE IF G!IsScalar(units[1]) THEN then(units[1], 1) ELSE {}

Characters == IF kind = "utf16" THEN Characters16(text)
              ELSE IF \A i \in DOMAIN text : G!IsScalar(text[i]) THEN {text} ELSE {}

RECURSIVE Encoded(_)
Encoded(characters) ==
  IF characters = << >> THEN << >>
  ELSE G!Encode(characters[1], G!LengthOf(characters[1])) \o Encoded(Tail(characters))

\* The lexer takes a byte 0 as the end of its input, as it is "needed when
\* parsing from string literals", and no string has one: what follows it is
\* not read.
UpToNul(x) ==
  IF G!Places(x, 0) = {} THEN x
  ELSE G!Before(x, CHOOSE i \in G!Places(x, 0) : \A j \in G!Places(x, 0) : i <= j)

\* The texts to give to the grammar: a comment stands for a space, a byte
\* order mark for nothing.
Readings ==
  IF IsWide THEN {UpToNul(Encoded(c)) : c \in Characters}
  ELSE IF Comments THEN G!Uncommented(text)
  ELSE {UpToNul(IF Len(text) >= 3 /\ SubSeq(text, 1, 3) = <<239, 187, 191>> THEN G!After(text, 3) ELSE text)}

Trees == UNION {G!Trees(r) : r \in Readings}

WellFormed == IsWide => Characters # {}

-----------------------------------------------------------------------------
(* Properties.                                                             *)

\* A text is accepted if and only if it is one of the grammar (RFC 8259,
\* and comments where they are ignored) up to the byte 0 where the lexer ends
\* it, and it is read as what it means: to the last digit of a double, the
\* last duplicate of a key, whatever the encoding it came in.  A number beyond
\* the largest double is refused.
ParsesByGrammar ==
  WellFormed =>
    \A trees \in {Trees}, s \in {P!SaxParse(Octets, Comments, TRUE)} :
      /\ s.ok <=> trees # {}
      /\ \A tree \in trees : P!DomResult(s) = G!ValueOfTree(tree)

\* What a callback leaves of a tree at a depth: nothing, or a value.
RECURSIVE Filtered(_, _, _), FilteredItems(_, _, _, _), Swept(_)
FilteredItems(children, depth, cb, n) ==
  IF n = 0 THEN << >>
  ELSE FilteredItems(children, depth, cb, n - 1)
       \o LET kept == Filtered(children[n], depth, cb) IN IF kept = {} THEN << >> ELSE <<CHOOSE v \in kept : TRUE>>

Filtered(tree, depth, cb) ==
  LET c       == tree.children
      refused == {<<"start_" \o tree.kind, depth>>, <<"end_" \o tree.kind, depth>>} \cap cb # {}
      last(k) == CHOOSE i \in DOMAIN c : c[i][1] = k /\ \A j \in DOMAIN c : c[j][1] = k => j <= i
      keys    == {k \in {c[i][1] : i \in DOMAIN c} : Filtered(c[last(k)][2], depth + 1, cb) # {}}
  IN  IF tree.kind = "leaf" THEN IF P!KeepsScalar(cb, depth, tree.value) THEN {tree.value} ELSE {}
      ELSE IF refused THEN {}
      ELSE IF tree.kind = "array" THEN {P!Array(FilteredItems(c, depth + 1, cb, Len(c)))}
      ELSE IF <<"key", depth + 1>> \in cb THEN {P!EmptyObject}
      ELSE {P!Object([k \in keys |-> CHOOSE v \in Filtered(c[last(k)][2], depth + 1, cb) : TRUE])}

\* A value without the discarded members that the parser leaves in objects.
Swept(v) ==
  IF v.t = "array" THEN P!Array([i \in DOMAIN v.a |-> Swept(v.a[i])])
  ELSE IF v.t = "object" THEN P!Object([k \in {k \in DOMAIN v.o : v.o[k] # P!Discarded} |-> Swept(v.o[k])])
  ELSE v

\* Parsing with a callback leaves of the text what the callback kept, in
\* whatever order the containers end; only a refused scalar or array may
\* leave a discarded member in an object.
FilteredAs(s, tree, cb) ==
  LET r    == P!CallbackResult(s, cb)
      kept == Filtered(tree, 0, cb)
  IN  /\ kept = {} => r = P!Null
      /\ \A v \in kept :
           /\ Swept(r) = v
           /\ r = v \/ \E e \in cb : e[1] \in {"value", "start_array", "end_array"}

CallbackFilters ==
  \A tree \in Trees : \A s \in {P!SaxParse(Octets, Comments, TRUE)}, cb \in Refusals : FilteredAs(s, tree, cb)

=============================================================================
