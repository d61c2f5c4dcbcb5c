----------------------------- MODULE JsonParser -----------------------------
(***************************************************************************)
(* The parser of the JSON library (nlohmann/detail/input/parser.hpp) and   *)
(* the handlers of its events (nlohmann/detail/input/json_sax.hpp): the    *)
(* one that builds a value, the one that asks a callback what to keep, and *)
(* the one that only accepts.                                              *)
(*                                                                         *)
(* sax_parse_internal reports to a handler that never refuses, so it is    *)
(* modelled by the sequence of its events; a handler goes through them.    *)
(***************************************************************************)
EXTENDS JsonLexer, JsonValue

Event(e)     == [event |-> e]
KeyEvent(k)  == [event |-> "key", key |-> k]
ValueEvent(v) == [event |-> "value", value |-> v]

\* Where the parser stopped: after a value, or with an error at a byte.
Stopped(ok, read, events) == [ok |-> ok, read |-> read, events |-> events]

\* The value of a scalar token.
TokenValue(token) ==
  CASE token.type = "literal_null"   -> Null
    [] token.type = "literal_true"   -> Boolean(TRUE)
    [] token.type = "literal_false"  -> Boolean(FALSE)
    [] token.type = "value_string"   -> String(token.value)
    [] token.type = "value_unsigned" -> Unsigned(token.value)
    [] token.type = "value_integer"  -> Integer(token.value # << >>, token.value)
    [] token.type = "value_float"    -> Float(token.value)

ScalarTypes ==
  {"literal_null", "literal_true", "literal_false", "value_string", "value_unsigned",
   "value_integer", "value_float"}

-----------------------------------------------------------------------------
(* sax_parse_internal: tokens says what get_token finds after so many bytes, *)
(* states is its stack of open containers.                                 *)

\* get_token; ic is whether comments are ignored.
Tokens(x, ic) == [read \in 0 .. Len(x) + 1 |-> Scan(x, read, ic)]

RECURSIVE ParseValue(_, _, _, _), ParseMember(_, _, _, _), EvaluateState(_, _, _, _)

BeginsObject(tokens, read, states, events) ==
  LET next == tokens[read]
      more == Append(events, Event("start_object"))
  IN  IF next.type = "end_object" THEN EvaluateState(tokens, next.read, states, Append(more, Event("end_object")))
      ELSE ParseMember(tokens, next, Append(states, "object"), more)

BeginsArray(tokens, read, states, events) ==
  LET next == tokens[read]
      more == Append(events, Event("start_array"))
  IN  IF next.type = "end_array" THEN EvaluateState(tokens, next.read, states, Append(more, Event("end_array")))
      ELSE ParseValue(tokens, next, Append(states, "array"), more)

\* A float out of range is an error: JSON has no infinities.
ParseValue(tokens, token, states, events) ==
  IF token.type = "begin_object" THEN BeginsObject(tokens, token.read, states, events)
  ELSE IF token.type = "begin_array" THEN BeginsArray(tokens, token.read, states, events)
  ELSE IF token.type \notin ScalarTypes \/ (token.type = "value_float" /\ ~IsFinite(Binary64, token.value))
       THEN Stopped(FALSE, token.read, events)
  ELSE EvaluateState(tokens, token.read, states, Append(events, ValueEvent(TokenValue(token))))

\* A key, its colon and the first token of its value.
ParseMember(tokens, token, states, events) ==
  LET colon == tokens[token.read]
      more  == Append(events, KeyEvent(token.value))
  IN  IF token.type # "value_string" THEN Stopped(FALSE, token.read, events)
      ELSE IF colon.type # "name_separator" THEN Stopped(FALSE, colon.read, more)
      ELSE ParseValue(tokens, tokens[colon.read], states, more)

EvaluateState(tokens, read, states, events) ==
  LET token  == tokens[read]
      inside == states[Len(states)]
  IN  IF states = << >> THEN Stopped(TRUE, read, events)
      ELSE IF token.type = "value_separator"
           THEN IF inside = "array" THEN ParseValue(tokens, tokens[token.read], states, events)
                ELSE ParseMember(tokens, tokens[token.read], states, events)
      ELSE IF token.type = "end_" \o inside
           THEN EvaluateState(tokens, token.read, SubSeq(states, 1, Len(states) - 1), Append(events, Event(token.type)))
      ELSE Stopped(FALSE, token.read, events)

SaxParseInternal(tokens) == ParseValue(tokens, tokens[0], << >>, << >>)

\* sax_parse: in strict mode nothing may follow the value.
AtEnd(s, last) == Stopped(last.type = "end_of_input", last.read, s.events)

Strictly(tokens, s, strict) == IF s.ok /\ strict THEN AtEnd(s, tokens[s.read]) ELSE s

SaxParseTokens(tokens, strict) == Strictly(tokens, SaxParseInternal(tokens), strict)
SaxParse(x, ic, strict)        == SaxParseTokens(Tokens(x, ic), strict)

Accept(x, ic, strict) == SaxParse(x, ic, strict).ok

-----------------------------------------------------------------------------
(* json_sax_dom_parser.  A pointer into the value being built is the path  *)
(* from its root, in a sequence: << >> is the null pointer.                *)

DomStart == [root |-> Null, refs |-> << >>, element |-> << >>]

Back(s) == s[Len(s)]
Pop(s)  == SubSeq(s, 1, Len(s) - 1)

\* handle_value: the new root, a new array element, or the pending member.
DomTarget(d) ==
  IF d.refs = << >> THEN << >>
  ELSE LET c == ValueAt(d.root, Back(d.refs))
       IN  IF c.t = "array" THEN Append(Back(d.refs), Len(c.a)) ELSE d.element

DomHandleValue(d, v) == [d EXCEPT !.root = PutAt(@, DomTarget(d), v)]

DomStartContainer(d, v) == [DomHandleValue(d, v) EXCEPT !.refs = Append(@, DomTarget(d))]

\* key: a null at the key unless it is there already.
DomKey(d, k) ==
  LET object == ValueAt(d.root, Back(d.refs))
  IN  [d EXCEPT !.element = Append(Back(d.refs), k),
                !.root    = IF k \in DOMAIN object.o THEN @ ELSE PutAt(@, Append(Back(d.refs), k), Null)]

DomStep(d, e) ==
  CASE e.event = "value"        -> DomHandleValue(d, e.value)
    [] e.event = "start_object" -> DomStartContainer(d, EmptyObject)
    [] e.event = "start_array"  -> DomStartContainer(d, EmptyArray)
    [] e.event = "key"          -> DomKey(d, e.key)
    [] OTHER                    -> [d EXCEPT !.refs = Pop(@)]

RECURSIVE DomRun(_, _)
DomRun(d, events) == IF events = << >> THEN d ELSE DomRun(DomStep(d, Head(events)), Tail(events))

-----------------------------------------------------------------------------
(* json_sax_dom_callback_parser.  cb is the set of what the callback       *)
(* refuses: <<event, depth>>, or <<"value", depth, v>> for a scalar v.     *)

CallbackStart == [root |-> Null, refs |-> << >>, keep |-> <<TRUE>>, keyKeep |-> << >>, element |-> << >>]

Keeps(cb, depth, event) == <<event, depth>> \notin cb

KeepsScalar(cb, depth, v) == Keeps(cb, depth, "value") /\ <<"value", depth, v>> \notin cb

\* handle_value with the verdict of the callback on this value: the new
\* state, and the pointer to the value (<< >> when it is not kept).
CallbackHandleValue(d, v, accepted) ==
  LET parent == Back(d.refs)
      c      == ValueAt(d.root, parent[1])
      popped == [d EXCEPT !.keyKeep = Pop(@)]
      put(e, path) == [state |-> [e EXCEPT !.root = PutAt(@, path, v)], pointer |-> <<path>>]
  IN  IF ~Back(d.keep) \/ ~accepted THEN [state |-> d, pointer |-> << >>]
      ELSE IF d.refs = << >> THEN put(d, << >>)
      ELSE IF parent = << >> THEN [state |-> d, pointer |-> << >>]
      ELSE IF c.t = "array" THEN put(d, Append(parent[1], Len(c.a)))
      ELSE IF Back(d.keyKeep) THEN put(popped, d.element)
      ELSE [state |-> popped, pointer |-> << >>]

CallbackStartContainer(d, cb, event, v) ==
  LET kept == [d EXCEPT !.keep = Append(@, Keeps(cb, Len(d.refs), event))]
      h    == CallbackHandleValue(kept, v, TRUE)
  IN  [h.state EXCEPT !.refs = Append(@, h.pointer)]

\* key: a kept key gets a discarded value until its own arrives.
CallbackKey(d, cb, k) ==
  LET keep == Keeps(cb, Len(d.refs), "key")
      path == Append(Back(d.refs)[1], k)
  IN  IF keep /\ Back(d.refs) # << >>
      THEN [d EXCEPT !.keyKeep = Append(@, keep), !.root = PutAt(@, path, Discarded), !.element = path]
      ELSE [d EXCEPT !.keyKeep = Append(@, keep)]

\* The container that ends is discarded when the callback refuses it.
CallbackEndContainer(d, cb, event) ==
  LET refused == Back(d.refs) # << >> /\ ~Keeps(cb, Len(d.refs) - 1, event)
  IN  [d EXCEPT !.root = IF refused THEN PutAt(@, Back(d.refs)[1], Discarded) ELSE @,
                !.refs = Pop(@), !.keep = Pop(@)]

\* end_object removes the first discarded child of the parent, end_array
\* only the array it has just discarded, and only from an array.
CallbackEndObject(d, cb) ==
  LET e == CallbackEndContainer(d, cb, "end_object")
  IN  IF e.refs = << >> \/ Back(e.refs) = << >> THEN e
      ELSE [e EXCEPT !.root = PutAt(@, Back(e.refs)[1], WithoutFirstDiscarded(ValueAt(@, Back(e.refs)[1])))]

\* Wrong variant: the discarded array stays in the array around it.
CallbackEndArrayKept(d, cb) == CallbackEndContainer(d, cb, "end_array")

CallbackEndArray(d, cb) ==
  LET e == CallbackEndContainer(d, cb, "end_array")
      refused == Back(d.refs) # << >> /\ ~Keeps(cb, Len(d.refs) - 1, "end_array")
      parent  == ValueAt(e.root, Back(e.refs)[1])
  IN  IF ~refused \/ e.refs = << >> \/ parent.t # "array" THEN e
      ELSE [e EXCEPT !.root = PutAt(@, Back(e.refs)[1], Array(Pop(parent.a)))]

CallbackStep(d, cb, e) ==
  CASE e.event = "value"        -> CallbackHandleValue(d, e.value, KeepsScalar(cb, Len(d.refs), e.value)).state
    [] e.event = "start_object" -> CallbackStartContainer(d, cb, e.event, EmptyObject)
    [] e.event = "start_array"  -> CallbackStartContainer(d, cb, e.event, EmptyArray)
    [] e.event = "key"          -> CallbackKey(d, cb, e.key)
    [] e.event = "end_object"   -> CallbackEndObject(d, cb)
    [] e.event = "end_array"    -> CallbackEndArray(d, cb)

RECURSIVE CallbackRun(_, _, _)
CallbackRun(d, cb, events) ==
  IF events = << >> THEN d ELSE CallbackRun(CallbackStep(d, cb, Head(events)), cb, Tail(events))

-----------------------------------------------------------------------------
(* parse: a text that is refused yields a discarded value (or throws); a   *)
(* root that the callback discards becomes null.                           *)

DomResult(s) == IF s.ok THEN DomRun(DomStart, s.events).root ELSE Discarded

Parse(x, ic) == DomResult(SaxParse(x, ic, TRUE))

Rooted(s, root) == IF ~s.ok THEN Discarded ELSE IF root = Discarded THEN Null ELSE root

CallbackResult(s, cb) == Rooted(s, CallbackRun(CallbackStart, cb, s.events).root)

ParseWithCallback(x, ic, cb) == CallbackResult(SaxParse(x, ic, TRUE), cb)

=============================================================================
