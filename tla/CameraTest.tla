----------------------------- MODULE CameraTest -----------------------------
(***************************************************************************)
(* The node of src/camera_test.cpp: it receives the H.264 stream of the    *)
(* front camera cut into messages at any byte, has a parser put packets    *)
(* together, a decoder make frames of them, and shows what comes out.      *)
(*                                                                         *)
(* A byte of the stream is the number of the access unit it belongs to;    *)
(* every unit has UnitBytes of them.  Parser and decoder are external: the *)
(* parser knows the end of a unit by the start of the next, the decoder    *)
(* gives one frame per whole unit, in order, and of a damaged one perhaps. *)
(***************************************************************************)
EXTENDS Integers, Sequences, SequencesExt

CONSTANTS
  UnitBytes,    \* bound: bytes of a unit
  Streams       \* streams: the size of each unit's picture, 0 for an unusable one

VARIABLES
  sizes,        \* the stream that is sent
  decoder,      \* an H.264 decoder was found; without it the contexts are null
  position,     \* bytes of the stream sent so far
  data,         \* the rest of the message being worked on
  assembling,   \* the unit in the parser, and how much of it: [unit, bytes]
  packet,       \* packet_: a unit that is to be decoded, or Nothing
  scaler,       \* the size sws_context_ was made for, 0 before there is one
  shown,        \* units shown, in order
  lost,         \* history: bytes of the stream that got lost, by unit
  broken        \* "null": a null context was used; "misfit": a scaler too

vars == <<sizes, decoder, position, data, assembling, packet, scaler, shown, lost, broken>>

Units == DOMAIN sizes

Nothing == [unit |-> 0, bytes |-> 0]

Init ==
  /\ sizes \in Streams
  /\ decoder \in BOOLEAN
  /\ position = 0 /\ data = << >>
  /\ assembling = Nothing /\ packet = Nothing
  /\ scaler = 0 /\ shown = << >> /\ lost = {}
  /\ broken = "no"

UnitOf(p) == 1 + (p - 1) \div UnitBytes

Bytes(n) == [i \in 1 .. n |-> UnitOf(position + i)]

\* A message with the next n bytes of the stream.
VideoCallback(n) ==
  /\ data = << >> /\ packet = Nothing
  /\ position + n <= UnitBytes * Len(sizes)
  /\ position' = position + n
  /\ data' = Bytes(n)
  /\ UNCHANGED <<decoder, assembling, packet, scaler, shown, lost, broken>>

\* The topic drops a message.
Lose(n) ==
  /\ position + n <= UnitBytes * Len(sizes)
  /\ position' = position + n
  /\ lost' = lost \cup ToSet(Bytes(n))
  /\ UNCHANGED <<decoder, data, assembling, packet, scaler, shown, broken>>

-----------------------------------------------------------------------------
\* The first n bytes of data, and no more, belong to the same unit.
Leading(n) ==
  /\ \A i \in 1 .. n : data[i] = Head(data)
  /\ n < Len(data) => data[n + 1] # Head(data)

\* Wrong variant: the parser is called once per message.
ProgressOnce(n) == data' = SubSeq(data, n + 1, n)

\* data += parsed_bytes; data_size -= parsed_bytes.
Progress(n) == data' = SubSeq(data, n + 1, Len(data))

\* av_parser_parse2 completes the unit it holds without reading on ...
ParseEnd ==
  /\ data # << >> /\ packet = Nothing /\ decoder
  /\ assembling # Nothing /\ assembling.unit # Head(data)
  /\ packet' = assembling /\ assembling' = Nothing
  /\ UNCHANGED <<decoder, position, data, scaler, shown, lost, broken>>

\* ... or reads to the end of a unit or of the message.
ParseBytes ==
  /\ data # << >> /\ packet = Nothing /\ decoder
  /\ assembling = Nothing \/ assembling.unit = Head(data)
  /\ \E n \in DOMAIN data :
       LET unit == [unit |-> Head(data), bytes |-> assembling.bytes + n]
       IN  /\ Leading(n)
           /\ IF n < Len(data)
              THEN packet' = unit /\ assembling' = Nothing
              ELSE assembling' = unit /\ UNCHANGED packet
           /\ Progress(n)
  /\ UNCHANGED <<decoder, position, scaler, shown, lost, broken>>

\* A parser error: the rest of the message is given up.
ParseError ==
  /\ data # << >> /\ packet = Nothing /\ decoder
  /\ lost' = lost \cup ToSet(data)
  /\ data' = << >>
  /\ UNCHANGED <<decoder, position, assembling, packet, scaler, shown, broken>>

\* A node without a decoder subscribes all the same, and parses with null.
ParseNull ==
  /\ data # << >> /\ ~ decoder
  /\ broken' = "null" /\ data' = << >>
  /\ UNCHANGED <<decoder, position, assembling, packet, scaler, shown, lost>>

ScalerOf(size) == IF scaler = 0 THEN size ELSE scaler

\* Wrong variant: the size of a frame is not looked at before it is converted.
UsableAlways(size) == size >= 0

Usable(size) == size > 0

\* The decoder gives a frame, which is shown if it has a size.
ShowFrame ==
  /\ packet # Nothing
  /\ LET size == sizes[packet.unit]
     IN  IF Usable(size)
         THEN /\ scaler' = ScalerOf(size)
              /\ shown' = Append(shown, packet.unit)
              /\ broken' = IF scaler' = size THEN broken ELSE "misfit"
         ELSE UNCHANGED <<scaler, shown, broken>>
  /\ packet' = Nothing
  /\ UNCHANGED <<decoder, position, data, assembling, lost>>

\* A damaged unit may be refused by the decoder, or give no frame.
DropPacket ==
  /\ packet # Nothing /\ packet.bytes < UnitBytes
  /\ packet' = Nothing
  /\ UNCHANGED <<decoder, position, data, assembling, scaler, shown, lost, broken>>

Next ==
  /\ broken = "no" /\ UNCHANGED sizes
  /\ \/ \E n \in 1 .. UnitBytes * Len(sizes) : VideoCallback(n) \/ Lose(n)
     \/ ParseEnd \/ ParseBytes \/ ParseError \/ ParseNull
     \/ ShowFrame \/ DropPacket

Spec == Init /\ [][Next]_vars

-----------------------------------------------------------------------------
\* Between two messages every unit that got through, and whose successor has
\* begun, has been shown, once and in order, however the messages cut the stream.
ShowsEveryUnit ==
  /\ \A i, j \in DOMAIN shown : i < j => shown[i] < shown[j]
  /\ (data = << >> /\ packet = Nothing /\ broken = "no" /\ assembling # Nothing) =>
       \A u \in 1 .. assembling.unit - 1 :
         u \notin lost /\ sizes[u] > 0 => u \in ToSet(shown)

\* A node with a decoder only ever breaks when the size of the picture changes:
\* the scaler goes on with the size of the first frame.
BreaksOnNewSize ==
  decoder /\ broken # "no" =>
    \E u, w \in Units : sizes[u] > 0 /\ sizes[w] > 0 /\ sizes[u] # sizes[w]

=============================================================================
