----------------------------- MODULE MCPersonLoop -----------------------------
(***************************************************************************)
(* Small instances of PersonLoop: a person who steps in within the stop    *)
(* distance, one two strides before it, and one two strides before it who  *)
(* is less sure than a bottle and surer than two others.                   *)
(***************************************************************************)
EXTENDS PersonLoop

Seen(name, gap, center_x, sure) ==
  [name |-> name, gap |-> gap, center_x |-> center_x, sure |-> sure]

Views ==
  { << >>,
    <<Seen("person", 900, 640, TRUE)>>,
    <<Seen("person", 1030, 300, TRUE)>>,
    <<Seen("bottle", 1030, 640, TRUE), Seen("person", 1030, 640, TRUE),
      Seen("person", 1150, 640, TRUE), Seen("person", 1030, 300, FALSE)>> }

=============================================================================
