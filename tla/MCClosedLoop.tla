---------------------------- MODULE MCClosedLoop ----------------------------
(***************************************************************************)
(* Small instances of ClosedLoop.                                          *)
(***************************************************************************)
EXTENDS ClosedLoop

\* Forward legs end by their timeout or an obstacle, turns by their yaw too.
BriefReadings ==
  { [pos |-> [x |-> 0, y |-> 0], yaw |-> angle, moving |-> moves] :
      angle \in {0, 5}, moves \in BOOLEAN }

\* A step ahead beyond the period that the dwell has to spare; one back and
\* one ahead together are within it.
BackAndAhead == {-1, 2}

=============================================================================
