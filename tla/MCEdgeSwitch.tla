---------------------------- MODULE MCEdgeSwitch ----------------------------
(***************************************************************************)
(* A small desk for EdgeSwitch: the target, two pixels wide, stands to the *)
(* right of a controller's screen of three by two pixels.                  *)
(***************************************************************************)
EXTENDS EdgeSwitch

MCScreen == [x |-> 0, y |-> 0, w |-> 3, h |-> 2]

MCDeltas == {[x |-> -1, y |-> 0], [x |-> 1, y |-> 0]}

=============================================================================
