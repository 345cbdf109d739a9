----------------------------- MODULE MCEdgeTrip -----------------------------
(***************************************************************************)
(* Small geometries for EdgeTrip: targets from a single pixel up, screens  *)
(* that are larger, smaller and off the origin, and motions that stay,     *)
(* slide along the edge, go in, come out and overshoot.                    *)
(***************************************************************************)
EXTENDS EdgeTrip

MCSizes == [w : {1, 2, 3}, h : {1, 2, 3}]

MCScreens ==
  {[x |-> o, y |-> -o, w |-> w, h |-> h] : o \in {0, 3}, w \in {2, 4}, h \in {2, 3, 5}}

MCDeltas == [x : {-2, 0, 1}, y : {-1, 0, 2}] \ {[x |-> 0, y |-> 0]}

=============================================================================
