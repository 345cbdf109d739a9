------------------------------ MODULE EdgeMath ------------------------------
(***************************************************************************)
(* The pure geometry of edge switching: cmd/controller/edge_math.go, the   *)
(* edge test of the Windows hook (capture_windows.go) and Edge.Opposite of *)
(* internal/protocol.  A screen is w pixels wide and h pixels high; a      *)
(* point is a record of its pixel coordinates.                             *)
(*                                                                         *)
(* A relPos, the float64 in [0, 1] that says how far along an edge a       *)
(* cursor is, is the exact fraction it was computed from: [n, d] is n / d. *)
(* What float64 rounding can do to it is kept where it can change an       *)
(* integer: see Offsets.                                                   *)
(***************************************************************************)
EXTENDS Integers

Edges == {"left", "right", "top", "bottom"}

Points == [x : Int, y : Int]

\* A fraction in [0, 1].
RelPos == {r \in [n : Nat, d : Nat \ {0}] : r.n <= r.d}

\* A rectangle of the desktop (screen.Bounds), at least two pixels each way:
\* one for the edge and one to land on beside it.
Bounds == [x : Int, y : Int, w : Nat \ {0, 1}, h : Nat \ {0, 1}]

Opposite(edge) ==
  CASE edge = "left"   -> "right"
    [] edge = "right"  -> "left"
    [] edge = "top"    -> "bottom"
    [] edge = "bottom" -> "top"

clampI(v, lo, hi) == IF v < lo THEN lo ELSE IF v > hi THEN hi ELSE v

\* clamp01 of the quotient v / len, as a fraction.
Fraction(v, len) == [n |-> clampI(v, 0, len), d |-> len]

\* What int32(relPos * float64(len)) can be: the exact product truncated or,
\* when the product is the integer k, also k - 1 (49 * (1.0 / 49) is just
\* below 1).  A relPos of exactly 0 or 1 is multiplied without error.
Offsets(rel, len) ==
  {k \in 0..len : /\ k * rel.d <= rel.n * len
                  /\ rel.n * len <= (k + 1) * rel.d
                  /\ rel.n = rel.d => k = len}

\* The length of the axis an edge runs along.
Along(edge, w, h) == IF edge \in {"left", "right"} THEN h ELSE w

\* A screen's point at offset k along edge and depth pixels in from it.
PointAt(edge, k, depth, w, h) ==
  CASE edge = "left"   -> [x |-> depth, y |-> k]
    [] edge = "right"  -> [x |-> w - 1 - depth, y |-> k]
    [] edge = "top"    -> [x |-> k, y |-> depth]
    [] edge = "bottom" -> [x |-> k, y |-> h - 1 - depth]

\* Where a cursor that crosses into entryEdge starts on the target.
entryPosition(entryEdge, rel, w, h) ==
  {PointAt(entryEdge, k, 0, w, h) : k \in Offsets(rel, Along(entryEdge, w, h))}

\* p has been pushed out of the screen through edge.
pushesPast(edge, p, w, h) ==
  \/ edge = "left"   /\ p.x < 0
  \/ edge = "right"  /\ p.x > w - 1
  \/ edge = "top"    /\ p.y < 0
  \/ edge = "bottom" /\ p.y > h - 1

\* p, already clamped onto the screen, is strictly off edge.
hasMovedAway(edge, p, w, h) ==
  \/ edge = "left"   /\ p.x > 0
  \/ edge = "right"  /\ p.x < w - 1
  \/ edge = "top"    /\ p.y > 0
  \/ edge = "bottom" /\ p.y < h - 1

\* Mutant of releaseRelPos: the axes are swapped.
releaseRelPosSwapped(edge, p, w, h) ==
  Fraction(IF edge \in {"left", "right"} THEN p.x ELSE p.y, Along(edge, h, w))

\* How far along edge the release point p is.
releaseRelPos(edge, p, w, h) ==
  Fraction(IF edge \in {"left", "right"} THEN p.y ELSE p.x, Along(edge, w, h))

\* p moved by the delta m, and p brought back onto the screen.
Moved(p, m) == [x |-> p.x + m.x, y |-> p.y + m.y]

Clamped(p, w, h) == [x |-> clampI(p.x, 0, w - 1), y |-> clampI(p.y, 0, h - 1)]

\* Mutant of controllerWarpPosition: on the edge instead of beside it.
controllerWarpPositionOnEdge(edge, rel, b) ==
  {Moved([x |-> b.x, y |-> b.y], PointAt(edge, k, 0, b.w, b.h)) :
     k \in Offsets(rel, Along(edge, b.w, b.h))}

\* Where the controller's own cursor lands when control returns to it: one
\* pixel in from the edge that triggered the crossing.
controllerWarpPosition(edge, rel, b) ==
  {Moved([x |-> b.x, y |-> b.y], PointAt(edge, k, 1, b.w, b.h)) :
     k \in Offsets(rel, Along(edge, b.w, b.h))}

\* The hook's test: pt, not yet clamped by the system, has reached edge of b.
edgeCrossed(edge, b, pt) ==
  \/ edge = "left"   /\ pt.x <= b.x
  \/ edge = "right"  /\ pt.x >= b.x + b.w - 1
  \/ edge = "top"    /\ pt.y <= b.y
  \/ edge = "bottom" /\ pt.y >= b.y + b.h - 1

\* How far along edge of b the hook says pt crossed it.
crossRelPos(edge, b, pt) ==
  Fraction(IF edge \in {"left", "right"} THEN pt.y - b.y ELSE pt.x - b.x,
           Along(edge, b.w, b.h))

OnScreen(p, w, h) == p.x \in 0..w-1 /\ p.y \in 0..h-1

Within(b, p) == p.x \in b.x..b.x+b.w-1 /\ p.y \in b.y..b.y+b.h-1

\* The target's cursor as the controller simulates it: where it is, and
\* whether it has been off the entry edge since it came in.
Sims == [pos : Points, away : BOOLEAN]

\* The delta m pushes the simulated cursor back out of its entry edge.
Releases(entryEdge, sim, m, w, h) ==
  sim.away /\ pushesPast(entryEdge, Moved(sim.pos, m), w, h)

\* Mutants of Steered: the latch is lost when the cursor is back at the edge ...
SteeredForgetful(entryEdge, sim, m, w, h) ==
  LET out == pushesPast(entryEdge, Moved(sim.pos, m), w, h)
      pos == Clamped(Moved(sim.pos, m), w, h)
  IN  [pos |-> pos, away |-> ~out /\ hasMovedAway(entryEdge, pos, w, h)]

\* ... or the new position is not clamped.
SteeredUnclamped(entryEdge, sim, m, w, h) ==
  [pos  |-> Moved(sim.pos, m),
   away |-> sim.away \/ hasMovedAway(entryEdge, Moved(sim.pos, m), w, h)]

\* The simulated cursor after any other delta m.
Steered(entryEdge, sim, m, w, h) ==
  LET out == pushesPast(entryEdge, Moved(sim.pos, m), w, h)
      pos == Clamped(Moved(sim.pos, m), w, h)
  IN  [pos  |-> pos,
       away |-> sim.away \/ (~out /\ hasMovedAway(entryEdge, pos, w, h))]

\* Where the controller's cursor may land when the delta m releases sim.
ReleaseWarps(edge, sim, m, w, h, b) ==
  LET pos == Clamped(Moved(sim.pos, m), w, h)
  IN  controllerWarpPosition(edge, releaseRelPos(Opposite(edge), pos, w, h), b)

=============================================================================
