------------------------------ MODULE EdgeTrip ------------------------------
(***************************************************************************)
(* One round trip over the edge, for every edge and many screen sizes: the *)
(* controller's cursor crosses, the simulated target cursor is steered     *)
(* about, and a push back through the entry edge warps the controller's    *)
(* cursor home.  This is the handling of EdgeCrossedEvent and              *)
(* MouseMoveEvent in runEdgeAware (cmd/controller/edge_windows.go) with    *)
(* nothing running beside it; EdgeSwitch adds the hook thread and the      *)
(* event channel between them.                                             *)
(***************************************************************************)
EXTENDS EdgeMath

CONSTANTS
  Sizes,    \* the target sizes [w, h] a MsgScreenInfo may report
  Screens,  \* the controller's screen bounds
  Deltas    \* the relative motions one mouse event carries

ASSUME SizesAssumption == Sizes \subseteq [w : Nat \ {0}, h : Nat \ {0}]
ASSUME ScreensAssumption == Screens \subseteq Bounds
ASSUME DeltasAssumption == Deltas \subseteq Points

VARIABLES
  edge,    \* the controller's -edge flag
  size,    \* targetW and targetH
  bounds,  \* controllerBounds
  phase,   \* "local", "remote" or "back"
  rel,     \* the relPos the hook reported
  sim,     \* vx, vy and movedAway
  cursor,  \* where the controller's cursor lands on release
  cross,   \* history: where the hook saw the cursor cross,
  entry,   \*          where the target's cursor came in
  exit,    \*          and where it went out,
  strayed  \*          and whether it has been off its entry edge

history == <<cross, entry, exit, strayed>>

vars == <<edge, size, bounds, phase, rel, sim, cursor, history>>

setup == <<edge, size, bounds>>

\* Points the hook can report: the system hands it the cursor before it is
\* brought back onto the desktop: they reach beyond the bounds.  Two pixels on
\* each side stand for any number of them, for relPos is clamped.
HookPoints(b) == [x : b.x-2..b.x+b.w+1, y : b.y-2..b.y+b.h+1]

Origin == [x |-> 0, y |-> 0]

TypeOK ==
  /\ edge \in Edges
  /\ size \in Sizes
  /\ bounds \in Screens
  /\ phase \in {"local", "remote", "back"}
  /\ rel \in RelPos
  /\ sim \in Sims
  /\ {cursor, cross, entry, exit} \subseteq Points
  /\ strayed \in BOOLEAN

Init ==
  /\ edge \in Edges
  /\ size \in Sizes
  /\ bounds \in Screens
  /\ phase = "local"
  /\ rel = [n |-> 0, d |-> 1]
  /\ sim = [pos |-> Origin, away |-> FALSE]
  /\ cursor = Origin
  /\ cross = Origin
  /\ entry = Origin
  /\ exit = Origin
  /\ strayed = FALSE

----------------------------------------------------------------------------
\* A place of the target's cursor that is not on the edge where it came in.
OffEntryEdge(p) ==
  CASE edge = "left"   -> p.x # size.w - 1
    [] edge = "right"  -> p.x # 0
    [] edge = "top"    -> p.y # size.h - 1
    [] edge = "bottom" -> p.y # 0

\* EdgeCrossedEvent: the target's cursor starts on its entry edge.  Where the
\* last trip ended no longer matters and is forgotten.
Cross ==
  /\ phase = "local"
  /\ \E pt \in HookPoints(bounds) :
       /\ edgeCrossed(edge, bounds, pt)
       /\ cross' = pt
       /\ rel' = crossRelPos(edge, bounds, pt)
  /\ \E p \in entryPosition(Opposite(edge), rel', size.w, size.h) :
       /\ entry' = p
       /\ sim' = [pos |-> p, away |-> FALSE]
  /\ phase' = "remote"
  /\ cursor' = Origin
  /\ exit' = Origin
  /\ strayed' = OffEntryEdge(sim'.pos)
  /\ UNCHANGED setup

\* MouseMoveEvent that keeps the target in control.
Steer ==
  /\ phase = "remote"
  /\ \E m \in Deltas :
       /\ ~Releases(Opposite(edge), sim, m, size.w, size.h)
       /\ sim' = Steered(Opposite(edge), sim, m, size.w, size.h)
  /\ strayed' = (strayed \/ OffEntryEdge(sim'.pos))
  /\ UNCHANGED <<setup, phase, rel, cursor, cross, entry, exit>>

\* MouseMoveEvent that pushes back through the entry edge.
Release ==
  /\ phase = "remote"
  /\ \E m \in Deltas :
       /\ Releases(Opposite(edge), sim, m, size.w, size.h)
       /\ cursor' \in ReleaseWarps(edge, sim, m, size.w, size.h, bounds)
       /\ exit' = Clamped(Moved(sim.pos, m), size.w, size.h)
  /\ phase' = "back"
  /\ UNCHANGED <<setup, rel, sim, cross, entry, strayed>>

\* The next crossing starts from anywhere on the controller's screen.
Again ==
  /\ phase = "back"
  /\ phase' = "local"
  /\ UNCHANGED <<setup, rel, sim, cursor, history>>

Next == Cross \/ Steer \/ Release \/ Again

Spec == Init /\ [][Next]_vars

----------------------------------------------------------------------------
\* A coordinate along the edge.
AlongOf(p) == IF edge \in {"left", "right"} THEN p.y ELSE p.x

\* A release lands inside the controller's screen and off the edge that
\* triggers crossings, whatever the two sizes are: were it on the edge, the
\* next move would hand control straight back (edge_math_test.go:122).
WarpClearsEdge ==
  phase = "back" =>
    Within(bounds, cursor) /\ ~edgeCrossed(edge, bounds, cursor)

\* The simulated cursor is always a pixel of the target's screen, so the
\* position the controller believes in (and sends over UDP) exists.  Only a
\* crossing reported at relPos 1 starts one pixel outside, until it moves.
SimOnScreen ==
  phase = "remote" =>
    OnScreen(sim.pos, size.w, size.h) \/ (rel.n = rel.d /\ sim.pos = entry)

\* A push back through the entry edge gives control home exactly when the
\* simulated cursor has been off that edge since it came in, however it has slid
\* along it, overshot it and come back to it since, and on earlier trips: the
\* push that comes with the crossing does not (edge_windows.go:146, 173-175).
LatchHolds == phase = "remote" => (sim.away <=> strayed)

\* A cursor that leaves the target at the height it came in returns to the
\* height it left from, or short of it by at most one target pixel (as wide
\* as the screens' ratio) and one pixel of its own: the two truncations of
\* relPos never add up to more, and never push the cursor the other way.
ReturnsNearby ==
  LET len  == Along(edge, bounds.w, bounds.h)
      tlen == Along(edge, size.w, size.h)
      off  == AlongOf(cross) - AlongOf([x |-> bounds.x, y |-> bounds.y])
      back == AlongOf(cursor) - AlongOf([x |-> bounds.x, y |-> bounds.y])
  IN  (phase = "back" /\ off \in 0..len-1 /\ AlongOf(exit) = AlongOf(entry)) =>
        /\ back <= off
        /\ (off - back - 1) * tlen <= len

=============================================================================
