--------------------------- MODULE EdgeTripProofs ---------------------------
(***************************************************************************)
(* Proofs about the geometry of EdgeMath, and about EdgeTrip, for every    *)
(* edge, screen and motion.                                                *)
(***************************************************************************)
EXTENDS EdgeTrip, TLAPS

\* clampI brings any integer into its range and leaves one that is in it.
LEMMA ClampInRange ==
  ASSUME NEW v \in Int, NEW lo \in Int, NEW hi \in Int, lo <= hi
  PROVE  /\ clampI(v, lo, hi) \in lo..hi
         /\ v \in lo..hi => clampI(v, lo, hi) = v
  BY DEF clampI

\* clamp01 of a quotient is a fraction, and less than 1 when the dividend is
\* less than the divisor.
LEMMA FractionType ==
  ASSUME NEW v \in Int, NEW len \in Nat \ {0}
  PROVE  /\ Fraction(v, len) \in RelPos
         /\ v < len => Fraction(v, len).n < Fraction(v, len).d
  BY DEF Fraction, RelPos, clampI

\* An offset along an edge is in 0..len, and below len if relPos is below 1.
LEMMA OffsetInRange ==
  ASSUME NEW rp \in RelPos, NEW len \in Nat \ {0}, NEW k \in Offsets(rp, len)
  PROVE  /\ k \in 0..len
         /\ rp.n < rp.d => k < len
<1>1. k \in 0..len /\ k * rp.d <= rp.n * len
  BY DEF Offsets
<1>2. ASSUME rp.n < rp.d, ~(k < len)
      PROVE  FALSE
  <2>1. k = len
    BY <1>1, <1>2
  <2>2. rp.n \in Nat /\ rp.d \in Nat \ {0}
    BY DEF RelPos
  <2>3. rp.n * len < rp.d * len
    BY <1>2, <2>2
  <2> QED
    BY <1>1, <2>1, <2>2, <2>3
<1> QED
  BY <1>1, <1>2

\* Every kind of edge.
LEMMA EdgeCases ==
  ASSUME NEW side \in Edges
  PROVE  /\ side = "left" \/ side = "right" \/ side = "top" \/ side = "bottom"
         /\ Opposite(side) \in Edges
         /\ Opposite(Opposite(side)) = side
  BY DEF Edges, Opposite

\* A point at an offset along an edge and a depth from it, by coordinate.
LEMMA PointAtType ==
  ASSUME NEW side \in Edges, NEW k \in Int, NEW depth \in Int,
         NEW w \in Int, NEW h \in Int
  PROVE  PointAt(side, k, depth, w, h) \in Points
  BY DEF PointAt, Edges, Points

LEMMA AlongType ==
  ASSUME NEW side, NEW w \in Nat \ {0}, NEW h \in Nat \ {0}
  PROVE  Along(side, w, h) \in Nat \ {0}
  BY DEF Along

LEMMA EntryType ==
  ASSUME NEW side \in Edges, NEW rp \in RelPos,
         NEW w \in Nat \ {0}, NEW h \in Nat \ {0},
         NEW p \in entryPosition(side, rp, w, h)
  PROVE  p \in Points
<1>1. PICK k \in Offsets(rp, Along(side, w, h)) : p = PointAt(side, k, 0, w, h)
  BY DEF entryPosition
<1>2. k \in Int
  BY <1>1, OffsetInRange, AlongType
<1> QED
  BY <1>1, <1>2, PointAtType

\* A cursor that comes in at relPos below 1 comes in on the target's screen.
THEOREM EntryOnScreen ==
  ASSUME NEW side \in Edges, NEW rp \in RelPos, rp.n < rp.d,
         NEW w \in Nat \ {0}, NEW h \in Nat \ {0},
         NEW p \in entryPosition(side, rp, w, h)
  PROVE  OnScreen(p, w, h)
<1>1. PICK k \in Offsets(rp, Along(side, w, h)) : p = PointAt(side, k, 0, w, h)
  BY DEF entryPosition
<1>2. k \in 0..Along(side, w, h) /\ k < Along(side, w, h)
  BY <1>1, OffsetInRange, AlongType
<1> QED
  BY <1>1, <1>2 DEF Edges, PointAt, Along, OnScreen

LEMMA MovedType ==
  ASSUME NEW p \in Points, NEW m \in Points
  PROVE  Moved(p, m) \in Points
  BY DEF Moved, Points

\* The simulated cursor is on the target's screen after every step of it.
LEMMA ClampedOnScreen ==
  ASSUME NEW p \in Points, NEW w \in Nat \ {0}, NEW h \in Nat \ {0}
  PROVE  Clamped(p, w, h) \in Points /\ OnScreen(Clamped(p, w, h), w, h)
  BY DEF Clamped, Points, OnScreen, clampI

LEMMA SteeredOnScreen ==
  ASSUME NEW side \in Edges, NEW sc \in Sims, NEW m \in Points,
         NEW w \in Nat \ {0}, NEW h \in Nat \ {0}
  PROVE  /\ Steered(side, sc, m, w, h) \in Sims
         /\ OnScreen(Steered(side, sc, m, w, h).pos, w, h)
<1> DEFINE out == pushesPast(side, Moved(sc.pos, m), w, h)
           pos == Clamped(Moved(sc.pos, m), w, h)
           away == sc.away \/ (~out /\ hasMovedAway(side, pos, w, h))
<1>1. sc.pos \in Points /\ sc.away \in BOOLEAN
  BY DEF Sims
<1>2. pos \in Points /\ OnScreen(pos, w, h)
  BY <1>1, MovedType, ClampedOnScreen
<1>3. hasMovedAway(side, pos, w, h) \in BOOLEAN
  <2> HIDE DEF pos
  <2> QED
    BY DEF hasMovedAway, Edges
<1>4. out \in BOOLEAN
  BY DEF pushesPast, Edges
<1>5. away \in BOOLEAN
  BY <1>1, <1>3, <1>4
<1>6. Steered(side, sc, m, w, h) = [pos |-> pos, away |-> away]
  BY DEF Steered
<1> HIDE DEF pos, away
<1> QED
  BY <1>2, <1>5, <1>6 DEF Sims

\* The warp of a release lands inside the controller's screen and not on the
\* edge that triggers crossings, for every size of the two screens.
THEOREM WarpIsClear ==
  ASSUME NEW side \in Edges, NEW sc \in Sims, NEW m \in Points,
         NEW w \in Nat \ {0}, NEW h \in Nat \ {0}, NEW b \in Bounds,
         NEW q \in ReleaseWarps(side, sc, m, w, h, b)
  PROVE  /\ q \in Points
         /\ Within(b, q)
         /\ ~edgeCrossed(side, b, q)
<1> DEFINE pos == Clamped(Moved(sc.pos, m), w, h)
           rp == releaseRelPos(Opposite(side), pos, w, h)
<1>1. pos \in Points /\ OnScreen(pos, w, h)
  BY MovedType, ClampedOnScreen DEF Sims
<1>2. rp \in RelPos /\ rp.n < rp.d
  <2> HIDE DEF pos
  <2>1. CASE Opposite(side) \in {"left", "right"}
    <3>1. rp = Fraction(pos.y, h)
      BY <2>1 DEF releaseRelPos, Along
    <3>2. pos.y \in Int /\ pos.y < h
      BY <1>1 DEF OnScreen, Points
    <3> QED
      BY <3>1, <3>2, FractionType
  <2>2. CASE Opposite(side) \notin {"left", "right"}
    <3>1. rp = Fraction(pos.x, w)
      BY <2>2 DEF releaseRelPos, Along
    <3>2. pos.x \in Int /\ pos.x < w
      BY <1>1 DEF OnScreen, Points
    <3> QED
      BY <3>1, <3>2, FractionType
  <2> QED
    BY <2>1, <2>2
<1>3. q \in controllerWarpPosition(side, rp, b)
  BY DEF ReleaseWarps
<1> HIDE DEF rp
<1>4. b.x \in Int /\ b.y \in Int /\ b.w \in Nat \ {0, 1} /\ b.h \in Nat \ {0, 1}
  BY DEF Bounds
<1>5. PICK k \in Offsets(rp, Along(side, b.w, b.h)) :
        q = Moved([x |-> b.x, y |-> b.y], PointAt(side, k, 1, b.w, b.h))
  BY <1>3 DEF controllerWarpPosition
<1>6. k \in 0..Along(side, b.w, b.h) /\ k < Along(side, b.w, b.h)
  BY <1>2, <1>4, <1>5, OffsetInRange, AlongType
<1>7. CASE side = "left"
  BY <1>4, <1>5, <1>6, <1>7 DEF PointAt, Along, Moved, Points, Within, edgeCrossed
<1>8. CASE side = "right"
  BY <1>4, <1>5, <1>6, <1>8 DEF PointAt, Along, Moved, Points, Within, edgeCrossed
<1>9. CASE side = "top"
  BY <1>4, <1>5, <1>6, <1>9 DEF PointAt, Along, Moved, Points, Within, edgeCrossed
<1>10. CASE side = "bottom"
  BY <1>4, <1>5, <1>6, <1>10 DEF PointAt, Along, Moved, Points, Within, edgeCrossed
<1> QED
  BY <1>7, <1>8, <1>9, <1>10, EdgeCases

\* The relPos of a crossing the hook reports is one.
LEMMA CrossRelPosType ==
  ASSUME NEW side \in Edges, NEW b \in Bounds, NEW pt \in Points
  PROVE  crossRelPos(side, b, pt) \in RelPos
<1>1. b.x \in Int /\ b.y \in Int /\ b.w \in Nat \ {0} /\ b.h \in Nat \ {0}
  BY DEF Bounds
<1>2. pt.y - b.y \in Int /\ pt.x - b.x \in Int
  BY <1>1 DEF Points
<1> QED
  BY <1>1, <1>2, FractionType, AlongType DEF crossRelPos

----------------------------------------------------------------------------
\* The round trip.

Inv == TypeOK /\ WarpClearsEdge /\ SimOnScreen

LEMMA Constants ==
  ASSUME TypeOK
  PROVE  /\ size.w \in Nat \ {0} /\ size.h \in Nat \ {0}
         /\ bounds \in Bounds
         /\ bounds.x \in Int /\ bounds.y \in Int /\ bounds.w \in Nat /\ bounds.h \in Nat
         /\ Opposite(edge) \in Edges
         /\ Origin \in Points
         /\ sim.pos \in Points
         /\ Deltas \subseteq Points
<1>1. size \in [w : Nat \ {0}, h : Nat \ {0}] /\ bounds \in Bounds
  BY SizesAssumption, ScreensAssumption DEF TypeOK
<1> QED
  BY <1>1, EdgeCases, DeltasAssumption DEF TypeOK, Sims, Bounds, Origin, Points

\* Nothing has happened on the first trip.
LEMMA InitInv == Init => Inv
<1> SUFFICES ASSUME Init PROVE Inv
  OBVIOUS
<1>1. Origin \in Points
  BY DEF Origin, Points
<1>2. rel \in RelPos
  BY DEF Init, RelPos
<1>3. sim \in Sims
  BY <1>1 DEF Init, Sims
<1> QED
  BY <1>1, <1>2, <1>3 DEF Init, Inv, TypeOK, WarpClearsEdge, SimOnScreen

LEMMA CrossInv ==
  ASSUME Inv, Cross
  PROVE  Inv'
<1> USE DEF Inv
<1>1. PICK pt \in HookPoints(bounds) :
        cross' = pt /\ rel' = crossRelPos(edge, bounds, pt)
  BY DEF Cross
<1>2. pt \in Points
  BY <1>1, Constants DEF HookPoints, Points
<1>3. rel' \in RelPos
  BY <1>1, <1>2, Constants, CrossRelPosType DEF TypeOK
<1>4. PICK p \in entryPosition(Opposite(edge), rel', size.w, size.h) :
        entry' = p /\ sim' = [pos |-> p, away |-> FALSE]
  BY DEF Cross
<1>5. p \in Points
  BY <1>3, <1>4, Constants, EntryType
<1>6. sim' \in Sims /\ sim'.pos = p
  BY <1>4, <1>5 DEF Sims
<1>7. phase' = "remote" /\ cursor' = Origin /\ exit' = Origin /\ UNCHANGED setup
  BY DEF Cross
<1>8. rel'.n = rel'.d \/ OnScreen(p, size.w, size.h)
  <2>1. rel'.n = rel'.d \/ rel'.n < rel'.d
    BY <1>3 DEF RelPos
  <2> QED
    BY <2>1, <1>3, <1>4, Constants, EntryOnScreen
<1>9. TypeOK'
  <2>1. strayed' \in BOOLEAN
    BY EdgeCases DEF Cross, OffEntryEdge, TypeOK
  <2> QED
    BY <1>1, <1>2, <1>3, <1>4, <1>5, <1>6, <1>7, <2>1, Constants DEF TypeOK, setup
<1>10. WarpClearsEdge'
  BY <1>7 DEF WarpClearsEdge
<1>11. SimOnScreen'
  BY <1>4, <1>6, <1>7, <1>8 DEF SimOnScreen, setup
<1> QED
  BY <1>9, <1>10, <1>11

LEMMA SteerInv ==
  ASSUME Inv, Steer
  PROVE  Inv'
<1> USE DEF Inv
<1>1. PICK m \in Deltas : sim' = Steered(Opposite(edge), sim, m, size.w, size.h)
  BY DEF Steer
<1>2. sim \in Sims
  BY DEF TypeOK
<1>3. sim' \in Sims /\ OnScreen(sim'.pos, size.w, size.h)
  BY <1>1, <1>2, Constants, SteeredOnScreen
<1>4. phase = "remote" /\ UNCHANGED <<setup, phase, rel, cursor, cross, entry, exit>>
  BY DEF Steer
<1>5. strayed' \in BOOLEAN
  BY EdgeCases DEF Steer, OffEntryEdge, TypeOK
<1> QED
  BY <1>3, <1>4, <1>5 DEF TypeOK, WarpClearsEdge, SimOnScreen, setup

LEMMA ReleaseInv ==
  ASSUME Inv, Release
  PROVE  Inv'
<1> USE DEF Inv
<1>1. PICK m \in Deltas :
        /\ cursor' \in ReleaseWarps(edge, sim, m, size.w, size.h, bounds)
        /\ exit' = Clamped(Moved(sim.pos, m), size.w, size.h)
  BY DEF Release
<1>2. cursor' \in Points /\ Within(bounds, cursor') /\ ~edgeCrossed(edge, bounds, cursor')
  BY <1>1, Constants, WarpIsClear DEF TypeOK
<1>3. exit' \in Points
  BY <1>1, Constants, MovedType, ClampedOnScreen
<1>4. phase' = "back" /\ UNCHANGED <<setup, rel, sim, cross, entry, strayed>>
  BY DEF Release
<1> QED
  BY <1>2, <1>3, <1>4 DEF TypeOK, WarpClearsEdge, SimOnScreen, setup

LEMMA InvHolds == Spec => []Inv
<1>1. Inv /\ [Next]_vars => Inv'
  <2> SUFFICES ASSUME Inv, [Next]_vars PROVE Inv'
    OBVIOUS
  <2>1. CASE Again
    BY <2>1 DEF Again, Inv, TypeOK, WarpClearsEdge, SimOnScreen, setup, history
  <2>2. CASE UNCHANGED vars
    BY <2>2 DEF vars, history, Inv, TypeOK, WarpClearsEdge, SimOnScreen
  <2> QED
    BY <2>1, <2>2, CrossInv, SteerInv, ReleaseInv DEF Next
<1> QED
  BY <1>1, InitInv, PTL DEF Spec

\* A relPos is a fraction in [0, 1] wherever the cursor crossed, and every
\* other part of the state keeps its type.
THEOREM TypeCorrect == Spec => []TypeOK
  BY InvHolds, PTL DEF Inv

\* A release never lands on the edge it would cross again, whatever the sizes
\* of the two screens.
THEOREM WarpClear == Spec => []WarpClearsEdge
  BY InvHolds, PTL DEF Inv

\* The simulated cursor never leaves the target's screen but at the very end
\* of an edge.
THEOREM SimStaysOnScreen == Spec => []SimOnScreen
  BY InvHolds, PTL DEF Inv

----------------------------------------------------------------------------
\* The latch.

\* A cursor on the target's screen is off its entry edge where the code says so,
\* and one that was pushed out through that edge and brought back is on it.
LEMMA OffEdge ==
  ASSUME TypeOK, NEW p \in Points, OnScreen(p, size.w, size.h)
  PROVE  hasMovedAway(Opposite(edge), p, size.w, size.h) <=> OffEntryEdge(p)
<1>1. size.w \in Nat \ {0} /\ size.h \in Nat \ {0}
  BY Constants
<1>2. p.x \in 0..size.w-1 /\ p.y \in 0..size.h-1
  BY DEF OnScreen
<1>3. CASE edge = "left"
  BY <1>1, <1>2, <1>3 DEF hasMovedAway, OffEntryEdge, Opposite
<1>4. CASE edge = "right"
  BY <1>1, <1>2, <1>4 DEF hasMovedAway, OffEntryEdge, Opposite
<1>5. CASE edge = "top"
  BY <1>1, <1>2, <1>5 DEF hasMovedAway, OffEntryEdge, Opposite
<1>6. CASE edge = "bottom"
  BY <1>1, <1>2, <1>6 DEF hasMovedAway, OffEntryEdge, Opposite
<1> QED
  BY <1>3, <1>4, <1>5, <1>6, EdgeCases DEF TypeOK

LEMMA PushedOut ==
  ASSUME TypeOK, NEW p \in Points, pushesPast(Opposite(edge), p, size.w, size.h)
  PROVE  ~OffEntryEdge(Clamped(p, size.w, size.h))
<1>1. size.w \in Nat \ {0} /\ size.h \in Nat \ {0} /\ p.x \in Int /\ p.y \in Int
  BY Constants DEF Points
<1>2. CASE edge = "left"
  BY <1>1, <1>2 DEF pushesPast, OffEntryEdge, Opposite, Clamped, clampI
<1>3. CASE edge = "right"
  BY <1>1, <1>3 DEF pushesPast, OffEntryEdge, Opposite, Clamped, clampI
<1>4. CASE edge = "top"
  BY <1>1, <1>4 DEF pushesPast, OffEntryEdge, Opposite, Clamped, clampI
<1>5. CASE edge = "bottom"
  BY <1>1, <1>5 DEF pushesPast, OffEntryEdge, Opposite, Clamped, clampI
<1> QED
  BY <1>2, <1>3, <1>4, <1>5, EdgeCases DEF TypeOK

LEMMA EntryOnEdge ==
  ASSUME TypeOK, NEW k
  PROVE  ~OffEntryEdge(PointAt(Opposite(edge), k, 0, size.w, size.h))
<1>1. size.w \in Nat \ {0} /\ size.h \in Nat \ {0}
  BY Constants
<1>2. CASE edge = "left"
  BY <1>1, <1>2 DEF PointAt, OffEntryEdge, Opposite
<1>3. CASE edge = "right"
  BY <1>1, <1>3 DEF PointAt, OffEntryEdge, Opposite
<1>4. CASE edge = "top"
  BY <1>1, <1>4 DEF PointAt, OffEntryEdge, Opposite
<1>5. CASE edge = "bottom"
  BY <1>1, <1>5 DEF PointAt, OffEntryEdge, Opposite
<1> QED
  BY <1>2, <1>3, <1>4, <1>5, EdgeCases DEF TypeOK

LEMMA LatchAtEntry == ASSUME TypeOK, Cross PROVE LatchHolds'
<1>1. PICK pt \in HookPoints(bounds) : rel' = crossRelPos(edge, bounds, pt)
  BY DEF Cross
<1>2. pt \in Points
  BY <1>1, Constants DEF HookPoints, Points
<1>3. rel' \in RelPos
  BY <1>1, <1>2, Constants, CrossRelPosType DEF TypeOK
<1>4. PICK p \in entryPosition(Opposite(edge), rel', size.w, size.h) :
        sim' = [pos |-> p, away |-> FALSE]
  BY DEF Cross
<1>5. PICK k \in Offsets(rel', Along(Opposite(edge), size.w, size.h)) :
        p = PointAt(Opposite(edge), k, 0, size.w, size.h)
  BY DEF entryPosition
<1>6. ~OffEntryEdge(p)
  BY <1>5, EntryOnEdge
<1> QED
  BY <1>4, <1>6 DEF Cross, LatchHolds

LEMMA LatchSteered == ASSUME TypeOK, LatchHolds, Steer PROVE LatchHolds'
<1>1. PICK m \in Deltas : sim' = Steered(Opposite(edge), sim, m, size.w, size.h)
  BY DEF Steer
<1> DEFINE moved == Moved(sim.pos, m)
           pos == Clamped(moved, size.w, size.h)
           out == pushesPast(Opposite(edge), moved, size.w, size.h)
           off == hasMovedAway(Opposite(edge), pos, size.w, size.h)
<1>2. moved \in Points /\ pos \in Points /\ OnScreen(pos, size.w, size.h)
  BY <1>1, Constants, MovedType, ClampedOnScreen
<1>3. sim'.pos = pos /\ sim'.away = (sim.away \/ (~out /\ off))
  BY <1>1 DEF Steered
<1> HIDE DEF moved, pos, out, off
<1>4. off <=> OffEntryEdge(pos)
  BY <1>2, OffEdge DEF off
<1>5. out => ~OffEntryEdge(pos)
  BY <1>2, PushedOut DEF out, pos
<1>6. phase = "remote" /\ strayed' = (strayed \/ OffEntryEdge(sim'.pos))
  BY DEF Steer
<1>7. sim.away <=> strayed
  BY <1>6 DEF LatchHolds
<1> QED
  BY <1>3, <1>4, <1>5, <1>6, <1>7 DEF LatchHolds

\* The controller takes control back at a push through the entry edge exactly
\* when its simulated cursor has been off that edge since it came in, for
\* screens of any size and any motions (edge_windows.go:143-175).
THEOREM Latch == Spec => []LatchHolds
<1>1. Init => LatchHolds
  BY DEF Init, LatchHolds
<1>2. TypeOK /\ LatchHolds /\ [Next]_vars => LatchHolds'
  <2> SUFFICES ASSUME TypeOK, LatchHolds, [Next]_vars PROVE LatchHolds'
    OBVIOUS
  <2>1. CASE Release
    BY <2>1 DEF Release, LatchHolds
  <2>2. CASE Again
    BY <2>2 DEF Again, LatchHolds
  <2>3. CASE UNCHANGED vars
    BY <2>3 DEF vars, history, LatchHolds
  <2> QED
    BY <2>1, <2>2, <2>3, LatchAtEntry, LatchSteered DEF Next
<1> QED
  BY <1>1, <1>2, TypeCorrect, PTL DEF Spec

----------------------------------------------------------------------------
\* The way there and back.

\* Two truncated products, there and back, lose at most one unit of each.
LEMMA TwoTruncations ==
  ASSUME NEW off \in Int, NEW len \in Nat \ {0}, NEW tlen \in Nat \ {0},
         NEW k \in Int, NEW j \in Int,
         k * len <= off * tlen, off * tlen <= (k + 1) * len,
         j * tlen <= k * len, k * len <= (j + 1) * tlen
  PROVE  /\ j <= off
         /\ (off - j - 1) * tlen <= len
<1>1. (k + 1) * len = k * len + len
  OBVIOUS
<1>2. (j + 1) * tlen = j * tlen + tlen
  OBVIOUS
<1>3. (off - j - 1) * tlen = off * tlen - j * tlen - tlen
  OBVIOUS
<1>4. ASSUME j > off PROVE FALSE
  <2>1. (j - off) * tlen > 0
    BY <1>4
  <2>2. (j - off) * tlen = j * tlen - off * tlen
    OBVIOUS
  <2> QED
    BY <2>1, <2>2
<1> QED
  BY <1>1, <1>2, <1>3, <1>4

\* Where the cursor came in and where it came back to are computed from where
\* it crossed and from where it went out.
Journey ==
  /\ phase # "local" =>
       /\ rel = crossRelPos(edge, bounds, cross)
       /\ entry \in entryPosition(Opposite(edge), rel, size.w, size.h)
  /\ phase = "back" =>
       cursor \in controllerWarpPosition(
                    edge, releaseRelPos(Opposite(edge), exit, size.w, size.h), bounds)

LEMMA JourneyStep == Journey /\ [Next]_vars => Journey'
<1> SUFFICES ASSUME Journey, [Next]_vars PROVE Journey'
  OBVIOUS
<1>1. CASE Cross
  BY <1>1 DEF Cross, Journey, setup
<1>2. CASE Steer
  BY <1>2 DEF Steer, Journey, setup
<1>3. CASE Release
  BY <1>3 DEF Release, ReleaseWarps, Journey, setup
<1>4. CASE Again
  BY <1>4 DEF Again, Journey, setup, history
<1>5. CASE UNCHANGED vars
  BY <1>5 DEF vars, history, Journey
<1> QED
  BY <1>1, <1>2, <1>3, <1>4, <1>5 DEF Next

\* A coordinate along the edge, of the points that the code computes.
AlongPoint(side, p) == IF side \in {"left", "right"} THEN p.y ELSE p.x

LEMMA AlongPointAt ==
  ASSUME NEW side \in Edges, NEW k \in Int, NEW depth \in Int,
         NEW w \in Int, NEW h \in Int
  PROVE  AlongPoint(side, PointAt(side, k, depth, w, h)) = k
  BY DEF AlongPoint, PointAt, Edges

LEMMA AlongMoved ==
  ASSUME NEW side \in Edges, NEW p \in Points, NEW m \in Points
  PROVE  AlongPoint(side, Moved(p, m)) = AlongPoint(side, p) + AlongPoint(side, m)
  BY DEF AlongPoint, Moved, Points

LEMMA AlongOpposite ==
  ASSUME NEW side \in Edges, NEW p, NEW w, NEW h
  PROVE  /\ AlongPoint(Opposite(side), p) = AlongPoint(side, p)
         /\ Along(Opposite(side), w, h) = Along(side, w, h)
  BY DEF AlongPoint, Along, Opposite, Edges

\* What an offset is, in products.
LEMMA OffsetProducts ==
  ASSUME NEW rp, NEW len, NEW k \in Offsets(rp, len)
  PROVE  /\ k \in 0..len
         /\ k * rp.d <= rp.n * len
         /\ rp.n * len <= (k + 1) * rp.d
  BY DEF Offsets

LEMMA Nearby == TypeOK /\ Journey => ReturnsNearby
<1> DEFINE len == Along(edge, bounds.w, bounds.h)
           tlen == Along(edge, size.w, size.h)
           corner == [x |-> bounds.x, y |-> bounds.y]
           off == AlongPoint(edge, cross) - AlongPoint(edge, corner)
           back == AlongPoint(edge, cursor) - AlongPoint(edge, corner)
<1> SUFFICES ASSUME TypeOK, Journey, phase = "back", off \in 0..len-1,
                    AlongPoint(edge, exit) = AlongPoint(edge, entry)
             PROVE  back <= off /\ (off - back - 1) * tlen <= len
  BY DEF ReturnsNearby, AlongOf, AlongPoint
<1>1. /\ edge \in Edges /\ Opposite(edge) \in Edges
      /\ bounds.w \in Nat \ {0} /\ bounds.h \in Nat \ {0}
      /\ size.w \in Nat \ {0} /\ size.h \in Nat \ {0}
      /\ corner \in Points
  BY Constants, EdgeCases DEF TypeOK, Bounds, Points
<1>2. len \in Nat \ {0} /\ tlen \in Nat \ {0}
  BY <1>1, AlongType
<1>3. rel.n = off /\ rel.d = len
  <2>1. /\ rel = Fraction(off, len)
    BY <1>1 DEF Journey, crossRelPos, AlongPoint
  <2> HIDE DEF off, len
  <2> QED
    BY <1>2, <2>1 DEF Fraction, clampI
<1>4. PICK k \in Offsets(rel, tlen) : AlongPoint(edge, entry) = k
  <2>1. PICK k \in Offsets(rel, Along(Opposite(edge), size.w, size.h)) :
          entry = PointAt(Opposite(edge), k, 0, size.w, size.h)
    BY DEF Journey, entryPosition
  <2>2. k \in Offsets(rel, tlen) /\ k \in Int
    BY <1>1, <1>2, <2>1, AlongOpposite, OffsetProducts
  <2>3. AlongPoint(Opposite(edge), entry) = k
    BY <1>1, <2>1, <2>2, AlongPointAt
  <2> QED
    BY <1>1, <2>2, <2>3, AlongOpposite
<1>5. k \in 0..tlen /\ k * len <= off * tlen /\ off * tlen <= (k + 1) * len
  BY <1>3, <1>4, OffsetProducts
<1> DEFINE rp == releaseRelPos(Opposite(edge), exit, size.w, size.h)
<1>6. rp.n = k /\ rp.d = tlen
  <2>1. rp = Fraction(AlongPoint(Opposite(edge), exit), Along(Opposite(edge), size.w, size.h))
    BY DEF releaseRelPos, AlongPoint
  <2>2. rp = Fraction(k, tlen)
    BY <1>1, <1>4, <2>1, AlongOpposite
  <2> HIDE DEF rp, tlen
  <2> QED
    BY <1>2, <1>5, <2>2 DEF Fraction, clampI
<1>7. PICK j \in Offsets(rp, len) : back = j
  <2>1. PICK j \in Offsets(rp, len) :
          cursor = Moved(corner, PointAt(edge, j, 1, bounds.w, bounds.h))
    BY DEF Journey, controllerWarpPosition
  <2>2. j \in Int
    BY <1>2, <2>1, OffsetProducts
  <2>3. /\ PointAt(edge, j, 1, bounds.w, bounds.h) \in Points
        /\ AlongPoint(edge, PointAt(edge, j, 1, bounds.w, bounds.h)) = j
    BY <1>1, <2>2, PointAtType, AlongPointAt
  <2>4. AlongPoint(edge, cursor) = AlongPoint(edge, corner) + j
    BY <1>1, <2>1, <2>3, AlongMoved
  <2>5. AlongPoint(edge, corner) \in Int
    BY <1>1 DEF AlongPoint, Points
  <2> QED
    BY <2>1, <2>2, <2>4, <2>5
<1>8. j \in 0..len /\ j * tlen <= k * len /\ k * len <= (j + 1) * tlen
  BY <1>6, <1>7, OffsetProducts
<1> HIDE DEF len, tlen, off, back, rp
<1>9. off \in Int
  BY <1>2
<1> QED
  BY <1>2, <1>5, <1>7, <1>8, <1>9, TwoTruncations

\* A cursor that leaves the target at the height it came in returns to the
\* height it left from, or less than a target pixel and one of its own short of
\* it: the two truncations of relPos (edge_math.go) never add up to more, for
\* screens of any two sizes.
THEOREM Returns == Spec => []ReturnsNearby
<1>1. Init => Journey
  BY DEF Init, Journey
<1> QED
  BY <1>1, JourneyStep, Nearby, TypeCorrect, PTL DEF Spec

=============================================================================
