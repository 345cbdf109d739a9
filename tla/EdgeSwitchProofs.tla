-------------------------- MODULE EdgeSwitchProofs --------------------------
(***************************************************************************)
(* Proofs about EdgeSwitch for every channel capacity, screen size, edge   *)
(* and number of crossings.                                                *)
(*                                                                         *)
(* TypeOK is inductive.  The safety properties are not: that a crossing is *)
(* unique while the loop is not serving one says nothing of the events     *)
(* behind it in the channel, which the loop will forward once it serves    *)
(* it.  CaptureOrder is the missing part: every event behind a crossing,   *)
(* and every event at all while the loop serves, belongs to the latest     *)
(* crossing.                                                               *)
(***************************************************************************)
EXTENDS EdgeSwitch, TLAPS

\* What the geometry is made of; EdgeTripProofs says what it computes.
LEMMA EdgeCases ==
  ASSUME NEW edge \in Edges
  PROVE  Opposite(edge) \in Edges
  BY DEF Edges, Opposite

LEMMA AlongType ==
  ASSUME NEW edge, NEW w \in Nat \ {0}, NEW h \in Nat \ {0}
  PROVE  Along(edge, w, h) \in Nat \ {0}
  BY DEF Along

LEMMA PointAtType ==
  ASSUME NEW edge \in Edges, NEW k \in Int, NEW depth \in Int,
         NEW w \in Int, NEW h \in Int
  PROVE  PointAt(edge, k, depth, w, h) \in Points
  BY DEF PointAt, Edges, Points

LEMMA MovedType ==
  ASSUME NEW p \in Points, NEW m \in Points
  PROVE  Moved(p, m) \in Points
  BY DEF Moved, Points

LEMMA EntryType ==
  ASSUME NEW edge \in Edges, NEW rel,
         NEW w \in Nat \ {0}, NEW h \in Nat \ {0},
         NEW p \in entryPosition(edge, rel, w, h)
  PROVE  p \in Points
<1>1. PICK k \in Offsets(rel, Along(edge, w, h)) : p = PointAt(edge, k, 0, w, h)
  BY DEF entryPosition
<1>2. k \in Int
  BY <1>1, AlongType DEF Offsets
<1> QED
  BY <1>1, <1>2, PointAtType

LEMMA SteeredType ==
  ASSUME NEW edge \in Edges, NEW sc \in Sims, NEW m \in Points,
         NEW w \in Nat \ {0}, NEW h \in Nat \ {0}
  PROVE  Steered(edge, sc, m, w, h) \in Sims
<1> DEFINE pos == Clamped(Moved(sc.pos, m), w, h)
           away == Steered(edge, sc, m, w, h).away
<1>1. Steered(edge, sc, m, w, h) = [pos |-> pos, away |-> away]
  BY DEF Steered
<1>2. pos \in Points
  BY MovedType DEF Sims, Clamped, Points, clampI
<1>3. away \in BOOLEAN
  BY DEF Steered, Sims, pushesPast, hasMovedAway, Edges
<1> HIDE DEF pos, away
<1> QED
  BY <1>1, <1>2, <1>3 DEF Sims

LEMMA WarpType ==
  ASSUME NEW edge \in Edges, NEW sc, NEW m,
         NEW w, NEW h, NEW b \in Bounds,
         NEW q \in ReleaseWarps(edge, sc, m, w, h, b)
  PROVE  q \in Points
<1>1. PICK rel : q \in controllerWarpPosition(edge, rel, b)
  BY DEF ReleaseWarps
<1>2. b.x \in Int /\ b.y \in Int /\ b.w \in Nat \ {0} /\ b.h \in Nat \ {0}
  BY DEF Bounds
<1>3. PICK k \in Offsets(rel, Along(edge, b.w, b.h)) :
        q = Moved([x |-> b.x, y |-> b.y], PointAt(edge, k, 1, b.w, b.h))
  BY <1>1 DEF controllerWarpPosition
<1>4. k \in Int
  BY <1>2, <1>3, AlongType DEF Offsets
<1>5. [x |-> b.x, y |-> b.y] \in Points
  BY <1>2 DEF Points
<1> QED
  BY <1>2, <1>3, <1>4, <1>5, PointAtType, MovedType

LEMMA CrossRelPosType ==
  ASSUME NEW edge \in Edges, NEW b \in Bounds, NEW pt \in Points
  PROVE  crossRelPos(edge, b, pt) \in RelPos
<1>1. b.x \in Int /\ b.y \in Int /\ b.w \in Nat \ {0} /\ b.h \in Nat \ {0}
  BY DEF Bounds
<1>2. pt.y - b.y \in Int /\ pt.x - b.x \in Int
  BY <1>1 DEF Points
<1>3. Along(edge, b.w, b.h) \in Nat \ {0}
  BY <1>1, AlongType
<1> QED
  BY <1>2, <1>3 DEF crossRelPos, Fraction, RelPos, clampI

LEMMA Constants ==
  /\ Edge \in Edges
  /\ entryEdge \in Edges
  /\ TargetW \in Nat \ {0}
  /\ TargetH \in Nat \ {0}
  /\ Screen \in Bounds
  /\ QCap \in Nat \ {0}
  /\ Deltas \subseteq Points
  BY EdgeAssumption, TargetAssumption, ScreenAssumption, QCapAssumption,
     DeltasAssumption, EdgeCases DEF entryEdge

LEMMA Literals ==
  /\ Origin \in Points
  /\ Zero \in RelPos
  BY DEF Origin, Points, Zero, RelPos

LEMMA EventOfType ==
  ASSUME NEW kind \in Kinds, NEW e \in Nat
  PROVE  /\ EventOf(kind, e) \in Event
         /\ EventOf(kind, e).kind = kind
         /\ EventOf(kind, e).epoch = e
  BY Literals DEF EventOf, Event

LEMMA NoEventType == NoEvent \in Event /\ NoEvent.kind = "none"
  BY EventOfType DEF NoEvent, Kinds

LEMMA MessageOfType ==
  ASSUME NEW type \in {"none", "engage", "move"} \cup InputKinds, NEW e \in Nat
  PROVE  MessageOf(type, e) \in Message /\ MessageOf(type, e).epoch = e
  BY DEF MessageOf, Message

\* The head of a channel that is not empty, and the rest of it.
LEMMA ReceiveType ==
  ASSUME TypeOK, NEW kinds, Receive(kinds)
  PROVE  /\ Head(events) \in Event
         /\ Head(events) = events[1]
         /\ events' \in Seq(Event)
         /\ Len(events') <= QCap
         /\ Len(events') = Len(events) - 1
         /\ \A i \in DOMAIN events' : i + 1 \in DOMAIN events /\ events'[i] = events[i + 1]
  BY Constants DEF TypeOK, Receive

\* What sending leaves in the channel.
LEMMA SendType ==
  ASSUME TypeOK, NEW e \in Event
  PROVE  /\ sendEvent(e) \in Seq(Event)
         /\ Len(sendEvent(e)) <= QCap
         /\ \/ sendEvent(e) = events
            \/ /\ Len(sendEvent(e)) = Len(events) + 1
               /\ \A i \in DOMAIN events : sendEvent(e)[i] = events[i]
               /\ sendEvent(e)[Len(events) + 1] = e
  BY Constants DEF TypeOK, sendEvent

\* The kind and epoch of the events the hook may be about to send.
LEMMA HookEventType ==
  ASSUME TypeOK
  PROVE  /\ MouseMoveCross => /\ hook' \in Event
                              /\ hook'.kind = "edge"
                              /\ hook'.epoch = epoch + 1
         /\ RawInput => /\ hook' \in Event
                        /\ hook'.kind = "move"
                        /\ hook'.epoch = epoch
         /\ ForwardInput => /\ hook' \in Event
                            /\ hook'.kind \in InputKinds
                            /\ hook'.epoch = epoch
         /\ PressHotkey => /\ hook' \in Event
                           /\ hook'.kind = "hotkey"
                           /\ hook'.epoch = epoch
<1>1. ASSUME MouseMoveCross
      PROVE  hook' \in Event /\ hook'.kind = "edge" /\ hook'.epoch = epoch + 1
  <2>1. PICK m \in Deltas :
          hook' = [EventOf("edge", epoch + 1)
                     EXCEPT !.rel = crossRelPos(Edge, Screen, Moved(cursor, m))]
    BY <1>1 DEF MouseMoveCross
  <2>2. crossRelPos(Edge, Screen, Moved(cursor, m)) \in RelPos
    BY Constants, MovedType, CrossRelPosType DEF TypeOK
  <2> QED
    BY <2>1, <2>2, Literals DEF EventOf, Event, Kinds, TypeOK
<1>2. ASSUME RawInput
      PROVE  hook' \in Event /\ hook'.kind = "move" /\ hook'.epoch = epoch
  BY <1>2, Literals, Constants DEF RawInput, EventOf, Event, Kinds, TypeOK
<1>3. ASSUME ForwardInput
      PROVE  hook' \in Event /\ hook'.kind \in InputKinds /\ hook'.epoch = epoch
  <2>1. PICK kind \in InputKinds : hook' = EventOf(kind, epoch)
    BY <1>3 DEF ForwardInput
  <2>2. kind \in Kinds /\ epoch \in Nat
    BY DEF Kinds, TypeOK
  <2> QED
    BY <2>1, <2>2, EventOfType
<1>4. ASSUME PressHotkey
      PROVE  hook' \in Event /\ hook'.kind = "hotkey" /\ hook'.epoch = epoch
  BY <1>4, EventOfType DEF PressHotkey, Kinds, TypeOK
<1> QED
  BY <1>1, <1>2, <1>3, <1>4

\* The channel never holds more than its capacity, and every part of the
\* state keeps its type.
THEOREM TypeCorrect == Spec => []TypeOK
<1>1. Init => TypeOK
  <2> SUFFICES ASSUME Init PROVE TypeOK
    OBVIOUS
  <2>1. cursor \in Points
    BY Constants DEF Init, Bounds, Points
  <2>2. sim \in Sims
    BY Literals DEF Init, Sims
  <2>3. sent \in Message
    BY MessageOfType DEF Init
  <2>4. events \in Seq(Event) /\ Len(events) <= QCap
    BY Constants DEF Init
  <2>5. hook \in Event
    BY NoEventType DEF Init
  <2> QED
    BY <2>1, <2>2, <2>3, <2>4, <2>5, Literals DEF Init, TypeOK
<1>2. TypeOK /\ [Next]_vars => TypeOK'
  <2> SUFFICES ASSUME TypeOK, [Next]_vars PROVE TypeOK'
    OBVIOUS
  <2>1. CASE MouseMoveLocal
    <3>1. PICK m \in Deltas :
            cursor' = [x |-> clampI(Moved(cursor, m).x, Screen.x, Screen.x + Screen.w - 1),
                       y |-> clampI(Moved(cursor, m).y, Screen.y, Screen.y + Screen.h - 1)]
      BY <2>1 DEF MouseMoveLocal
    <3>2. Moved(cursor, m) \in Points
      BY Constants, MovedType DEF TypeOK
    <3>3. cursor' \in Points
      BY <3>1, <3>2, Constants DEF Points, Bounds, clampI
    <3> QED
      BY <2>1, <3>3 DEF MouseMoveLocal, TypeOK, loopVars
  <2>2. CASE MouseMoveCross
    BY <2>2, HookEventType DEF MouseMoveCross, TypeOK, loopVars
  <2>3. CASE RawInput
    BY <2>3, HookEventType DEF RawInput, TypeOK, loopVars
  <2>4. CASE ForwardInput
    BY <2>4, HookEventType DEF ForwardInput, TypeOK, loopVars
  <2>5. CASE PressHotkey
    BY <2>5, HookEventType DEF PressHotkey, TypeOK, loopVars
  <2>6. CASE Send
    <3>1. events' \in Seq(Event) /\ Len(events') <= QCap
      BY <2>6, SendType DEF Send, TypeOK
    <3> QED
      BY <2>6, <3>1, NoEventType DEF Send, TypeOK, loopVars
  <2>7. CASE Engage
    <3>1. Receive({"edge"})
      BY <2>7 DEF Engage
    <3>2. Head(events) \in Event /\ events' \in Seq(Event) /\ Len(events') <= QCap
      BY <3>1, ReceiveType
    <3>3. Head(events).epoch \in Nat /\ Head(events).rel \in RelPos
      BY <3>2 DEF Event
    <3>4. PICK p \in entryPosition(entryEdge, Head(events).rel, TargetW, TargetH) :
            sim' = [pos |-> p, away |-> FALSE]
      BY <2>7 DEF Engage
    <3>5. sim' \in Sims
      BY <3>3, <3>4, Constants, EntryType DEF Sims
    <3>6. sent' \in Message /\ pc' = "write"
      BY <2>7, <3>3, MessageOfType DEF Engage, Write
    <3> QED
      BY <2>7, <3>2, <3>3, <3>5, <3>6 DEF Engage, TypeOK
  <2>8. CASE Ignore
    <3>1. events' \in Seq(Event) /\ Len(events') <= QCap
      BY <2>8, ReceiveType DEF Ignore
    <3> QED
      BY <2>8, <3>1 DEF Ignore, TypeOK, loopVars
  <2>9. CASE Release
    <3>1. Head(events) \in Event /\ events' \in Seq(Event) /\ Len(events') <= QCap
      BY <2>9, ReceiveType DEF Release
    <3>2. Head(events).delta \in Points
      BY <3>1 DEF Event
    <3>3. home' \in Points
      BY <2>9, <3>2, Constants, WarpType DEF Release, TypeOK
    <3> QED
      BY <2>9, <3>1, <3>3 DEF Release, TypeOK
  <2>10. CASE WarpHome
    BY <2>10, Literals DEF WarpHome, TypeOK
  <2>11. ASSUME Steer
         PROVE  /\ Head(events).epoch \in Nat
                /\ events' \in Seq(Event) /\ Len(events') <= QCap
                /\ sim' \in Sims
    <3>1. Head(events) \in Event /\ events' \in Seq(Event) /\ Len(events') <= QCap
      BY <2>11, ReceiveType DEF Steer
    <3>2. Head(events).delta \in Points /\ Head(events).epoch \in Nat
      BY <3>1 DEF Event
    <3>3. sim' \in Sims
      BY <2>11, <3>2, Constants, SteeredType DEF Steer, TypeOK
    <3> QED
      BY <3>1, <3>2, <3>3
  <2>12. CASE MoveOverUDP
    <3>1. Steer
      BY <2>12 DEF MoveOverUDP
    <3>2. sent' \in Message
      BY <2>12, <2>11, <3>1, MessageOfType DEF MoveOverUDP
    <3> QED
      BY <2>12, <2>11, <3>1, <3>2 DEF MoveOverUDP, Steer, TypeOK
  <2>13. CASE MoveOverTCP
    <3>1. Steer
      BY <2>13 DEF MoveOverTCP
    <3>2. sent' \in Message /\ pc' = "write"
      BY <2>13, <2>11, <3>1, MessageOfType DEF MoveOverTCP, Write
    <3> QED
      BY <2>13, <2>11, <3>1, <3>2 DEF MoveOverTCP, Steer, TypeOK
  <2>14. CASE ForwardToTarget
    <3>1. Head(events) \in Event /\ events' \in Seq(Event) /\ Len(events') <= QCap
      BY <2>14, ReceiveType DEF ForwardToTarget
    <3>2. Head(events).kind \in InputKinds /\ Head(events).epoch \in Nat
      BY <2>14, <3>1 DEF ForwardToTarget, Receive, Event
    <3>3. sent' \in Message /\ pc' = "write"
      BY <2>14, <3>2, MessageOfType DEF ForwardToTarget, Write
    <3> QED
      BY <2>14, <3>1, <3>3 DEF ForwardToTarget, TypeOK
  <2>15. CASE StartTransfer
    <3>1. events' \in Seq(Event) /\ Len(events') <= QCap
      BY <2>15, ReceiveType DEF StartTransfer
    <3> QED
      BY <2>15, <3>1 DEF StartTransfer, TypeOK, loopVars
  <2>16. CASE Written
    BY <2>16 DEF Written, TypeOK, sourceVars
  <2>17. CASE Exit
    BY <2>17 DEF Exit, TypeOK, sourceVars
  <2>18. CASE UNCHANGED vars
    BY <2>18 DEF vars, sourceVars, loopVars, TypeOK
  <2> QED
    BY <2>1, <2>2, <2>3, <2>4, <2>5, <2>6, <2>7, <2>8, <2>9, <2>10, <2>12, <2>13,
       <2>14, <2>15, <2>16, <2>17, <2>18 DEF Next, HookStep, LoopStep
<1> QED
  BY <1>1, <1>2, PTL DEF Spec

----------------------------------------------------------------------------
\* The safety properties.

Inv == TypeOK /\ CaptureOrder /\ ForwardsCurrentCrossing

\* What CaptureOrder says of the events of the channel.
LEMMA ReceiveKeepsOrder ==
  ASSUME TypeOK, CaptureOrder, NEW kinds, Receive(kinds)
  PROVE  /\ \A i \in DOMAIN events' :
              events'[i].kind = "edge" =>
                /\ flag
                /\ events'[i].epoch = epoch
                /\ \A j \in DOMAIN events' :
                     i < j => events'[j].kind # "edge" /\ events'[j].epoch = epoch
                /\ hook # NoEvent => hook.kind # "edge" /\ hook.epoch = epoch
         /\ Serving => /\ Head(events).kind # "edge"
                       /\ Head(events).epoch = epoch
                       /\ \A i \in DOMAIN events' :
                            events'[i].kind # "edge" /\ events'[i].epoch = epoch
         /\ Head(events).kind = "edge" =>
              /\ flag
              /\ Head(events).epoch = epoch
              /\ hook # NoEvent => hook.kind # "edge" /\ hook.epoch = epoch
              /\ \A i \in DOMAIN events' :
                   events'[i].kind # "edge" /\ events'[i].epoch = epoch
<1>1. Head(events) = events[1] /\ 1 \in DOMAIN events
  BY ReceiveType DEF TypeOK, Receive
<1>2. \A i \in DOMAIN events' : /\ i \in Nat \ {0}
                                /\ i + 1 \in DOMAIN events
                                /\ events'[i] = events[i + 1]
  <2>1. \A i \in DOMAIN events' : i \in Nat \ {0}
    BY ReceiveType
  <2> QED
    BY <2>1, ReceiveType
<1>3. \A i, j \in DOMAIN events' : i < j => 1 < i + 1 /\ 1 < j + 1 /\ i + 1 < j + 1
  BY <1>2
<1>4. \A i \in DOMAIN events' : 1 < i + 1
  BY <1>2
<1> QED
  BY <1>1, <1>2, <1>3, <1>4 DEF CaptureOrder

\* Sending the hook's event keeps it behind the crossing it was captured in.
LEMMA SendKeepsOrder ==
  ASSUME TypeOK, CaptureOrder, hook # NoEvent, NEW es, es = sendEvent(hook)
  PROVE  /\ \A i \in DOMAIN es :
              es[i].kind = "edge" =>
                /\ flag
                /\ es[i].epoch = epoch
                /\ \A j \in DOMAIN es :
                     i < j => es[j].kind # "edge" /\ es[j].epoch = epoch
         /\ Serving => \A i \in DOMAIN es : es[i].kind # "edge" /\ es[i].epoch = epoch
<1>1. CASE es = events
  BY <1>1 DEF CaptureOrder
<1>2. CASE /\ es \in Seq(Event)
           /\ Len(es) = Len(events) + 1
           /\ \A i \in DOMAIN events : es[i] = events[i]
           /\ es[Len(events) + 1] = hook
  <2>1. /\ DOMAIN events = 1..Len(events)
        /\ DOMAIN es = 1..Len(events) + 1
        /\ Len(events) \in Nat
    BY <1>2 DEF TypeOK
  <2>2. \A i \in DOMAIN es : \/ i \in DOMAIN events /\ es[i] = events[i]
                             \/ i = Len(events) + 1 /\ es[i] = hook
    BY <1>2, <2>1
  <2>3. \A i, j \in DOMAIN es : i < j => i \in DOMAIN events
    BY <2>1
  <2> QED
    BY <2>2, <2>3 DEF CaptureOrder
<1> QED
  BY <1>1, <1>2, SendType DEF TypeOK

\* Every step keeps the order of capture.
LEMMA InductiveStep ==
  ASSUME Inv, TypeOK', [Next]_vars
  PROVE  CaptureOrder' /\ ForwardsCurrentCrossing'
<1> USE DEF Inv
<1>1. CASE MouseMoveLocal
  BY <1>1 DEF MouseMoveLocal, Callback, loopVars, CaptureOrder,
              ForwardsCurrentCrossing, Serving
<1>2. CASE MouseMoveCross
  <2>1. /\ ~flag /\ flag'
        /\ hook'.kind = "edge" /\ hook'.epoch = epoch'
        /\ UNCHANGED <<events, loopVars>>
    BY <1>2, HookEventType DEF MouseMoveCross
  <2>2. ~Serving' /\ \A i \in DOMAIN events' : events'[i].kind # "edge"
    BY <2>1 DEF CaptureOrder, Serving, loopVars
  <2> QED
    BY <2>1, <2>2 DEF CaptureOrder, ForwardsCurrentCrossing, loopVars
<1>3. CASE RawInput \/ ForwardInput \/ PressHotkey
  <2>1. /\ hook'.kind # "edge" /\ hook'.epoch = epoch
        /\ UNCHANGED <<flag, events, epoch, loopVars>>
    BY <1>3, HookEventType DEF RawInput, ForwardInput, PressHotkey, InputKinds
  <2> QED
    BY <2>1 DEF CaptureOrder, ForwardsCurrentCrossing, Serving, loopVars
<1>4. CASE Send
  <2>1. /\ hook # NoEvent /\ events' = sendEvent(hook) /\ hook' = NoEvent
        /\ UNCHANGED <<flag, epoch, loopVars>>
    BY <1>4 DEF Send
  <2>2. /\ \A i \in DOMAIN events' :
              events'[i].kind = "edge" =>
                /\ flag
                /\ events'[i].epoch = epoch
                /\ \A j \in DOMAIN events' :
                     i < j => events'[j].kind # "edge" /\ events'[j].epoch = epoch
        /\ Serving => \A i \in DOMAIN events' :
                        events'[i].kind # "edge" /\ events'[i].epoch = epoch
    BY <2>1, SendKeepsOrder
  <2>3. hook'.kind # "edge"
    BY <2>1, NoEventType
  <2>4. Serving' => /\ Serving
                    /\ flag' /\ served' = epoch'
    BY <2>1 DEF CaptureOrder, Serving, loopVars
  <2>5. pc' \in {"write", "warp"} => engaged'
    BY <2>1 DEF CaptureOrder, loopVars
  <2>6. sent'.epoch = served'
    BY <2>1 DEF ForwardsCurrentCrossing, loopVars
  <2>7. flag' = flag /\ epoch' = epoch /\ hook' = NoEvent
    BY <2>1
  <2> QED
    BY <2>2, <2>3, <2>4, <2>5, <2>6, <2>7 DEF CaptureOrder, ForwardsCurrentCrossing
<1>5. CASE Engage
  <2>1. /\ Receive({"edge"})
        /\ served' = Head(events).epoch
        /\ sent'.epoch = served'
        /\ engaged' /\ pc' = "write"
        /\ UNCHANGED <<flag, hook, epoch>>
    <3>1. Receive({"edge"})
      BY <1>5 DEF Engage
    <3>2. Head(events).epoch \in Nat
      BY <3>1, ReceiveType DEF Event
    <3> QED
      BY <1>5, <3>1, <3>2, MessageOfType DEF Engage, Write
  <2>2. Head(events).kind = "edge"
    BY <2>1 DEF Receive
  <2>3. /\ flag /\ served' = epoch
        /\ hook # NoEvent => hook.kind # "edge" /\ hook.epoch = epoch
        /\ \A i \in DOMAIN events' : events'[i].kind # "edge" /\ events'[i].epoch = epoch
    BY <2>1, <2>2, ReceiveKeepsOrder
  <2>4. hook.kind # "edge"
    BY <2>3, NoEventType
  <2> QED
    BY <2>1, <2>3, <2>4 DEF CaptureOrder, ForwardsCurrentCrossing
<1>6. CASE Ignore \/ StartTransfer
  <2>1. PICK kinds : Receive(kinds)
    BY <1>6 DEF Ignore, StartTransfer
  <2>2. UNCHANGED <<flag, hook, loopVars, epoch>>
    BY <1>6 DEF Ignore, StartTransfer
  <2> QED
    BY <2>1, <2>2, ReceiveKeepsOrder
       DEF CaptureOrder, ForwardsCurrentCrossing, Serving, loopVars
<1>7. CASE Release
  <2>1. /\ Receive({"move"}) /\ Serving
        /\ pc' = "warp" /\ engaged'
        /\ UNCHANGED <<hook, sent, epoch, served>>
    BY <1>7 DEF Release, Receive, Serving
  <2>2. ~Serving' /\ \A i \in DOMAIN events' : events'[i].kind # "edge"
    BY <2>1, ReceiveKeepsOrder DEF Serving
  <2>3. hook.kind # "edge"
    BY <2>1, NoEventType DEF CaptureOrder
  <2> QED
    BY <2>1, <2>2, <2>3 DEF CaptureOrder, ForwardsCurrentCrossing
<1>8. CASE WarpHome
  <2>1. /\ pc' = "recv" /\ ~Serving'
        /\ UNCHANGED <<flag, events, hook, sent, epoch, served>>
    BY <1>8 DEF WarpHome, Serving
  <2> QED
    BY <2>1 DEF CaptureOrder, ForwardsCurrentCrossing
<1>9. CASE MoveOverUDP \/ MoveOverTCP \/ ForwardToTarget
  <2>1. /\ Serving /\ Serving' /\ engaged'
        /\ UNCHANGED <<flag, hook, epoch, served>>
    BY <1>9 DEF MoveOverUDP, MoveOverTCP, Steer, ForwardToTarget, Write, Receive, Serving
  <2>2. PICK kinds : Receive(kinds)
    BY <1>9 DEF MoveOverUDP, MoveOverTCP, Steer, ForwardToTarget
  <2>3. Head(events).epoch = epoch /\ Head(events).epoch \in Nat
    BY <2>1, <2>2, ReceiveKeepsOrder, ReceiveType DEF Event
  <2>4. sent'.epoch = Head(events).epoch
    BY <1>9, <2>3 DEF MoveOverUDP, MoveOverTCP, ForwardToTarget, Write, MessageOf
  <2>5. served = epoch
    BY <2>1 DEF CaptureOrder
  <2> QED
    BY <2>1, <2>2, <2>3, <2>4, <2>5, ReceiveKeepsOrder
       DEF CaptureOrder, ForwardsCurrentCrossing
<1>10. CASE Written
  BY <1>10 DEF Written, sourceVars, CaptureOrder, ForwardsCurrentCrossing, Serving
<1>11. CASE Exit
  BY <1>11 DEF Exit, sourceVars, CaptureOrder, ForwardsCurrentCrossing, Serving
<1>12. CASE UNCHANGED vars
  BY <1>12 DEF vars, sourceVars, loopVars, CaptureOrder, ForwardsCurrentCrossing, Serving
<1> QED
  BY <1>1, <1>2, <1>3, <1>4, <1>5, <1>6, <1>7, <1>8, <1>9, <1>10, <1>11, <1>12
     DEF Next, HookStep, LoopStep

LEMMA InvHolds == Spec => []Inv
<1>1. Init => CaptureOrder /\ ForwardsCurrentCrossing
  <2> SUFFICES ASSUME Init PROVE CaptureOrder /\ ForwardsCurrentCrossing
    OBVIOUS
  <2>1. DOMAIN events = {}
    BY DEF Init
  <2> QED
    BY <2>1, NoEventType DEF Init, CaptureOrder, ForwardsCurrentCrossing, Serving, MessageOf
<1>2. TypeOK /\ TypeOK' /\ CaptureOrder /\ ForwardsCurrentCrossing /\ [Next]_vars
        => (CaptureOrder /\ ForwardsCurrentCrossing)'
  BY InductiveStep DEF Inv
<1> QED
  BY <1>1, <1>2, TypeCorrect, PTL DEF Spec, Inv

\* Every event behind a crossing was captured in it.
THEOREM CaptureOrdered == Spec => []CaptureOrder
  BY InvHolds, PTL DEF Inv

\* What goes to the target was captured in the crossing being served.
THEOREM CurrentCrossing == Spec => []ForwardsCurrentCrossing
  BY InvHolds, PTL DEF Inv

\* The loop forwards only what the hook suppresses.
THEOREM Suppressed == Spec => []SuppressedWhileServing
<1>1. Inv => SuppressedWhileServing
  BY DEF Inv, CaptureOrder, SuppressedWhileServing
<1> QED
  BY <1>1, InvHolds, PTL

\* No two crossings are between the hook and the loop.
THEOREM OneCrossing == Spec => []OneCrossingPending
<1>1. Inv => OneCrossingPending
  <2> SUFFICES ASSUME Inv PROVE OneCrossingPending
    OBVIOUS
  <2> USE DEF Inv
  <2>1. \A i, j \in DOMAIN events : i < j \/ j < i \/ i = j
    BY DEF TypeOK
  <2>2. hook.kind = "edge" => hook # NoEvent
    BY NoEventType
  <2> QED
    BY <2>1, <2>2 DEF CaptureOrder, OneCrossingPending, CrossingPending, CrossingQueued
<1> QED
  BY <1>1, InvHolds, PTL

\* Nothing is sent to the target while local input is not suppressed.
THEOREM QuietAfterRelease == Spec => NothingAfterRelease
<1>1. Inv /\ [Next]_vars => [sent' # sent => flag]_vars
  <2> SUFFICES ASSUME Inv, Next, sent' # sent PROVE flag
    OBVIOUS
  <2>1. CASE Engage
    <3>1. Receive({"edge"}) /\ Head(events).kind = "edge"
      BY <2>1 DEF Engage, Receive
    <3> QED
      BY <3>1, ReceiveKeepsOrder DEF Inv
  <2>2. CASE MoveOverUDP \/ MoveOverTCP \/ ForwardToTarget
    <3>1. Serving
      BY <2>2 DEF MoveOverUDP, MoveOverTCP, Steer, ForwardToTarget, Receive, Serving
    <3> QED
      BY <3>1 DEF Inv, CaptureOrder
  <2> QED
    BY <2>1, <2>2
       DEF Next, HookStep, LoopStep, MouseMoveLocal, MouseMoveCross, RawInput,
           ForwardInput, PressHotkey, Send, Ignore, Release, WarpHome, StartTransfer,
           Written, Exit, loopVars, sourceVars
<1> QED
  BY <1>1, InvHolds, PTL DEF Spec, NothingAfterRelease

----------------------------------------------------------------------------
\* Edge switching implements Handover.

\* The modes in which a crossing can, and cannot, be pending.
LEMMA ModeCases ==
  ASSUME Inv
  PROVE  /\ Serving => Running /\ ~CrossingPending /\ flag /\ mode = "remote"
         /\ ~Serving /\ Running /\ CrossingPending => flag /\ mode = "entering"
         /\ ~Serving /\ Running /\ ~CrossingPending /\ flag => mode = "lost"
         /\ ~Serving /\ Running /\ ~flag /\ engaged => mode = "leaving"
         /\ ~Serving /\ Running /\ ~flag /\ ~engaged => mode = "local"
         /\ ~Running => mode = "gone"
  BY NoEventType
     DEF Inv, mode, Serving, Running, CaptureOrder, CrossingPending, CrossingQueued

\* Taking another event from the channel leaves the pending crossing there.
LEMMA ReceiveKeepsCrossing ==
  ASSUME TypeOK, NEW kinds, Receive(kinds), Head(events).kind # "edge"
  PROVE  CrossingQueued' <=> CrossingQueued
<1>1. CrossingQueued' => CrossingQueued
  BY ReceiveType DEF CrossingQueued
<1>2. ASSUME NEW i \in DOMAIN events, events[i].kind = "edge"
      PROVE  CrossingQueued'
  <2>1. i # 1
    BY <1>2, ReceiveType
  <2>2. i - 1 \in DOMAIN events' /\ (i - 1) + 1 = i
    BY <2>1, ReceiveType DEF TypeOK
  <2>3. events'[i - 1].kind = "edge"
    BY <1>2, <2>2, ReceiveType
  <2> QED
    BY <2>2, <2>3 DEF CrossingQueued
<1> QED
  BY <1>1, <1>2 DEF CrossingQueued

\* Every step is a step of Handover or leaves its variables alone.
LEMMA StepRefines ==
  ASSUME Inv, Inv', [Next]_vars
  PROVE  [H!Next]_(H!vars)
<1> USE DEF H!Next, H!vars
<1>0. TypeOK /\ CaptureOrder
  BY DEF Inv
<1>1. CASE MouseMoveLocal
  BY <1>1 DEF MouseMoveLocal, loopVars, mode, Serving, Running, CrossingPending, CrossingQueued
<1>2. CASE MouseMoveCross
  <2>1. /\ Running /\ ~flag /\ flag' /\ hook'.kind = "edge"
        /\ epoch' = epoch + 1 /\ UNCHANGED loopVars
    BY <1>0, <1>2, HookEventType DEF MouseMoveCross, Callback
  <2>2. mode \in {"local", "leaving"}
    BY <2>1, ModeCases
  <2>3. mode' = "entering"
    <3>1. ~Serving
      BY <2>1, ModeCases
    <3>2. ~Serving' /\ Running' /\ CrossingPending'
      BY <2>1, <3>1 DEF Serving, Running, CrossingPending, loopVars
    <3> QED
      BY <3>2 DEF mode
  <2> QED
    BY <2>1, <2>2, <2>3 DEF H!Cross, loopVars
<1>3. CASE RawInput \/ ForwardInput \/ PressHotkey
  <2>1. /\ hook.kind # "edge" /\ hook'.kind # "edge"
        /\ UNCHANGED <<flag, events, epoch, loopVars>>
    BY <1>0, <1>3, HookEventType, NoEventType
       DEF RawInput, ForwardInput, PressHotkey, Callback, InputKinds
  <2> QED
    BY <2>1 DEF mode, Serving, Running, CrossingPending, CrossingQueued, loopVars
<1>4. CASE Send
  <2>1. /\ Running /\ hook # NoEvent /\ hook \in Event
        /\ events' = sendEvent(hook) /\ hook'.kind # "edge"
        /\ UNCHANGED <<flag, epoch, loopVars>>
    BY <1>0, <1>4, NoEventType DEF Send, TypeOK
  <2>2. /\ Running' /\ (Serving' <=> Serving)
        /\ UNCHANGED <<flag, engaged, epoch, sent>>
    BY <2>1 DEF Running, Serving, loopVars
  <2>3. CrossingPending' => CrossingPending
    <3>1. CASE events' = events
      BY <2>1, <3>1 DEF CrossingPending, CrossingQueued
    <3>2. CASE /\ events' \in Seq(Event)
               /\ Len(events') = Len(events) + 1
               /\ \A i \in DOMAIN events : events'[i] = events[i]
               /\ events'[Len(events) + 1] = hook
      <4>1. \A i \in DOMAIN events' : i \in DOMAIN events \/ i = Len(events) + 1
        BY <1>0, <3>2 DEF TypeOK
      <4> QED
        BY <2>1, <3>2, <4>1 DEF CrossingPending, CrossingQueued
    <3> QED
      BY <1>0, <2>1, <3>1, <3>2, SendType
  <2>4. CASE CrossingPending' <=> CrossingPending
    BY <2>1, <2>2, <2>4 DEF mode
  <2>5. CASE CrossingPending /\ ~CrossingPending'
    <3>1. ~Serving /\ mode = "entering" /\ flag
      BY <2>1, <2>5, ModeCases
    <3>2. mode' = "lost"
      BY <2>2, <2>5, <3>1 DEF mode
    <3> QED
      BY <2>2, <3>1, <3>2 DEF H!Lose
  <2> QED
    BY <2>3, <2>4, <2>5
<1>5. CASE Engage
  <2>1. /\ Receive({"edge"}) /\ pc = "recv" /\ Head(events).kind = "edge"
        /\ sent' = [type |-> "engage", epoch |-> Head(events).epoch]
        /\ engaged' /\ pc' = "write" /\ epoch' = epoch
    BY <1>5 DEF Engage, Receive, Write, MessageOf
  <2>2. Head(events).epoch = epoch /\ ~Serving
    BY <1>0, <2>1, ReceiveKeepsOrder
  <2>3. CrossingPending /\ Running
    BY <1>0, <2>1, ReceiveType DEF CrossingPending, CrossingQueued, Receive, TypeOK, Running
  <2>4. mode = "entering" /\ mode' = "remote"
    BY <2>1, <2>2, <2>3 DEF mode, Serving, Running
  <2> QED
    BY <2>1, <2>2, <2>4 DEF H!Enter
<1>6. CASE Ignore \/ StartTransfer
  <2>1. PICK kinds : Receive(kinds) /\ Head(events).kind # "edge"
    BY <1>6 DEF Ignore, StartTransfer, Receive, InputKinds
  <2>2. UNCHANGED <<flag, hook, loopVars, epoch>>
    BY <1>6 DEF Ignore, StartTransfer
  <2>3. CrossingQueued' <=> CrossingQueued
    BY <1>0, <2>1, ReceiveKeepsCrossing
  <2> QED
    BY <2>2, <2>3 DEF mode, Serving, Running, CrossingPending, loopVars
<1>7. CASE Release
  <2>1. Serving /\ Running' /\ ~Serving' /\ ~flag' /\ engaged' /\ UNCHANGED <<epoch, sent>>
    BY <1>7 DEF Release, Receive, Serving, Running
  <2>2. mode = "remote" /\ mode' = "leaving"
    <3>1. mode = "remote"
      BY <2>1, ModeCases
    <3>2. ~CrossingPending'
      BY <2>1, NoEventType DEF Inv, CaptureOrder, CrossingPending, CrossingQueued
    <3> QED
      BY <2>1, <3>1, <3>2 DEF mode
  <2> QED
    BY <2>1, <2>2 DEF H!Leave
<1>8. CASE WarpHome
  <2>1. /\ Running /\ Running' /\ ~Serving /\ ~Serving' /\ engaged /\ ~engaged'
        /\ UNCHANGED <<flag, events, hook, epoch, sent>>
    BY <1>0, <1>8 DEF WarpHome, Serving, Running, CaptureOrder
  <2>2. CrossingPending' <=> CrossingPending
    BY <2>1 DEF CrossingPending, CrossingQueued
  <2>3. CASE flag \/ CrossingPending
    BY <2>1, <2>2, <2>3 DEF mode
  <2>4. CASE ~flag /\ ~CrossingPending
    <3>1. mode = "leaving" /\ mode' = "local"
      BY <2>1, <2>2, <2>4 DEF mode
    <3> QED
      BY <2>1, <3>1 DEF H!Home
  <2> QED
    BY <2>3, <2>4
<1>9. CASE MoveOverUDP \/ MoveOverTCP \/ ForwardToTarget
  <2>1. /\ Serving /\ Serving' /\ Running /\ Running' /\ epoch' = epoch
        /\ \E type \in {"move"} \cup InputKinds :
             sent' = [type |-> type, epoch |-> Head(events).epoch]
    <3>1. Serving /\ Serving' /\ Running /\ Running' /\ epoch' = epoch
      BY <1>9 DEF MoveOverUDP, MoveOverTCP, Steer, ForwardToTarget, Write, Receive,
                  Serving, Running
    <3>2. CASE MoveOverUDP \/ MoveOverTCP
      <4>1. sent' = MessageOf("move", Head(events).epoch)
        BY <3>2 DEF MoveOverUDP, MoveOverTCP, Write
      <4> QED
        BY <3>1, <4>1 DEF MessageOf
    <3>3. CASE ForwardToTarget
      <4>1. /\ Head(events).kind \in InputKinds
            /\ sent' = MessageOf(Head(events).kind, Head(events).epoch)
        BY <3>3 DEF ForwardToTarget, Receive, Write
      <4> QED
        BY <3>1, <4>1 DEF MessageOf
    <3> QED
      BY <1>9, <3>2, <3>3
  <2>2. PICK kinds : Receive(kinds)
    BY <1>9 DEF MoveOverUDP, MoveOverTCP, Steer, ForwardToTarget
  <2>3. Head(events).epoch = epoch
    BY <1>0, <2>1, <2>2, ReceiveKeepsOrder
  <2>4. mode = "remote" /\ mode' = "remote"
    BY <2>1 DEF mode
  <2> QED
    BY <2>1, <2>3, <2>4 DEF H!Forward, InputKinds
<1>10. CASE Written
  <2>1. /\ Serving /\ Serving' /\ Running /\ Running' /\ UNCHANGED <<epoch, sent>>
    BY <1>0, <1>10 DEF Written, sourceVars, Serving, Running, CaptureOrder
  <2> QED
    BY <2>1 DEF mode
<1>11. CASE Exit
  <2>1. mode # "gone" /\ mode' = "gone"
    BY <1>11 DEF Exit, Running, mode
  <2> QED
    BY <1>11, <2>1 DEF Exit, H!End
<1>12. CASE UNCHANGED vars
  BY <1>12 DEF vars, sourceVars, loopVars, mode, Serving, Running, CrossingPending,
               CrossingQueued
<1> QED
  BY <1>1, <1>2, <1>3, <1>4, <1>5, <1>6, <1>7, <1>8, <1>9, <1>10, <1>11, <1>12
     DEF Next, HookStep, LoopStep

\* Whatever the threads and the channel do, the input is with one side or on
\* its way between them, and the target gets only what was announced to it.
THEOREM Refinement == Spec => ImplementsHandover
<1>1. Init => H!Init
  <2> SUFFICES ASSUME Init PROVE H!Init
    OBVIOUS
  <2>1. ~CrossingPending
    BY NoEventType DEF Init, CrossingPending, CrossingQueued
  <2>2. Running /\ ~Serving /\ ~flag /\ ~engaged
    BY DEF Init, Running, Serving
  <2>3. mode = "local"
    BY <2>1, <2>2 DEF mode
  <2> QED
    BY <2>3 DEF Init, H!Init, MessageOf
<1>2. Inv /\ Inv' /\ [Next]_vars => [H!Next]_(H!vars)
  BY StepRefines
<1> QED
  BY <1>1, <1>2, InvHolds, PTL DEF Spec, ImplementsHandover, H!Spec

=============================================================================
