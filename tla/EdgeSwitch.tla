----------------------------- MODULE EdgeSwitch -----------------------------
(***************************************************************************)
(* Edge switching on the controller: two threads, an atomic flag and a     *)
(* bounded channel between them.                                           *)
(*                                                                         *)
(*   - the hook thread runs the Windows low-level hooks and the raw input  *)
(*     window (internal/capture/capture_windows.go).  A callback loads     *)
(*     the flag to decide whether its event is local or suppressed and     *)
(*     forwarded, then sends it; the send drops the event when the         *)
(*     channel is full, for the hook must not block.                       *)
(*   - the loop of runEdgeAware (cmd/controller/edge_windows.go) takes     *)
(*     events, writes messages to the target over a connection that may    *)
(*     block it for as long as it likes, and clears the flag (Disengage)   *)
(*     when the user pushes back through the entry edge.                   *)
(*                                                                         *)
(* The flag is loaded and stored without a lock, so the other thread runs  *)
(* between a callback's load and its send, and between Disengage's store   *)
(* and the warp that follows it.  Both gaps are steps of their own here.   *)
(***************************************************************************)
EXTENDS EdgeMath, Sequences

CONSTANTS
  Edge,      \* the -edge flag
  TargetW,   \* the size the target reported
  TargetH,
  Screen,    \* the controller's bounds
  QCap,      \* capacity of the event channel (2048 in the code)
  Deltas,    \* relative motions a mouse event can carry
  MaxCross   \* bound on the number of crossings

ASSUME EdgeAssumption == Edge \in Edges
ASSUME TargetAssumption == TargetW \in Nat \ {0} /\ TargetH \in Nat \ {0}
ASSUME ScreenAssumption == Screen \in Bounds
ASSUME QCapAssumption == QCap \in Nat \ {0}
ASSUME DeltasAssumption == Deltas \subseteq Points
ASSUME MaxCrossAssumption == MaxCross \in Nat

VARIABLES
  flag,     \* windowsSource.engaged: suppress local input
  events,   \* windowsSource.events
  hook,     \* the event the hook thread is about to send
  cursor,   \* the controller's own cursor
  pc,       \* the loop is receiving, writing to the target, or warping home
  engaged,  \* runEdgeAware's engaged
  sim,      \* vx, vy and movedAway
  udp,      \* udpMouse # nil
  home,     \* warpX, warpY of the Disengage under way
  sent,     \* the latest message put on the wire
  epoch,    \* history: crossings so far
  served    \* history: the crossing of the latest EdgeCrossedEvent received

sourceVars == <<flag, events, hook, cursor>>
loopVars == <<pc, engaged, sim, udp, home, sent, served>>
vars == <<sourceVars, loopVars, epoch>>

----------------------------------------------------------------------------
\* Events and messages.

InputKinds == {"key", "button", "wheel"}

Kinds == {"none", "edge", "move", "hotkey"} \cup InputKinds

\* An event, with only the fields of its kind populated, and (history) the
\* number of the crossing it was captured in.
Event == [kind : Kinds, delta : Points, rel : RelPos, epoch : Nat]

Origin == [x |-> 0, y |-> 0]

Zero == [n |-> 0, d |-> 1]

EventOf(kind, e) == [kind |-> kind, delta |-> Origin, rel |-> Zero, epoch |-> e]

NoEvent == EventOf("none", 0)

Message == [type : {"none", "engage", "move"} \cup InputKinds, epoch : Nat]

MessageOf(type, e) == [type |-> type, epoch |-> e]

entryEdge == Opposite(Edge)

Running == pc # "exited"

TypeOK ==
  /\ flag \in BOOLEAN
  /\ events \in Seq(Event)
  /\ Len(events) <= QCap
  /\ hook \in Event
  /\ cursor \in Points
  /\ pc \in {"recv", "write", "warp", "exited"}
  /\ engaged \in BOOLEAN
  /\ sim \in Sims
  /\ udp \in BOOLEAN
  /\ home \in Points
  /\ sent \in Message
  /\ epoch \in Nat
  /\ served \in Nat

\* The cursor may start anywhere on the screen, and the UDP mouse channel may
\* have been set up or not.
Init ==
  /\ flag = FALSE
  /\ events = <<>>
  /\ hook = NoEvent
  /\ cursor \in [x : Screen.x..Screen.x+Screen.w-1, y : Screen.y..Screen.y+Screen.h-1]
  /\ pc = "recv"
  /\ engaged = FALSE
  /\ sim = [pos |-> Origin, away |-> FALSE]
  /\ udp \in BOOLEAN
  /\ home = Origin
  /\ sent = MessageOf("none", 0)
  /\ epoch = 0
  /\ served = 0

----------------------------------------------------------------------------
\* The hook thread: one callback at a time.  A callback that finds the flag
\* clear and has nothing to announce changes nothing and is not a step.

Callback == Running /\ hook = NoEvent

\* mouseProc, a move while disengaged: the cursor follows it, stopped by the
\* edges of the screen.
MouseMoveLocal ==
  /\ Callback
  /\ ~flag
  /\ \E m \in Deltas :
       LET pt == Moved(cursor, m)
       IN  /\ ~edgeCrossed(Edge, Screen, pt)
           /\ cursor' = [x |-> clampI(pt.x, Screen.x, Screen.x + Screen.w - 1),
                         y |-> clampI(pt.y, Screen.y, Screen.y + Screen.h - 1)]
  /\ UNCHANGED <<flag, events, hook, loopVars, epoch>>

\* Mutant of MouseMoveCross: the crossing is announced but suppression is left
\* to the loop.
MouseMoveCrossUnmarked ==
  /\ Callback
  /\ ~flag
  /\ epoch < MaxCross
  /\ \E m \in Deltas :
       LET pt == Moved(cursor, m)
       IN  /\ edgeCrossed(Edge, Screen, pt)
           /\ hook' = [EventOf("edge", epoch + 1)
                         EXCEPT !.rel = crossRelPos(Edge, Screen, pt)]
  /\ epoch' = epoch + 1
  /\ UNCHANGED <<flag, events, cursor, loopVars>>

\* mouseProc, a move that reaches the edge: suppression starts, then the
\* crossing is to be sent.  The move itself is swallowed.
MouseMoveCross ==
  /\ Callback
  /\ ~flag
  /\ epoch < MaxCross
  /\ \E m \in Deltas :
       LET pt == Moved(cursor, m)
       IN  /\ edgeCrossed(Edge, Screen, pt)
           /\ hook' = [EventOf("edge", epoch + 1)
                         EXCEPT !.rel = crossRelPos(Edge, Screen, pt)]
  /\ flag' = TRUE
  /\ epoch' = epoch + 1
  /\ UNCHANGED <<events, cursor, loopVars>>

\* handleRawInput: a motion of the mouse, while engaged.
RawInput ==
  /\ Callback
  /\ flag
  /\ \E m \in Deltas \ {Origin} :
       hook' = [EventOf("move", epoch) EXCEPT !.delta = m]
  /\ UNCHANGED <<flag, events, cursor, loopVars, epoch>>

\* keyboardProc and mouseProc: any other input, while engaged.
ForwardInput ==
  /\ Callback
  /\ flag
  /\ \E kind \in InputKinds : hook' = EventOf(kind, epoch)
  /\ UNCHANGED <<flag, events, cursor, loopVars, epoch>>

\* keyboardProc: Ctrl+Alt+V is announced whether engaged or not.
PressHotkey ==
  /\ Callback
  /\ hook' = EventOf("hotkey", epoch)
  /\ UNCHANGED <<flag, events, cursor, loopVars, epoch>>

\* Mutant of sendEvent: a crossing is urgent and goes first.
sendEventFirst(e) ==
  IF Len(events) >= QCap THEN events
  ELSE IF e.kind = "edge" THEN <<e>> \o events ELSE Append(events, e)

\* The channel after sending e: dropped when there is no room.
sendEvent(e) == IF Len(events) < QCap THEN Append(events, e) ELSE events

\* The end of the callback.
Send ==
  /\ Running
  /\ hook # NoEvent
  /\ events' = sendEvent(hook)
  /\ hook' = NoEvent
  /\ UNCHANGED <<flag, cursor, loopVars, epoch>>

----------------------------------------------------------------------------
\* The loop: one event at a time.

Receive(kinds) ==
  /\ pc = "recv"
  /\ events # <<>>
  /\ Head(events).kind \in kinds
  /\ events' = Tail(events)

\* Put a message for the target on the wire and wait for the write.
Write(type, e) ==
  /\ pc' = "write"
  /\ sent' = MessageOf(type, e)

\* EdgeCrossedEvent: engage the target.
Engage ==
  /\ Receive({"edge"})
  /\ engaged' = TRUE
  /\ served' = Head(events).epoch
  /\ \E p \in entryPosition(entryEdge, Head(events).rel, TargetW, TargetH) :
       sim' = [pos |-> p, away |-> FALSE]
  /\ Write("engage", Head(events).epoch)
  /\ UNCHANGED <<flag, hook, cursor, udp, home, epoch>>

\* Input that was captured before the last release is not forwarded.
Ignore ==
  /\ Receive({"move"} \cup InputKinds)
  /\ ~engaged
  /\ UNCHANGED <<flag, hook, cursor, loopVars, epoch>>

\* Mutant of Release: Disengage warps the cursor without clearing the flag.
ReleaseStillSuppressing ==
  /\ Receive({"move"})
  /\ engaged
  /\ Releases(entryEdge, sim, Head(events).delta, TargetW, TargetH)
  /\ home' \in ReleaseWarps(Edge, sim, Head(events).delta, TargetW, TargetH, Screen)
  /\ pc' = "warp"
  /\ UNCHANGED <<flag, hook, cursor, engaged, sim, udp, sent, epoch, served>>

\* MouseMoveEvent back through the entry edge.  Disengage first ends the
\* suppression ...
Release ==
  /\ Receive({"move"})
  /\ engaged
  /\ Releases(entryEdge, sim, Head(events).delta, TargetW, TargetH)
  /\ home' \in ReleaseWarps(Edge, sim, Head(events).delta, TargetW, TargetH, Screen)
  /\ flag' = FALSE
  /\ pc' = "warp"
  /\ UNCHANGED <<hook, cursor, engaged, sim, udp, sent, epoch, served>>

\* Mutant of WarpHome: the loop forgets to reset engaged.
WarpHomeStillEngaged ==
  /\ pc = "warp"
  /\ cursor' \in {home, cursor}
  /\ home' = Origin
  /\ pc' = "recv"
  /\ UNCHANGED <<flag, events, hook, engaged, sim, udp, sent, epoch, served>>

\* Mutant of WarpHome: the stale events are discarded with all the others.
WarpHomeDraining ==
  /\ pc = "warp"
  /\ cursor' \in {home, cursor}
  /\ home' = Origin
  /\ engaged' = FALSE
  /\ events' = <<>>
  /\ pc' = "recv"
  /\ UNCHANGED <<flag, hook, sim, udp, sent, epoch, served>>

\* ... and then warps the cursor, after which the loop forwards no more.  A
\* warp that fails is logged and changes nothing else.
WarpHome ==
  /\ pc = "warp"
  /\ cursor' \in {home, cursor}
  /\ home' = Origin
  /\ engaged' = FALSE
  /\ pc' = "recv"
  /\ UNCHANGED <<flag, events, hook, sim, udp, sent, epoch, served>>

\* Any other MouseMoveEvent moves the simulated cursor ...
Steer ==
  /\ Receive({"move"})
  /\ engaged
  /\ ~Releases(entryEdge, sim, Head(events).delta, TargetW, TargetH)
  /\ sim' = Steered(entryEdge, sim, Head(events).delta, TargetW, TargetH)
  /\ UNCHANGED <<flag, hook, cursor, engaged, home, epoch, served>>

\* ... and goes to the target as a position in a datagram, which never blocks,
\* or as a delta on the connection if there is no UDP channel or its send fails;
\* after a failure the channel is closed for good.
MoveOverUDP ==
  /\ Steer
  /\ udp
  /\ sent' = MessageOf("move", Head(events).epoch)
  /\ UNCHANGED <<pc, udp>>

MoveOverTCP ==
  /\ Steer
  /\ udp' = FALSE
  /\ Write("move", Head(events).epoch)

\* Mutant of ForwardToTarget: input is forwarded engaged or not.
ForwardToTargetAlways ==
  /\ Receive(InputKinds)
  /\ Write(Head(events).kind, Head(events).epoch)
  /\ UNCHANGED <<flag, hook, cursor, engaged, sim, udp, home, epoch, served>>

\* KeyEvent, MouseButtonEvent, MouseWheelEvent.
ForwardToTarget ==
  /\ Receive(InputKinds)
  /\ engaged
  /\ Write(Head(events).kind, Head(events).epoch)
  /\ UNCHANGED <<flag, hook, cursor, engaged, sim, udp, home, epoch, served>>

\* HotkeyPasteEvent: the transfer runs in a goroutine of its own.
StartTransfer ==
  /\ Receive({"hotkey"})
  /\ UNCHANGED <<flag, hook, cursor, loopVars, epoch>>

\* The write returns.
Written ==
  /\ pc = "write"
  /\ pc' = "recv"
  /\ UNCHANGED <<sourceVars, engaged, sim, udp, home, sent, epoch, served>>

\* The write fails, runEdgeAware returns and main exits; or the user
\* interrupts the process.  The hooks go with it.
Exit ==
  /\ Running
  /\ pc' = "exited"
  /\ UNCHANGED <<sourceVars, engaged, sim, udp, home, sent, epoch, served>>

----------------------------------------------------------------------------

HookStep ==
  \/ MouseMoveLocal \/ MouseMoveCross \/ RawInput \/ ForwardInput
  \/ PressHotkey \/ Send

LoopStep ==
  \/ Engage \/ Ignore \/ Release \/ WarpHome \/ MoveOverUDP \/ MoveOverTCP
  \/ ForwardToTarget \/ StartTransfer \/ Written

Next == HookStep \/ LoopStep \/ Exit

Spec == Init /\ [][Next]_vars

\* The scheduler runs both threads, and a write to a peer that stays
\* connected returns.  Nothing obliges the user to touch anything.
Fairness == WF_vars(LoopStep) /\ WF_vars(Send)

FairSpec == Spec /\ Fairness

----------------------------------------------------------------------------
\* What the two threads keep between them.

\* The loop is forwarding: it has engaged and not begun to release.
Serving == engaged /\ pc \in {"recv", "write"}

\* A crossing is on its way from the hook to the loop.
CrossingQueued == \E i \in DOMAIN events : events[i].kind = "edge"

CrossingPending == CrossingQueued \/ hook.kind = "edge"

\* While the loop forwards to the target, the hook withholds the same input
\* from the controller's own applications, and the crossing being served is
\* the latest one: no keystroke acts on both machines, whatever the hook did
\* between a Disengage's store, its warp and the loop's own engaged = false.
SuppressedWhileServing == Serving => flag /\ served = epoch

\* There is at most one crossing between the hook and the loop, it is the
\* latest, the source is suppressing for it, and the loop is not serving
\* another: an EdgeCrossedEvent always means engaging anew (capture.go:16).
OneCrossingPending ==
  /\ \A i \in DOMAIN events :
       events[i].kind = "edge" =>
         /\ events[i].epoch = epoch
         /\ \A j \in DOMAIN events : events[j].kind = "edge" => i = j
  /\ hook.kind = "edge" => hook.epoch = epoch /\ ~CrossingQueued
  /\ CrossingPending => flag /\ ~Serving

\* What goes to the target was captured in the crossing the target was last
\* engaged for: events that were still in the channel at a release never
\* reach it, not even after the next crossing.
ForwardsCurrentCrossing == sent.epoch = served

\* Nothing more is put on the wire for the target once Disengage has given
\* the input back to the controller, until the next crossing.
NothingAfterRelease == [][sent' # sent => flag]_vars

\* Why they hold.  A callback that loaded the flag before a release sends its
\* event after it, but always before the next crossing; so whatever is behind
\* a crossing, and all there is while the loop serves one, was captured in it.
CaptureOrder ==
  /\ pc \in {"write", "warp"} => engaged
  /\ Serving =>
       /\ flag
       /\ served = epoch
       /\ \A i \in DOMAIN events : events[i].kind # "edge" /\ events[i].epoch = epoch
       /\ hook # NoEvent => hook.kind # "edge" /\ hook.epoch = epoch
  /\ \A i \in DOMAIN events :
       events[i].kind = "edge" =>
         /\ flag
         /\ events[i].epoch = epoch
         /\ \A j \in DOMAIN events :
              i < j => events[j].kind # "edge" /\ events[j].epoch = epoch
         /\ hook # NoEvent => hook.kind # "edge" /\ hook.epoch = epoch
  /\ hook.kind = "edge" => flag /\ hook.epoch = epoch

\* Edge switching keeps the promise of Handover.
mode ==
  IF ~Running THEN "gone"
  ELSE IF Serving THEN "remote"
  ELSE IF CrossingPending THEN "entering"
  ELSE IF flag THEN "lost"
  ELSE IF engaged THEN "leaving"
  ELSE "local"

H == INSTANCE Handover WITH crossing <- epoch

ImplementsHandover == H!Spec

\* A crossing that got into the channel is served, however much input is in
\* front of it and however often the target makes the loop wait.
CrossingServed == CrossingQueued ~> Serving \/ ~Running

=============================================================================
