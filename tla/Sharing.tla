------------------------------- MODULE Sharing -------------------------------
(***************************************************************************)
(* Keys from the hand to the target: how the keys that the controller's    *)
(* user holds and those that the target takes to be down stay in step.     *)
(*                                                                         *)
(* A session is one of two kinds.  In the legacy kind (runLegacy in        *)
(* cmd/controller/main.go, on Linux) each input device has a goroutine     *)
(* that reads it (readLoop in internal/capture/capture_linux.go) and all   *)
(* of them send to one channel, which drops events when it is full.  In    *)
(* the edge kind (runEdgeAware) one hook feeds the channel; the target is  *)
(* being controlled all the time here, for EdgeSwitch and KeyboardHook     *)
(* model the rest.  The loop writes each event to the connection, the      *)
(* target (handleConn and dispatch in cmd/target/main.go) injects it, and, *)
(* in an edge session, so does a goroutine of the target that pastes       *)
(* (injectPaste in cmd/target/clipboard_windows.go).                       *)
(*                                                                         *)
(* Mouse buttons are keys here; motion and the wheel are left out.         *)
(***************************************************************************)
EXTENDS Integers, Sequences

CONSTANTS
  Devices,      \* the controller's input devices ...
  Hook,         \* ... one of which is the hook of the edge kind
  KeysOf,       \* the keys that each device has
  ModifierKeys, \* those that injectPaste releases, in order
  Ctrl, V,      \* ControlLeft and V
  NoKey,
  MaxUnread,    \* bound: events of a device that nobody has read
  MaxEvents,    \* capacity of the channel
  MaxWire       \* bound: messages that the connection's buffers hold

Modifiers == {ModifierKeys[i] : i \in DOMAIN ModifierKeys}
Keys == (UNION {KeysOf[d] : d \in Devices}) \cup Modifiers \cup {Ctrl, V}

ASSUME DevicesAssumption == Hook \in Devices /\ KeysOf \in [Devices -> SUBSET Keys]
ASSUME ModifiersAssumption ==
  /\ ModifierKeys \in Seq(Keys)
  /\ Ctrl \in Modifiers /\ V \notin Modifiers
  /\ NoKey \notin Keys
ASSUME BoundsAssumption == {MaxUnread, MaxEvents, MaxWire} \subseteq Nat \ {0}

VARIABLES
  physical, \* the keys that are held on each device, while it is open
  kind,     \* "legacy" or "edge", of the latest session
  ctl,      \* the controller: "off", "running", or "stopping" on a signal
  open,     \* the devices that it has opened and not lost
  unread,   \* their events that it has not read
  events,   \* the channel
  link,     \* the connection: "up", "closed" by the controller, or "cut"
  wire,     \* messages on it
  serving,  \* handleConn is in its loop
  down,     \* the keys that the target takes to be down
  paste,    \* the next step of injectPaste, or 0
  disturbed, \* history: keys of this paste were injected by dispatch, or refused
  stuck,    \* history: keys whose release was lost on the way
  freed     \* history: held keys whose press was lost, or overtaken by a release

source == <<open, unread, events>>
target == <<serving, down>>
pasting == <<paste, disturbed>>
history == <<stuck, freed>>
vars == <<physical, kind, ctl, source, link, wire, target, pasting, history>>

Event == [key : Keys, down : BOOLEAN]
KeyEvent(k, isDown) == [key |-> k, down |-> isDown]
Ping == [key |-> NoKey, down |-> FALSE]

\* injectPaste: the modifiers go up, and Ctrl and V down and up.
ReleaseModifiers == [i \in DOMAIN ModifierKeys |-> KeyEvent(ModifierKeys[i], FALSE)]
PressPaste ==
  <<KeyEvent(Ctrl, TRUE), KeyEvent(V, TRUE), KeyEvent(V, FALSE), KeyEvent(Ctrl, FALSE)>>

\* Mutant of PasteScript: the modifiers stay as they are.
PasteScriptHeld == PressPaste
PasteScript == ReleaseModifiers \o PressPaste

TypeOK ==
  /\ physical \in [Devices -> SUBSET Keys]
  /\ kind \in {"legacy", "edge"}
  /\ ctl \in {"off", "running", "stopping"}
  /\ open \subseteq Devices
  /\ unread \in [Devices -> Seq(Event)]
  /\ events \in Seq(Event) /\ Len(events) <= MaxEvents
  /\ link \in {"up", "closed", "cut"}
  /\ wire \in Seq(Event \cup {Ping}) /\ Len(wire) <= MaxWire
  /\ serving \in BOOLEAN
  /\ down \subseteq Keys
  /\ paste \in 0 .. Len(PasteScript)
  /\ disturbed \in BOOLEAN
  /\ stuck \subseteq Keys /\ freed \subseteq Keys

Nothing == [d \in Devices |-> <<>>]

Init ==
  /\ physical = [d \in Devices |-> {}]
  /\ kind = "legacy"
  /\ ctl = "off"
  /\ open = {}
  /\ unread = Nothing
  /\ events = <<>>
  /\ link = "closed"
  /\ wire = <<>>
  /\ serving = FALSE
  /\ down = {}
  /\ paste = 0
  /\ disturbed = FALSE
  /\ stuck = {}
  /\ freed = {}

Mentions(queue, k) == \E i \in DOMAIN queue : queue[i].key = k

Held == UNION {physical[d] : d \in Devices}

\* The keys whose state the channel may not have been told.
Untold == Held \cup {k \in Keys : \E d \in open : Mentions(unread[d], k)}

\* The same key is, or has just been, used on another device.
Elsewhere(d, k) ==
  \E e \in open \ {d} : k \in physical[e] \/ Mentions(unread[e], k)

----------------------------------------------------------------------------
\* The controller's devices.

\* A key goes down or up.
Strike(d, k) ==
  /\ d \in open
  /\ Len(unread[d]) < MaxUnread
  /\ physical' = [physical EXCEPT ![d] = IF k \in @ THEN @ \ {k} ELSE @ \cup {k}]
  /\ unread' = [unread EXCEPT ![d] = Append(@, KeyEvent(k, k \notin physical[d]))]
  /\ freed' = freed \cap Held'
  /\ UNCHANGED <<kind, ctl, open, events, link, wire, target, pasting, stuck>>

\* An event is lost on its way to the target.
Lose(e) ==
  /\ stuck' = IF e.down THEN stuck ELSE stuck \cup {e.key}
  /\ freed' = IF e.down THEN freed \cup (Held \cap {e.key}) ELSE freed

\* Mutant of Send: the channel has no capacity.
SendUnbounded(d, e) ==
  /\ events' = Append(events, e)
  /\ stuck' = IF link = "up" THEN stuck \ {e.key} ELSE stuck
  /\ freed' = IF link = "up" /\ ~Elsewhere(d, e.key)
              THEN freed \ {e.key} ELSE freed \cup (Held \cap {e.key})

\* sendEvent drops the event when the channel is full.  One that is sent mends
\* the key, unless another device has it, too.
Send(d, e) ==
  \/ /\ Len(events) < MaxEvents
     /\ events' = Append(events, e)
     /\ stuck' = IF link = "up" THEN stuck \ {e.key} ELSE stuck
     /\ freed' = IF link = "up" /\ ~Elsewhere(d, e.key)
                 THEN freed \ {e.key} ELSE freed \cup (Held \cap {e.key})
  \/ /\ Len(events) = MaxEvents
     /\ Lose(e)
     /\ UNCHANGED events

\* A turn of a device's reader.
ReadLoop(d) ==
  /\ d \in open
  /\ unread[d] # <<>>
  /\ unread' = [unread EXCEPT ![d] = Tail(@)]
  /\ Send(d, Head(unread[d]))
  /\ UNCHANGED <<physical, kind, ctl, open, link, wire, target, pasting>>

\* A device is unplugged, which ends its reader for good.
Unplug(d) ==
  /\ d \in open \ {Hook}
  /\ physical' = [physical EXCEPT ![d] = {}]
  /\ open' = open \ {d}
  /\ unread' = [unread EXCEPT ![d] = <<>>]
  /\ stuck' = stuck \cup physical[d] \cup {k \in Keys : Mentions(unread[d], k)}
  /\ freed' = freed \cap Held'
  /\ UNCHANGED <<kind, ctl, events, link, wire, target, pasting>>

----------------------------------------------------------------------------
\* The controller's process.

\* It has connected and opens the devices that it may; what is held by then it
\* does not know.
Connect(devices) ==
  /\ ctl = "off" /\ ~serving
  /\ devices # {}
  /\ kind' = IF Hook \in devices THEN "edge" ELSE "legacy"
  /\ Hook \in devices => devices = {Hook}
  /\ ctl' = "running"
  /\ open' = devices
  /\ link' = "up"
  /\ serving' = TRUE
  /\ \E held \in [devices -> SUBSET Keys] :
       /\ \A d \in devices : held[d] \subseteq KeysOf[d]
       /\ physical' = [d \in Devices |-> IF d \in devices THEN held[d] ELSE {}]
  /\ freed' = Held'
  /\ UNCHANGED <<unread, events, wire, down, pasting, stuck>>

\* A write returns when the buffers take the message, even if the network is
\* gone.
Write(m) ==
  /\ Len(wire) < MaxWire
  /\ wire' = Append(wire, m)

Forward ==
  /\ ctl # "off"
  /\ events # <<>>
  /\ Write(Head(events))
  /\ events' = Tail(events)
  /\ UNCHANGED <<physical, kind, ctl, open, unread, link, target, pasting, history>>

\* The legacy loop's ticker.
SendPing ==
  /\ ctl # "off" /\ kind = "legacy"
  /\ Write(Ping)
  /\ UNCHANGED <<physical, kind, ctl, source, link, target, pasting, history>>

\* The process ends.  What it has written is still delivered, unless the network
\* is gone.
End ==
  /\ ctl' = "off"
  /\ open' = {}
  /\ physical' = [d \in Devices |-> {}]
  /\ unread' = Nothing
  /\ events' = <<>>
  /\ link' = IF link = "up" THEN "closed" ELSE link
  /\ wire' = IF link = "up" THEN wire ELSE <<>>
  /\ stuck' = stuck \cup Untold \cup {k \in Keys : Mentions(events, k)}
  /\ freed' = {}
  /\ UNCHANGED <<kind, target, pasting>>

\* Mutant of Fatal: a failed write is logged and the loop goes on.
FatalLogged ==
  /\ ctl # "off"
  /\ open = {} /\ events = <<>>
  /\ End

\* log.Fatal, on a write that fails or on a channel that the readers have closed.
Fatal ==
  /\ ctl # "off"
  /\ \/ link = "cut" /\ (events # <<>> \/ kind = "legacy")
     \/ open = {} /\ events = <<>>
  /\ End

\* Ctrl+C or SIGTERM: first the devices are closed ...
Stop ==
  /\ ctl = "running"
  /\ ctl' = "stopping"
  /\ open' = {}
  /\ physical' = [d \in Devices |-> {}]
  /\ unread' = Nothing
  /\ stuck' = stuck \cup Untold
  /\ freed' = {}
  /\ UNCHANGED <<kind, events, link, wire, target, pasting>>

\* ... and then the connection, and the process exits, as it does when the tray
\* kills it.
Exit == ctl # "off" /\ End

\* The network goes away, with all that is on it.
Cut ==
  /\ link # "cut" /\ serving
  /\ link' = "cut"
  /\ wire' = <<>>
  /\ stuck' = stuck \cup down
  /\ freed' = {}
  /\ UNCHANGED <<physical, kind, ctl, source, target, pasting>>

----------------------------------------------------------------------------
\* The target.

\* SendInput or a write to uinput, which can be refused.
Inject(e) ==
  \/ /\ down' = IF e.down THEN down \cup {e.key} ELSE down \ {e.key}
     /\ UNCHANGED history
  \/ /\ UNCHANGED down
     /\ Lose(e)

Receive ==
  /\ serving
  /\ link # "cut"
  /\ wire # <<>>
  /\ wire' = Tail(wire)

DispatchKey ==
  /\ Receive
  /\ Head(wire) # Ping
  /\ Inject(Head(wire))
  /\ disturbed' = (disturbed \/ (paste # 0 /\ Head(wire).key \in Modifiers \cup {V}))
  /\ UNCHANGED <<physical, kind, ctl, source, link, serving, paste>>

DispatchPing ==
  /\ Receive
  /\ Head(wire) = Ping
  /\ UNCHANGED <<physical, kind, ctl, source, link, target, pasting, history>>

\* Mutant of Return: the handler ends with the controller.
ReturnEarly ==
  /\ serving
  /\ link # "up"
  /\ wire' = <<>>
  /\ serving' = FALSE
  /\ stuck' = stuck \cap down
  /\ UNCHANGED <<physical, kind, ctl, source, link, down, pasting, freed>>

\* handleConn's read fails: at the end of what the controller has written, or by
\* the keepalive of the connection.  It releases no key.
Return ==
  /\ serving
  /\ (link = "closed" /\ wire = <<>>) \/ link = "cut"
  /\ serving' = FALSE
  /\ stuck' = stuck \cap down
  /\ UNCHANGED <<physical, kind, ctl, source, link, wire, down, pasting, freed>>

\* Content has come over the clipboard channel, which can outlive the session.
BeginPaste ==
  /\ kind = "edge"
  /\ paste = 0
  /\ paste' = 1
  /\ UNCHANGED <<physical, kind, ctl, source, link, wire, target, disturbed, history>>

\* A step of injectPaste, which does not look at errors.
PasteStep ==
  /\ paste # 0
  /\ LET e == PasteScript[paste]
         last == paste = Len(PasteScript)
     IN /\ \/ /\ down' = IF e.down THEN down \cup {e.key} ELSE down \ {e.key}
              /\ freed' = IF e.down THEN freed ELSE freed \cup (Held \cap {e.key})
              /\ disturbed' = (disturbed /\ ~last)
              /\ UNCHANGED stuck
           \/ UNCHANGED down /\ Lose(e) /\ disturbed' = ~last
        /\ paste' = IF last THEN 0 ELSE paste + 1
  /\ UNCHANGED <<physical, kind, ctl, source, link, wire, serving>>

----------------------------------------------------------------------------

Loop == Forward \/ SendPing \/ Fatal
Process == Loop \/ Stop \/ Exit
Target == DispatchKey \/ DispatchPing \/ Return \/ BeginPaste \/ PasteStep

Next ==
  \/ \E d \in Devices :
       \/ \E k \in KeysOf[d] : Strike(d, k)
       \/ ReadLoop(d) \/ Unplug(d)
  \/ \E devices \in SUBSET Devices : Connect(devices)
  \/ Process
  \/ Cut
  \/ Target

Spec == Init /\ [][Next]_vars

\* The loop's ticker ticks for as long as the process lives.
FairSpec == Spec /\ WF_vars(Loop)

----------------------------------------------------------------------------
\* Nothing is under way.
Quiet ==
  /\ \A d \in open : unread[d] = <<>>
  /\ events = <<>> /\ wire = <<>>
  /\ paste = 0

\* Once all is delivered the target takes those keys to be down that are held
\* on the devices, also after the session: none sticks unless its release was
\* lost, to a full channel, a refused injection, an unplugged device, a broken
\* network or the end of the session while it was held; and none is missing,
\* unless its press was lost or an event in between released it.  What a session
\* had written by its end is still delivered.
KeysAgree ==
  Quiet =>
    /\ down \subseteq Held \cup stuck
    /\ link = "up" => Held \subseteq down \cup freed

\* When injectPaste presses V the target sees Ctrl+V and no other modifier
\* (clipboard_windows.go:125-130), although the user still holds those of the
\* hotkey, unless events of the user's came in between.
PasteLands ==
  paste # 0 /\ ~disturbed /\ PasteScript[paste] = KeyEvent(V, TRUE) =>
    down \cap Modifiers = {Ctrl}

\* A legacy controller notices a dead connection, since it writes a ping every
\* five seconds (main.go:145-148).  An edge controller has to have input for
\* that.
LossNoticed == link = "cut" /\ ctl # "off" /\ kind = "legacy" ~> ctl = "off"

=============================================================================
