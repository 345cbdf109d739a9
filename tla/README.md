# A TLA+ model of ea-share

ea-share (module `kbs`) lets one keyboard and mouse drive several machines: a
**controller** captures its own input and sends it to a **target**, which
injects it. With `-edge` the cursor moves between the two screens as if they
stood side by side. This directory models that program, checks the models with
TLC and proves the facts that matter most with TLAPS.

Every definition is translated from the Go source; `PROJECT.json` maps each one
to its lines. This file says what the system consists of, what is modelled and
how, what each run and each theorem shows, and what is left to do.

## 1. Inventory

| Component | State it keeps | Operations | Talks to |
|---|---|---|---|
| Edge geometry (`cmd/controller/edge_math.go`, `edgeCrossed` in `capture_windows.go`) | none | entry position, push past the edge, moved away, release position, warp position | called by the hook and the loop |
| Hook thread (`internal/capture/capture_windows.go`) | `engaged` (atomic), `ctrlHeld`, `altHeld`, `hotkeyVDown` | `mouseProc`, `keyboardProc`, `handleRawInput`, `sendEvent` | event channel (2048) to the loop |
| Controller loop (`cmd/controller/edge_windows.go`) | `engaged`, `movedAway`, `vx`, `vy`, `udpMouse` | one case per event, `Disengage` | the connection, the UDP socket, the hook's flag |
| Controller start-up, legacy loop (`cmd/controller/main.go`) | known hosts, the connection | dial, verify, authenticate; forward every event, ping every five seconds, stop on a signal | target |
| Target (`cmd/target/main.go`) | `active` connection, UDP session (`key`, `lastSeq`), the keys the system takes to be down | accept, `handleConn`, `dispatch`, `apply`, injection | controller, injected paste |
| Clipboard channel (`cmd/*/clipboard_windows.go`, `internal/clipsync`) | one connection, a mutex on each side | push, pull, reply, injected paste | second TLS connection |
| Tray (`cmd/tray/menu.go`, `process.go`) | configuration, tracked processes and their names, connection states | start, stop, toggle, `onLine`, `onExit`, reload, save token | child processes, menu goroutines |
| Profile editor (`cmd/tray/profile_editor_windows.go`) | a copy of the configuration | edit, validate, save, save and restart | tray |
| Certificates, known hosts (`internal/tlsutil`) | `cert.pem`, `key.pem`; `known_hosts.json` and the copy a controller has read | load or generate, lookup, trust | controller, target |
| Linux capture (`internal/capture/capture_linux.go`) | the open devices, a channel | a reader per device, `sendEvent`, stop | channel to the loop |
| macOS capture, screen, clipboard, keys, auth, i18n, icon | none | calls into the system, tables | |

What is hard in it:

* **Two threads and a flag.** A low-level hook must not block, so the hook
  thread and the loop share an atomic flag and a channel whose send drops. The
  flag can change between a callback's load and its send, and between
  `Disengage`'s store and the warp that follows it; events captured under one
  value of the flag are received under another.
* **Blocking writes.** The loop writes to the target synchronously; while it
  waits, the channel fills up.
* **State split over two machines.** A key goes down on one machine and up on
  the other; the target's cursor is simulated on the controller.
* **Pixels.** A position is turned into a fraction of one screen and truncated
  to the pixels of another.
* **Sessions.** One slot per listener, deadlines before authentication and none
  after it, a handshake that reads a message which may never be sent, a request
  that times out while its reply is still coming.
* **Keys are levels, events are edges.** A press and its release travel
  separately, through queues that drop, over connections that end, and beside a
  paste that presses keys of its own: whatever tears them apart leaves a key
  down.
* **Files.** Three files are rewritten in place, from copies read earlier, by
  programs that may overlap or die in between.
* **Processes.** The tray starts, kills and tracks processes from many
  goroutines, and matches their exits by name.

`PROJECT.json` lists every such hazard at its line, under `hazards`, with the
properties that cover it, or with the reason why none does.

What makes each component correct:

* geometry: what it computes lies on the screen it is for, a release does not
  cross again, a round trip returns to where it began up to truncation;
* hook and loop: input is withheld from the controller exactly while the target
  gets it, and the target gets input only of the crossing it is serving; a
  crossing is served;
* keyboard: a key that is up is up everywhere; the hotkey fires once per press
  of the chord and is never typed;
* keys on the way: when all is delivered the target and the devices agree,
  but for keys whose event was lost; a paste is Ctrl+V and nothing else;
* session: one controller at a time, a handshake that ends, a slot that is freed;
* UDP: positions of this session only, newest wins, also against a crossing;
* clipboard: a pull pastes the reply to its own request, pastes do not overlap;
* tray: at most one process of a kind, a process that runs is tracked, and none
  outlives the tray;
* files: what was trusted or saved is not lost.

## 2. Plan

In order of importance. All rows but the last are in place.

| Module | Models | Abstract specification, composition | Theorems |
|---|---|---|---|
| `EdgeMath`, `EdgeTrip` | geometry and a round trip | `EdgeTrip` composes `EdgeMath` | entry, warp, simulated cursor and the return of a round trip, for all sizes |
| `EdgeSwitch` | hook thread, channel and loop | implements `Handover`; uses `EdgeMath` | invariants, capture order, refinement |
| `KeyboardHook` | `keyboardProc`, and releases that it never sees | a flag that `EdgeSwitch` says how to flip | keys do not stick, hotkey |
| `MouseChannel` | UDP session, sequence numbers, an unreliable network, sessions that follow one another | implements `LatestPosition`, newest position wins | key follows the slot, refinement |
| `ClipboardSync` | push, pull, timeout, late reply, failing reads, one connection that may break | | own reply, and no crossing writes, unless one was late |
| `Session` | both accept loops, authentication, clipboard connection, handshake, peers that vanish, restarts | | one controller at a time, who is served, no read without its message |
| `Tray` | process supervision, `onLine`, `onExit`, quitting | | one supervised process, what is shown |
| `ProfileEditor` | the window, the configuration in memory and on disk, with shared slices | | edits kept, nothing before a save, what a restart finds |
| `Sharing` | keys from several devices through the channel and the connection to the injector, beside the paste, over sessions of both kinds | the controller, the target and the paste in one | agreement, the paste's Ctrl+V |
| `TrustStore` | known hosts and certificate files, crashes, overlapping starts and runs | the target's files and the controllers' in one | pins kept, alarms justified |
| `Controller` | `Session` and `EdgeSwitch` in one, for a connection that dies while nothing is sent | `Handover` | |

Every invariant, action property and refinement that a run checks is proved.
Left to write: `Controller`. Left to prove with it: that edge switching within a
session keeps to `Handover`. Left to state: what serialising the starts of
processes would give the tray (its two conditions drop), and what taking back a
late request would give the clipboard, as variants of these modules.

## 3. Modules

### EdgeMath

Pure operators with the names of the Go functions. A `relPos`, a `float64` in
[0, 1], is the exact fraction it was computed from; `Offsets` is the set of
integers that `int32(relPos * float64(len))` can be, the truncated product or,
where float rounding can fall just below an integer, one less. Positions are
therefore sets and the actions choose from them. Integers are unbounded: the
sums `vx + DX` do not reach 2^31 with the deltas a mouse reports.

### EdgeTrip

One trip to the target and back, for all four edges and many sizes, with
nothing running beside it: `Cross` (the `EdgeCrossedEvent` case of
`runEdgeAware`), `Steer` and `Release` (the `MouseMoveEvent` case) and `Again`,
which begins another trip. `cross`, `entry` and `exit` are history variables
for `ReturnsNearby`, `strayed` is one for `LatchHolds`: whether the cursor has
been off its entry edge, which `movedAway` of the code is to remember.

### EdgeSwitch and Handover

`EdgeSwitch` is the hook thread and the loop.

| Model | Code |
|---|---|
| `flag` | `windowsSource.engaged` |
| `events`, `QCap` | the channel of 2048 events, and its capacity |
| `hook` | the event a callback has decided to send: the flag may change before `Send` |
| `pc = "write"` | the loop waits in `WriteMessage`; `Written` ends it, `Exit` is its failure |
| `pc = "warp"` | `Disengage` between `Store(false)` and the end of `SetCursorPos` |
| `engaged`, `sim`, `udp` | the loop's `engaged`; `vx`, `vy`, `movedAway`; `udpMouse != nil` |
| `sent` | the latest message on the wire |
| `epoch`, `served`, and `epoch` in events and messages | history: which crossing something belongs to |

Hook actions: `MouseMoveLocal`, `MouseMoveCross` (`mouseProc`), `RawInput`
(`handleRawInput`), `ForwardInput` (keys, buttons, wheel), `PressHotkey`, and
`Send`, which drops when the channel is full. A callback that neither sends nor
moves anything is not a step. Loop actions: `Engage`, `Ignore`, `Release`,
`WarpHome`, `MoveOverUDP`, `MoveOverTCP`, `ForwardToTarget`, `StartTransfer`,
`Written`, and `Exit` for an error or an interrupt. The content of keys, buttons
and wheel events is abstracted to their kind.

`Handover` is what edge switching promises with no threads and no queue: the
input is local, on its way to the target, with it, on its way back, or lost, and
everything sent carries the number of the current crossing. `EdgeSwitch`
implements it under the mapping `mode`, in which a crossing that overtakes the
end of a release moves the input from *leaving* to *entering* at once, and in
which a dropped crossing is the visible step `Lose`.

### KeyboardHook

`keyboardProc` alone, with a keyboard around it: several keys down at once, the
latest one repeating, and a `Handover` at any time. `local` and `remote` are the
keys that the controller's applications and the event channel have been told
are down. `torn` records the keys whose press and release were torn apart, and
by what: held during a handover, dropped by a full channel, or the leak of the
hotkey's V (`Leaks`), or released on the secure desktop; an event after which a
key is up everywhere mends it. `ReleaseUnseen` is that release: the user's,
while Ctrl+Alt+Del or the lock screen has the keyboard, of which the callback
learns nothing. `unseen` remembers such keys, and the properties of the hotkey
say that nothing else makes `ctrlHeld`, `altHeld` or `hotkeyVDown` wrong.
The callback is one step: it runs on one thread, and an interleaved change of
the flag is the `Handover` before or after it.

### MouseChannel and LatestPosition

The target's accept loop, `handleConn` and the reader of the UDP socket, any
number of controllers one after the other, and the network between them.

| Model | Code |
|---|---|
| `active`, `phase` | `main`'s `active`, and where `handleConn` is with it |
| `key`, `lastSeq` | `udpMouseSession`; a key is named after its session |
| `due` | `apply` between its unlock and the warp |
| `pc`, `udp`, `moves` | a controller, whether it has `udpMouse`, and its `seq` |
| `tcp`, `net`, `broken` | messages and datagrams under way, and a connection that is gone |
| `shown`, `arrived`, `lost`, `session` | history |

`net` is a set from which `Receive` may take a datagram or leave it for another
time, so that it is delivered in any order and several times; `Lose` loses it.
`EnableUDPMouse` makes and sends a key, `Hangup` disarms before `FreeSlot` frees
the slot. A controller whose connection has broken may go on sending.
`LatestPosition` promises that positions are taken only while a session is open,
only if they were made in it, and each newer than the last.

### ClipboardSync

Presses of Ctrl+Alt+V, each a goroutine (`pc`), the mutex `mu` of `clipClient`,
frames both ways (`up`, `down`), and `handleClipConn` (`handler`). Content is
known by the press it belongs to and is small or large: a large frame does not
fit into the buffers of the connection, and its write returns only when the
other side has read it (`Stalled`). `Timeout` is the deadline of a pull, which
may fall into the middle of a large frame; what is read from then on is
`Garbage` (`torn`). `late` and `got` are history: who has given up, and whose
reply each pull has pasted.

### Session

The two listeners with a slot each, and the attempts to connect, each a process
on a controller, in all three modes.

| Model | Code |
|---|---|
| `slot`, `handler` | `active` of `main`; `handleConn` and the goroutine around it |
| `clipSlot`, `clipper` | the same of `serveClipboard` and `handleClipConn` |
| `ctl`, `mode` | the steps of the controller's `main`, `dialAndVerify`, `dialClipboard`, `runEdgeAware` up to its loop; its flags |
| `auth`, `down` | messages under way on the main connection |
| `cut`, `clipCut` | connections that no longer lead to the controller |

`handler` is "closed" between the return of `handleConn`, which closes the
connection, and the moment its goroutine frees the slot, so that another
connection can be accepted or refused in between. `Trust` may come at any time,
also when the target has closed the connection. A right token and a wrong one,
an expired deadline and an error are the alternatives of `Authenticate` and
`RejectAuth`. `Quit`, `Vanish`, `Break` and `Restart` end things at any time.
The loop that follows is `EdgeSwitch`, the UDP session `MouseChannel`, the
frames on the clipboard connection `ClipboardSync`.

### Tray

`startTarget`, `stopTarget` and the goroutines of the processes; the code for
the controller is the same. Each call is a process with its own `pc` between
the places where it releases the mutex: `Take` the previous process, `Kill` it,
`Spawn` another, `Track` it. `tracked`, `name` and `conn` are the fields of
`app`. A process is named after the call that started it, prints lines (`said`)
as a target does, and ends when it is killed or by itself; `OnLine` and `OnExit`
are its goroutines in the tray. `Toggle` reads the name before it calls, and so
does `RestartRunning` of the editor. The application's `onExit` is two steps:
`Quit` reads what is tracked (`doomed`), and `StopTracked` stops it, after which
the tray is gone with all its goroutines, wherever they were; between the two
the calls go on. The history variables say what the conditions of the properties
mean: two calls were starting at once (`overlap`), an exit cleared a process
that was not its own (`late`), the tray left while a call was between two of its
steps, or a call took a process while it was leaving (`midway`), a process was
gone before it was tracked (`early`), `conn` was written for another one
(`mixed`).

### ProfileEditor

The configuration in memory (`mem`), in the file (`disk`) and in the editor's
window (`work`, `sel`, `form`), and the goroutines that change it (`SetLang`,
`SaveToken`, `Reload`, `Marshal`, `WriteFile`). A `Config` is a language and a
slice, an array of `heap` with a length: `Open` clones the array, `Adopt` makes
memory share the window's, `Shift` is what `append` of two parts of a slice does
to the array they are in, and `Add` finds room in the array or copies it, as
the capacity that the runtime chose happens to allow. `Commit` and `Load` are
`commitTarget` and `loadTarget`; the list calls them when it is refilled, too,
and the actions contain these calls. `wanted` is what the user has made of the
list. A marshalling that races with a change in place may write a mixture; the
model writes one of the states between, and the properties claim nothing of a
configuration after such a race (`astray`, `reused`). `at`, `EditSpec` and the like
bear these names because `TrayProofs` extends this module beside `Tray`.

### Sharing

Keys and buttons from the hand to the target's system, in the two kinds of
session, one after the other.

| Model | Code |
|---|---|
| `physical`, `open`, `unread` | the devices, of which Linux opens several; what `readLoop` has not read of each |
| `events`, `MaxEvents` | the channel that they all send to, which drops |
| `ctl`, `Loop` | the controller's process; its loop (`Forward`, `SendPing`, `Fatal`) |
| `wire`, `link` | what the connection has taken; whether it is closed by the controller, or cut |
| `serving`, `down` | `handleConn` is in its loop; the keys that `Inject` has left down |
| `paste`, `PasteScript` | where `injectPaste` is: modifiers up, Ctrl and V down and up |
| `stuck`, `freed`, `disturbed` | history: keys whose release, or press, was lost; a paste that was interfered with |

The edge kind has one device, the hook, while the target is being controlled;
how it comes to be and what is suppressed is the subject of `EdgeSwitch` and
`KeyboardHook`. `Unplug` ends a reader; `Stop` is the signal handler, which
closes the devices before the connection; `End` is every way the process ends.
An injection may be refused. A paste may begin at any time, also after the
session, because the clipboard's connection can outlive it.

### TrustStore

Starts of a target on one data directory, and runs of controllers on one
`known_hosts.json`. `TruncateCert` to `WriteKey` and `TrustPin` to `Written` are the
two halves of each `os.WriteFile`, between which a process may die, so that the
next one finds a file that is `Torn`. A certificate is named after the start
that generated it, and `pair` is the certificate that a start has read or made;
`pins` is a controller's copy of `known`. The certificate is read before the
port is taken (`Listen`), so that starts overlap. The history variables are the
conditions of the properties: two starts generating at once (`overlap`), files
that could not be read although they were whole (`unreadable`), a store
rewritten from an old copy (`raced`) or not to its end (`cutShort`).
`TrustInit`, `TrustSpec` and the like bear these names because `SessionProofs`
extends this module beside `Session`, and a controller of the one is a run of
the other.

### MC modules

The `MC` modules define the sets that the configurations give to the constants
and say why these sizes. The names that end in what they change
(`sendEventFirst`, `WarpHomeDraining`, ...) and are introduced as mutants are
plausible bugs of the definition after them: with the mutant in its place the
property named in `PROJECT.json` fails.

## 4. Runs

| Run | States | Shows |
|---|---|---|
| `edge_trip` | 130,344 | `WarpClearsEdge`: a release lands inside the controller's screen and off the triggering edge. `SimOnScreen`: the simulated cursor is a pixel of the target, except for a crossing at `relPos` 1, which starts one pixel outside. `LatchHolds`: a push through the entry edge releases exactly when the cursor has been off that edge in this trip. `ReturnsNearby`: leaving the target where one came in leads back to where one left, or short of it by one target pixel and one own pixel. |
| `edge_switch` | 319,016 | `SuppressedWhileServing`, `OneCrossingPending`, `ForwardsCurrentCrossing`, `CaptureOrder`, `NothingAfterRelease`; that `Handover` is implemented; and `CrossingServed`, that a crossing in the channel is served. |
| `keyboard_hook` | 3,050,220 | `NoKeySticks`, `OneMachine`, `FiresOncePerPress`, `HotkeyNeedsChord`. |
| `keyboard_hook_literal` | | expected violation: `HotkeyNeverLiteral`, see Findings. |
| `mouse_channel` | 240,363 | `KeyFollowsSlot`: the shared UDP session is armed for the session in the slot and no other. `ImplementsLatest`: `LatestPosition` is implemented. `MovesArrive`: a move arrives, or a newer one, unless the network loses it. |
| `mouse_channel_blocked` | | expected violation of `MovesArrive` when the port is blocked, see Findings. |
| `clipboard_sync` | 11,825 | `OwnReplyUnlessLate`: until a pull gives up, each pastes its own reply. `NoCrossingUnlessLate`: until then the two sides do not wait in their writes for each other. `TransfersEnd`: each press is done with, unless the two sides' large writes have crossed. |
| `session` | 68,476 | `OneController`, `RunsServed`, `ClipboardOfSession`; `HandshakeInStep`: while a connection lasts, what the handshake reads next is there or is still to be answered; `HandshakeEnds`: no controller is left waiting for the target; `SlotsFreed`: a controller that is gone or does not authenticate loses its slots. |
| `tray` | 1,323,587 | `OneAtATime`: what runs is tracked by a tray that is there, or about to be tracked or stopped by a call in it; at most one is not about to be stopped, and none outlives the tray. `ShowsRunning`: what is shown has not gone. Both under the conditions above. Also `ConnShown`: the menu shows the tracked process's connection; `DeathNoticed`: it notices an end. |
| `profile_editor` | 708,363 | `NothingBeforeSave`, `EditsKept`, and `RestartRestores`: the file has what memory has, and the language that is shown. |
| `sharing` | 864,508 | `KeysAgree`: once all is delivered the target takes those keys to be down that are held, during a session and after it, except those whose press or release was lost. `PasteLands`: a paste presses V with Ctrl alone. `LossNoticed`: a legacy controller notices a dead connection. |
| `trust_store` | 606,031 | `PinsKept`: what was trusted stays in the store unless runs overlap or one dies while it writes. `AlarmJustified`: a controller warns of a changed certificate only after overlapping starts or an unreadable file, not after a crash between the two files. |

The type invariants are all proved (section 6); that of `sharing`, which bounds
the queues, is also checked by its run, the others are not checked again.

Bounds:

* `edge_trip`: targets of 1 to 3 pixels each way, so that a screen on which
  moving away is impossible (1) and one with an interior (3) occur; controllers
  of 2 or 4 by 2, 3 or 5 pixels at and off the origin, so that the ratios are
  above, at and below one and do not divide each other; motions that stay on an
  axis, overshoot and go diagonally. The theorems remove these bounds.
* `edge_switch`: a channel of two, so that it is full with one stale event before
  a crossing and with a crossing before another event; two crossings, the least
  number for input of one to meet the other (`MaxCross` bounds only new
  crossings; the rest goes on). A target of two pixels in the direction of the
  motion, so that moving away, releasing and sliding all happen.
  `CHECK_DEADLOCK FALSE`: the process may exit, and nothing follows.
* `keyboard_hook`: both Ctrl keys, for the field they share; one Alt, V, and a
  key without a name; each may be released unseen. Nothing else needs a bound.
* `mouse_channel`: two sessions of two moves, the least for reordering, for
  datagrams of one session in another and for a sequence number that is smaller
  in the later session. `Blocked` says whether the target's port takes anything.
* `clipboard_sync`: three presses, one that gives up, one that suffers from it
  and one that waits meanwhile. Nothing else is bounded. The theorems hold for
  any number of presses.
* `session`: two attempts, so that a second one meets the slot free, held, being
  closed, or held by a handler whose controller is gone. The modes are legacy
  and performance; edge mode without the UDP channel takes a subset of the
  latter's steps. The theorems hold for any number of attempts and all modes.
* `tray`: two calls on two profiles, which overlap or follow one another, with
  all ways to start and stop; `MaxLines` of 2, the most that one event prints.
* `profile_editor`: six steps of users (`MaxOps`), enough to edit, save, edit
  again and have the result saved by another goroutine; lists of up to two, the
  least for a removal to shift; one goroutine besides the editor, since what two
  do at once is excluded (`astray`) but for their overlap with a save, which one
  has, too. Arrays, texts and languages are symmetric; there is no liveness. The
  theorems remove all of these bounds: any lists, arrays, goroutines and steps.
* `sharing`: two Linux keyboards that share a key, since one alone cannot make
  the release of another's key, and the hook with two keys of the hotkey; each
  of the three queues holds one, which fills and empties all of them in every
  combination. `MaxUnread` and `MaxWire` are bounds of the model, `MaxEvents` is
  the channel's capacity; sessions are not bounded. The theorems remove the
  bounds.
* `trust_store`: three starts, of which two overlap and a third shows what they
  left, and two runs of a controller, which trust the same or different targets;
  both are symmetric, and nothing of it is about liveness. The theorems remove
  the bounds.

`CHECK_DEADLOCK FALSE` in `mouse_channel`, `clipboard_sync`, `session`, `tray`,
`profile_editor` and `trust_store`: the sessions, presses, attempts, calls,
starts and steps of users are finitely many, and when they are over the system
may stop.

Fairness (`edge_switch`): weak fairness of `LoopStep` and of `Send`. The Go
scheduler and the system run both threads, the hook never blocks, and a write to
a peer that stays connected returns; if it does not, it fails and `Exit`
follows, which `CrossingServed` allows. Nothing is assumed of the user, so
`PressHotkey` and the other callbacks have no fairness. Weak fairness of the
whole loop is enough, because it handles one event at a time and some step of it
is enabled for as long as the channel is not empty.

Fairness of the others, none of which assumes anything of users:

* `mouse_channel`: weak fairness of the target's two goroutines, and of the last
  delivery of each datagram: what the network does not lose, it delivers.
* `clipboard_sync`: weak fairness of the handler, strong fairness of each press,
  because a mutex of Go does not let a waiter starve. A deadline passes.
* `session`: weak fairness of the listeners, of the handlers and of the
  controllers while they wait for nobody but the target. A read of a connection
  that is cut fails at some time: Go turns TCP's keep-alive on for accepted and
  dialled connections. Deadlines pass, where the code sets them.
* `tray`: weak fairness of `onExit`, which runs in a goroutine of its own for each
  process and holds the mutex for a few assignments; none of the calls.
* `sharing`: weak fairness of the controller's loop, whose ticker ticks for as
  long as the process lives; a write to a connection that is gone fails at some
  time, or its buffers are full.

## 5. Findings

* **The hotkey's V leaks** (`keyboard_hook_literal`). Press Ctrl+Alt+V, let go
  of Ctrl, keep V: its repeats are no longer recognised as the hotkey and are
  passed on, and its release is swallowed because `hotkeyVDown` is still set.
  The comments say that the hotkey is never forwarded as a literal key.
* **A blocked UDP port stops the mouse** (`mouse_channel_blocked`). The README
  says that the mouse goes over TCP when the port is blocked. The controller
  notices only a send that fails, and one that is dropped on its way does not:
  every move of the session is lost. Keys and buttons go on.
Further departures are conditions of properties that hold, and hazards in
`PROJECT.json`:

* A crossing that finds the channel full is dropped after the hook has started
  to suppress: the loop, not engaged, ignores what follows and never calls
  `Disengage`, and keyboard and mouse are dead until the process ends (`Lose` of
  `Handover`, mode "lost"). TLC needs six steps; with the real capacity, 2048
  events have to pile up while a stalled connection holds the loop in a write.
* A pull that gives up after five seconds leaves its request in place; its reply
  is read by the next pull, and from then on each pastes the previous one's
  (the condition of `OwnReplyUnlessLate`; without it `PastesOwnReply` fails).
* Keys held when a session ends, by any of its ways, stay down on the target
  (`stuck` of `Sharing`): neither side releases them. The Ctrl and C that stop a
  legacy controller are sent, too, and are among them.
* A full channel drops releases, and two keyboards that hold the same key share
  its state on the target: the release of one is the other's (`freed`).
* A controller that trusts a target rewrites the store from the copy that it
  read at its start: what another has stored meanwhile is lost (`raced`), and a
  run that dies between truncation and write loses all of it (`cutShort`).
* Two targets started at once on one directory both generate a certificate; the
  one that does not get the port leaves the other's successors with its own
  (`overlap`), and a passing read error replaces a whole pair (`unreadable`):
  controllers warn of a changed certificate.
* After a late large reply a press that pushes a large clipboard and the target
  wait for each other for ever (`CrossedWrites`).
* The tray loses track of a process when two starts overlap (`overlap`) or when
  a stopped process's exit comes after a restart of the same profile (`late`);
  it shows a process that has gone when that ended at once (`early`). The
  comment in `menu.go` says at most one of each at a time.
* Quitting the tray in the middle of a call (`midway`) leaves behind a process
  that the call has taken and not yet killed, or started and not yet tracked,
  with nobody to stop it (`Abandoned`); without this condition `OneAtATime`
  fails.
* After a save the editor and the tray share their profiles while the window
  stays open (`reused`): edits reach the running configuration, and the file
  with the next change of language, before they are saved. Without `~reused`,
  `NothingBeforeSave` fails in four steps.
* What changes while the editor is open is overwritten by its save (`outdated`),
  and two saves can reach the file in the other order (`astray`).
* A reconnecting controller can be refused the clipboard, whose slot the earlier
  session still holds, and is then without it to its end.

## 6. Proofs

All proofs are checked from nothing by `tlapm`; they hold for every value of the
constants that satisfies the named assumptions (`EdgeAssumption`,
`ScreenAssumption`: at least two pixels each way, `QCapAssumption`: at least one
event, `KeysAssumption`: disjoint sets of keys, and so on).

* `EdgeTripProofs`: lemmas on the operators of `EdgeMath` (`ClampInRange`,
  `OffsetInRange`, `PointAtType`, ...), then `EntryOnScreen` and `WarpIsClear`:
  the numeric hazards, for screens of every size. Of the trip, `TypeCorrect`,
  `WarpClear`, `SimStaysOnScreen` and `Latch`. The warp
  invariant is inductive because only `Release` enters the phase "back", with a
  point that `WarpIsClear` describes; the other adds that the first point of a
  crossing below `relPos` 1 is on the screen (`EntryOnScreen`). `LatchHolds` is
  inductive by itself: a push out through the entry edge never sets the latch in
  the code, nor can it in fact, for the clamp brings it back onto the edge
  (`PushedOut`). The inductive part for `Returns` is `Journey`: where the trip came in and where it came back to are
  the points computed from where it crossed and where it went out. The arithmetic
  is `TwoTruncations`: an offset scaled to another length and back, truncated both
  times, is not larger and loses at most one unit of each.
* `EdgeSwitchProofs`: `TypeCorrect`, then `CaptureOrdered`. `CaptureOrder` is the
  inductive invariant: the individual facts are not inductive, because whether a
  forwarded event belongs to the current crossing depends on what is in the
  channel, which depends on when the hook loaded the flag. It says that
  everything behind a crossing in the channel, and everything in it while the
  loop serves one, was captured in that crossing, and that while one is pending
  the flag is set; stale events can only be in front. A callback that loaded the
  flag before a release sends before the next crossing is sent, for the hook is
  one thread. From it follow `CurrentCrossing`, `Suppressed`, `OneCrossing`,
  `QuietAfterRelease` and `Refinement`, which maps each action to an action of
  `Handover` or a stutter.
* `KeyboardHookProofs`: the invariant `KInv` adds to `NoKeySticks` that a key
  held and not torn is down only where its events go now (`Routed`), that the V of a
  hotkey is down nowhere, and that a chord completed after V went down has
  stopped V from repeating (`RepeatsFireNothingNew`): without the last, V could
  be down locally when the hotkey takes its release away.

* `MouseChannelProofs`: `CInv` adds to `KeyFollowsSlot` that the session being
  greeted comes after every session that had a key (`SlotOrder`), so that a new
  key is new, and that only moves that were made are under way (`MovesMade`), so
  that what is taken was sent. `NewestWins` then maps each action to a step of
  `LatestPosition` or a stutter: `Receive` takes only what `Fresh` admits, and
  `start` resets the number together with the key.
* `ClipboardSyncProofs`: the mutex is held by the one press between its lock and
  its unlock (`Holder`); as long as nobody is late at most one request or reply
  is under way, and it belongs to the holder (`OneOutstanding`). Hence
  `OwnReply`; and `NoCrossing`, because a reply that is still being written and a
  push that is would both be the holder's.
* `SessionProofs`: `SInv` adds to `OneController` how far a handler can be for
  each step of its controller (`HandlerFollows`) and that nothing but the
  target's answer leads past authentication (`Admitted`), also for the
  clipboard's handler, which is why it can outlive a session but not precede it.
  Hence `SlotsHeld`, `Served` and `ClipboardFollows`. For `HandshakeServed`, `HInv`
  adds how far each side is with the token for the other (`TokenFollows`) and, for
  each step of a controller, exactly what is there to be read (`InOrder`): a token
  on its way excludes that the target has served, so that nothing is answered
  twice.
* `SessionProofs`, of `TrustStore`: `PinInv`. `Stored` says that, until a store is
  cut short or written from an old copy, the file and every copy not older than
  it have what was trusted, but for the address being trusted; hence
  `PinsAreKept`. `AlarmsJustified` needs an invariant over both halves: until
  starts overlap or a file cannot be read, a start that generates is alone
  (`Apart`), does so only while nobody serves and nobody holds a pin (`Settled`),
  so that a pin, in the file, in a copy or about to be stored, is the fingerprint
  of the pair in the files (`PinnedRight`, `OtherRight`).
* `TrayProofs`: `Books` ties names, processes and program counters together,
  `Alone` says that a call that starts a process is the only one and finds
  nothing to overwrite unless calls overlapped, and `Kept` that what runs is
  tracked, about to be, or about to be stopped. `Leaving` says that a tray which
  leaves in no call's middle has found all that is tracked to stop, and that no
  call gets further than its start; with `Kept` it gives `Emptied`, that then
  nothing runs once the tray is gone. `OneProcess` follows.
  `ShowsRunning` is inductive beside `Books`; hence `Shown`. For
  `ConnectionShown` the inductive part is `Told`: the lines that are still to
  come of a process lead from what the menu shows of it, or from "waiting" while
  none has been handled, to the connection it has (`Tells`). `TellsMore` adds a
  line and `TellsTail` handles one; the lemmas before them say which line may
  follow which.
* `TrayProofs`, of `ProfileEditor`: lemmas on lists (`Removed`, `Shifted`, `Grown`)
  and on the arrays of the heap (`ListAt`, `Committed`), then `EditInv`. `Shapes`
  says that every reference is to an array that has what its length promises;
  `Separate` that a window's array is its own until it saves; `Exclusive` that,
  but for a save that failed or ran beside another, one save or reload is under
  way; `InHand` that what it has in hand is the configuration, or the file;
  `Speaks` that the language shown is in the configuration or on its way there.
  Hence `NoEditLost` and `Restarts`. `SaveComesFirst` is an action property from
  the same invariant: a step of the editor other than a save leaves the
  configuration, its array and the file alone (`QuietLeaves`), because by
  `Separate` it writes to another array. After a save that no longer holds, which
  is why the property excludes `reused`.
* `SharingProofs`: lemmas on what a queue mentions last of a key when something
  is appended or taken (`AppendMentions`, `TailMentions`). What the target will
  take a key to be is decided by its last event in the channel, or else on the
  connection, or else by `down` (`EndDown`), which forwarding and injecting do
  not change. `NoneStick` says that a key that ends down has a release that the
  channel was not told of (`Untold`), or that the paste will make, unless it was
  lost; `NoneMissing` that a held key ends down or is still unread, unless its
  press was lost; both rest on `UnreadRight`, that the unread events of a device
  end in what is held on it. Hence `Agreement`, for any devices, keys and
  capacities. `PasteClean` counts the modifiers that the paste has released;
  hence `PastePressesCtrlV`.

Only model-checked: everything that must happen at some time (`CrossingServed`, `MovesArrive`,
`TransfersEnd`, `HandshakeEnds`, `SlotsFreed`, `DeathNoticed`, `LossNoticed`),
since liveness and ENABLED are out of the prover's reach.

## 7. Not modelled

The wire formats, the key tables, the calls into the operating system, finding
devices on Linux, capture on macOS, translations and the icon: no state that a
model would add anything to; `PROJECT.json` gives the reason for each. The
legacy mode of the Windows hook forwards everything, as a device of `Sharing`
does, and suppresses nothing. Injected events, which the hook lets through
unseen, and keys that go down on the secure desktop are assumed away in
`KeyboardHook`, motion and the wheel in `Sharing`. Coordinates beside moves in
`MouseChannel`, the lines a process loses at its end, and what
`validateAndCollect` finds wrong are abstracted away where their modules say so.
That a position is applied before or after the warp of a crossing
(`cmd/target/main.go:290`) is left open by the code, and no property is stated
of it. A target of a version that sends no UDP key, against which a controller
in performance mode would wait for ever, is not among the models.
