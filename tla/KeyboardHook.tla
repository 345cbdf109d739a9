---------------------------- MODULE KeyboardHook ----------------------------
(***************************************************************************)
(* The keyboard callback of the Windows hook thread: keyboardProc in       *)
(* internal/capture/capture_windows.go.  Each key event goes to the        *)
(* controller's own applications or, while the source is engaged, to the   *)
(* event channel; Ctrl+Alt+V goes to neither and announces a clipboard     *)
(* transfer instead.                                                       *)
(*                                                                         *)
(* The environment is a keyboard, whose latest pressed key repeats while   *)
(* it is held, the handovers that flip the flag at any time (module        *)
(* EdgeSwitch says when), and the secure desktop (lock screen,             *)
(* Ctrl+Alt+Del), on which keys are released that the hook saw go down.    *)
(* What the two machines make of the events is in local and remote: the    *)
(* keys each has been told to be down.  Injected events, which the         *)
(* callback lets through unseen, are left out.                             *)
(***************************************************************************)
EXTENDS Integers

CONSTANTS
  Ctrls,     \* ControlLeft and ControlRight
  Alts,      \* AltLeft and AltRight
  V,         \* the key of the hotkey
  Unknowns,  \* keys that are not in VKToName
  NoKey

Keys == Ctrls \cup Alts \cup {V} \cup Unknowns

ASSUME KeysAssumption ==
  /\ Ctrls \cap Alts = {}
  /\ V \notin Ctrls \cup Alts \cup Unknowns
  /\ Unknowns \cap (Ctrls \cup Alts) = {}
  /\ NoKey \notin Keys

VARIABLES
  engaged,      \* the flag that suppresses and forwards
  ctrlHeld,     \* windowsSource's fields of these names
  altHeld,
  hotkeyVDown,
  physical,     \* the keys held down
  latest,       \* the key that repeats, or NoKey
  local,        \* keys the controller's applications have seen go down, not up
  remote,       \* keys the event channel says are down
  fired,        \* history: HotkeyPasteEvents since V was last pressed
  torn,         \* history: keys down or stuck whose press and release part ways
  unseen        \* history: keys of the hotkey whose latest release it has not seen

chord == <<ctrlHeld, altHeld, hotkeyVDown>>
keyboard == <<physical, latest>>
told == <<local, remote, torn>>
vars == <<engaged, chord, keyboard, told, fired, unseen>>

Known == Keys \ Unknowns

TypeOK ==
  /\ engaged \in BOOLEAN
  /\ ctrlHeld \in BOOLEAN
  /\ altHeld \in BOOLEAN
  /\ hotkeyVDown \in BOOLEAN
  /\ physical \subseteq Keys
  /\ latest \in Keys \cup {NoKey}
  /\ local \subseteq Keys
  /\ remote \subseteq Known
  /\ fired \in 0..2
  /\ torn \subseteq Keys
  /\ unseen \subseteq Keys

Init ==
  /\ engaged = FALSE
  /\ ctrlHeld = FALSE
  /\ altHeld = FALSE
  /\ hotkeyVDown = FALSE
  /\ physical = {}
  /\ latest = NoKey
  /\ local = {}
  /\ remote = {}
  /\ fired = 0
  /\ torn = {}
  /\ unseen = {}

----------------------------------------------------------------------------
\* Mutant of trackModifiers: a release is not noticed.
trackModifiersSticky(k, down) ==
  /\ ctrlHeld' = (ctrlHeld \/ k \in Ctrls)
  /\ altHeld' = (altHeld \/ k \in Alts)

\* The left and the right key of a modifier share one field.
trackModifiers(k, down) ==
  /\ ctrlHeld' = IF k \in Ctrls THEN down ELSE ctrlHeld
  /\ altHeld' = IF k \in Alts THEN down ELSE altHeld

Deliver(keys, k, down) == IF down THEN keys \cup {k} ELSE keys \ {k}

\* V is down together with Ctrl and Alt, as far as the callback knows.
IsHotkey(k) == k = V /\ ctrlHeld /\ altHeld

\* Mutant of fireHotkey: every repeat announces a transfer.
fireHotkeyRepeating(before) ==
  /\ hotkeyVDown' = TRUE
  /\ fired' \in {before, IF before < 2 THEN before + 1 ELSE 2}

\* The hotkey announces a transfer once per press, if the channel has room.
fireHotkey(before) ==
  /\ hotkeyVDown' = TRUE
  /\ fired' \in {before, before + 1}
  /\ hotkeyVDown => fired' = before

\* The event of k leaves k torn when something lost or leaked it, and mends it
\* when k is up for everyone.
Tear(k, amiss) ==
  torn' = IF k \in physical' \cup local' \cup remote'
          THEN IF amiss THEN torn \cup {k} ELSE torn
          ELSE torn \ {k}

\* V is let through although its release is going to be swallowed: Ctrl or Alt
\* went up before it, and it repeats.
Leaks(k) == k = V /\ hotkeyVDown

\* Mutant of forwardToChannel: a key that is forwarded is not suppressed.
forwardToChannelUnsuppressed(k, down) ==
  /\ local' = Deliver(local, k, down)
  /\ remote' = IF k \in Known THEN Deliver(remote, k, down) ELSE remote
  /\ Tear(k, Leaks(k))

\* An engaged key event is withheld and, if the key has a name, sent to the
\* channel, which drops it when it is full.
forwardToChannel(k, down) ==
  /\ UNCHANGED local
  /\ \/ /\ remote' = IF k \in Known THEN Deliver(remote, k, down) ELSE remote
        /\ Tear(k, Leaks(k))
     \/ /\ k \in Known
        /\ UNCHANGED remote
        /\ Tear(k, TRUE)

\* Otherwise the event takes its ordinary way.
letThrough(k, down) ==
  /\ local' = Deliver(local, k, down)
  /\ UNCHANGED remote
  /\ Tear(k, Leaks(k))

deliverKey(k, down) ==
  IF engaged THEN forwardToChannel(k, down) ELSE letThrough(k, down)

\* What the callback does with a key that goes down or repeats, before being
\* the transfers announced for the press.
keyDown(k, before) ==
  /\ trackModifiers(k, TRUE)
  /\ \/ /\ IsHotkey(k)
        /\ fireHotkey(before)
        /\ UNCHANGED told
     \/ /\ ~IsHotkey(k)
        /\ deliverKey(k, TRUE)
        /\ fired' = before
        /\ UNCHANGED hotkeyVDown

\* A key goes down.
Press(k) ==
  /\ k \notin physical
  /\ physical' = physical \cup {k}
  /\ latest' = k
  /\ unseen' = unseen \ {k}
  /\ UNCHANGED engaged
  /\ keyDown(k, IF k = V THEN 0 ELSE fired)

\* The latest key repeats.
Repeat ==
  /\ latest \in physical
  /\ UNCHANGED <<engaged, keyboard, unseen>>
  /\ keyDown(latest, fired)

\* Mutant of Swallow: every release of V is swallowed.
SwallowAlways(k) ==
  /\ k = V
  /\ hotkeyVDown' = FALSE
  /\ UNCHANGED <<local, remote>>
  /\ Tear(k, FALSE)

\* The release of the V of a hotkey goes nowhere either.
Swallow(k) ==
  /\ k = V
  /\ hotkeyVDown
  /\ hotkeyVDown' = FALSE
  /\ UNCHANGED <<local, remote>>
  /\ Tear(k, FALSE)

\* A key goes up.
Release(k) ==
  /\ k \in physical
  /\ physical' = physical \ {k}
  /\ latest' = IF latest = k THEN NoKey ELSE latest
  /\ trackModifiers(k, FALSE)
  /\ \/ Swallow(k)
     \/ /\ ~(k = V /\ hotkeyVDown)
        /\ deliverKey(k, FALSE)
        /\ UNCHANGED hotkeyVDown
  /\ UNCHANGED <<engaged, fired, unseen>>

\* A key goes up on the secure desktop, where the hook is not called.
ReleaseUnseen(k) ==
  /\ k \in physical
  /\ physical' = physical \ {k}
  /\ latest' = IF latest = k THEN NoKey ELSE latest
  /\ unseen' = unseen \cup ({k} \ Unknowns)
  /\ torn' = IF k \in local \cup remote THEN torn \cup {k} ELSE torn \ {k}
  /\ UNCHANGED <<engaged, chord, local, remote, fired>>

\* A crossing or a Disengage.
Handover ==
  /\ engaged' = ~engaged
  /\ torn' = torn \cup physical
  /\ UNCHANGED <<chord, keyboard, local, remote, fired, unseen>>

Next ==
  \/ \E k \in Keys : Press(k) \/ Release(k) \/ ReleaseUnseen(k)
  \/ Repeat
  \/ Handover

Spec == Init /\ [][Next]_vars

----------------------------------------------------------------------------
\* No key sticks: a key that either machine takes to be down is down, unless
\* its press and its release were torn apart.  Only a handover while it was
\* held, an event that a full channel dropped, a release that the hook did not
\* see or the leak of HotkeyNeverLiteral does that, and the next complete press
\* on the machine where it stuck mends it; the swallowing of the hotkey's V
\* never does it.
NoKeySticks == local \cup remote \subseteq physical \cup torn

\* A key that is down is down on one machine only, unless torn: suppressing and
\* forwarding are one decision, also for the repeats of a key.
OneMachine == local \cap remote \subseteq torn

\* The hotkey fires at most once per physical press, whatever happens to Ctrl
\* and Alt while V repeats, and is armed again by the release, if the hook sees it
\* (capture_windows.go:416-422, docs/known-issues.md:68-79).
FiresOncePerPress ==
  /\ fired <= 1
  /\ hotkeyVDown => V \in physical \cup unseen
  /\ fired = 1 /\ V \in physical => hotkeyVDown

\* The hotkey needs the whole chord on the keyboard at that moment, although
\* two keys of a modifier share one field; only a modifier that was let go on the
\* secure desktop, and not pressed since, still counts for the field.
HotkeyNeedsChord ==
  [][~hotkeyVDown /\ hotkeyVDown' =>
       /\ V \in physical'
       /\ (physical' \cup unseen') \cap Ctrls # {}
       /\ (physical' \cup unseen') \cap Alts # {}]_vars

\* The V of a hotkey is never passed on as a key, neither to the controller's
\* applications nor to the target (capture.go:24-26, capture_windows.go:413-417).
\* The code does not keep this.
HotkeyNeverLiteral ==
  [][hotkeyVDown => V \notin (local' \ local) \cup (remote' \ remote)]_vars

=============================================================================
