------------------------- MODULE KeyboardHookProofs -------------------------
(***************************************************************************)
(* Proofs about KeyboardHook, for any sets of keys.                        *)
(*                                                                         *)
(* The inductive invariant adds to NoKeySticks the reason for it: a key    *)
(* that is held and not torn is down only on the machine its events go to  *)
(* at the moment, and nowhere if it is the V of a hotkey.  That the V of a *)
(* hotkey was not already down somewhere when the hotkey fired rests on    *)
(* the keyboard: only the latest key repeats, so a chord that is completed *)
(* after V went down stops V from repeating.                               *)
(***************************************************************************)
EXTENDS KeyboardHook, TLAPS

Routed ==
  \A k \in physical \ torn :
    /\ k \in local => ~engaged
    /\ k \in remote => engaged
    /\ k = V /\ hotkeyVDown => k \notin local \cup remote

RepeatsFireNothingNew ==
  latest = V /\ V \in physical /\ ctrlHeld /\ altHeld => hotkeyVDown

ChordHeld ==
  /\ ctrlHeld => (physical \cup unseen) \cap Ctrls # {}
  /\ altHeld => (physical \cup unseen) \cap Alts # {}

KInv ==
  /\ TypeOK
  /\ NoKeySticks
  /\ Routed
  /\ FiresOncePerPress
  /\ RepeatsFireNothingNew
  /\ ChordHeld

LEMMA InitKInv == Init => KInv
<1> SUFFICES ASSUME Init PROVE KInv
  OBVIOUS
<1>1. TypeOK
  <2>1. fired \in 0..2
    BY SMT DEF Init
  <2> QED
    BY <2>1 DEF Init, TypeOK
<1>2. NoKeySticks /\ Routed
  BY DEF Init, NoKeySticks, Routed
<1>3. fired <= 1 /\ ~hotkeyVDown /\ V \notin physical /\ ~ctrlHeld /\ ~altHeld
  BY DEF Init
<1> QED
  BY <1>1, <1>2, <1>3 DEF KInv, FiresOncePerPress, RepeatsFireNothingNew, ChordHeld

\* What the keyboard does before the callback runs, together with what the
\* callback makes of the modifiers, keeps the chord and the repeating key right.
LEMMA PressKInv ==
  ASSUME KInv, NEW k \in Keys, Press(k)
  PROVE  KInv'
<1> USE KeysAssumption DEF Press, keyDown, Keys, Known
<1>0. /\ fired' \in 0..1
      /\ fired' = 1 => hotkeyVDown' \/ (k # V /\ fired = 1)
  <2>1. CASE IsHotkey(k)
    <3>1. fired' \in {0, 0 + 1} /\ hotkeyVDown'
      BY <2>1 DEF IsHotkey, fireHotkey
    <3> QED
      BY <3>1, SMT
  <2>2. CASE ~IsHotkey(k)
    <3>1. fired' = IF k = V THEN 0 ELSE fired
      BY <2>2
    <3>2. fired \in 0..2 /\ fired <= 1
      BY DEF KInv, TypeOK, FiresOncePerPress
    <3> QED
      BY <3>1, <3>2, SMT
  <2> QED
    BY <2>1, <2>2
<1>1. TypeOK'
  <2>1. ctrlHeld' \in BOOLEAN /\ altHeld' \in BOOLEAN
    BY DEF KInv, TypeOK, trackModifiers
  <2>2. hotkeyVDown' \in BOOLEAN
    BY DEF KInv, TypeOK, IsHotkey, fireHotkey
  <2>3. fired' \in 0..2
    BY <1>0, SMT
  <2>4. local' \subseteq Keys /\ remote' \subseteq Known /\ torn' \subseteq Keys
    BY DEF KInv, TypeOK, deliverKey, forwardToChannel, letThrough, Deliver, Tear, Leaks, told
  <2> QED
    BY <2>1, <2>2, <2>3, <2>4 DEF KInv, TypeOK
<1>2. NoKeySticks'
  BY DEF KInv, TypeOK, NoKeySticks, deliverKey, IsHotkey,
     forwardToChannel, letThrough, Deliver, Tear, Leaks, told
<1>3. Routed'
  BY DEF KInv, TypeOK, NoKeySticks, Routed, deliverKey, IsHotkey, fireHotkey,
     forwardToChannel, letThrough, Deliver, Tear, Leaks, told
<1>4. FiresOncePerPress'
  <2>1. fired' <= 1
    BY <1>0, SMT
  <2>2. hotkeyVDown' => V \in physical' \cup unseen'
    BY DEF KInv, FiresOncePerPress, IsHotkey
  <2>3. k # V /\ V \in physical' => V \in physical
    OBVIOUS
  <2>4. k # V /\ hotkeyVDown => hotkeyVDown'
    BY DEF IsHotkey, fireHotkey
  <2> QED
    BY <1>0, <2>1, <2>2, <2>3, <2>4 DEF KInv, FiresOncePerPress
<1>5. RepeatsFireNothingNew'
  BY DEF KInv, TypeOK, IsHotkey, fireHotkey, trackModifiers, RepeatsFireNothingNew
<1>6. ChordHeld'
  BY DEF KInv, ChordHeld, trackModifiers
<1> QED
  BY <1>1, <1>2, <1>3, <1>4, <1>5, <1>6 DEF KInv

LEMMA RepeatKInv ==
  ASSUME KInv, Repeat
  PROVE  KInv'
<1> USE KeysAssumption DEF Repeat, keyDown, Keys, Known, keyboard
<1>0. /\ fired' \in 0..1
      /\ fired' = 1 => hotkeyVDown' \/ (fired = 1 /\ UNCHANGED hotkeyVDown)
  <2>0. fired \in 0..2 /\ fired <= 1
    BY DEF KInv, TypeOK, FiresOncePerPress
  <2>1. CASE IsHotkey(latest)
    <3>1. fired' \in {fired, fired + 1} /\ hotkeyVDown' /\ (hotkeyVDown => fired' = fired)
      BY <2>1 DEF fireHotkey
    <3>2. V \in physical
      BY <2>1 DEF IsHotkey
    <3>3. ~hotkeyVDown => fired # 1
      BY <3>2 DEF KInv, FiresOncePerPress
    <3>4. fired' = fired \/ (fired' = fired + 1 /\ fired # 1)
      BY <3>1, <3>3
    <3>5. fired' \in 0..1
      BY <2>0, <3>4, SMT
    <3> QED
      BY <3>1, <3>5
  <2>2. CASE ~IsHotkey(latest)
    <3>1. fired' = fired /\ UNCHANGED hotkeyVDown
      BY <2>2
    <3>2. fired' \in 0..1
      BY <2>0, <3>1, SMT
    <3> QED
      BY <3>1, <3>2
  <2> QED
    BY <2>1, <2>2
<1>1. TypeOK'
  <2>1. ctrlHeld' \in BOOLEAN /\ altHeld' \in BOOLEAN
    BY DEF KInv, TypeOK, trackModifiers
  <2>2. hotkeyVDown' \in BOOLEAN
    BY DEF KInv, TypeOK, IsHotkey, fireHotkey
  <2>3. fired' \in 0..2
    BY <1>0, SMT
  <2>4. local' \subseteq Keys /\ remote' \subseteq Known /\ torn' \subseteq Keys
    BY DEF KInv, TypeOK, deliverKey, forwardToChannel, letThrough, Deliver, Tear, Leaks, told
  <2> QED
    BY <2>1, <2>2, <2>3, <2>4 DEF KInv, TypeOK
<1>2. NoKeySticks'
  BY DEF KInv, TypeOK, NoKeySticks, deliverKey, IsHotkey,
     forwardToChannel, letThrough, Deliver, Tear, Leaks, told
<1>3. Routed'
  BY DEF KInv, TypeOK, NoKeySticks, Routed, RepeatsFireNothingNew, deliverKey,
     IsHotkey, fireHotkey, forwardToChannel, letThrough, Deliver, Tear, Leaks, told
<1>4. FiresOncePerPress'
  <2>1. fired' <= 1
    BY <1>0, SMT
  <2>2. hotkeyVDown' => V \in physical' \cup unseen'
    BY DEF KInv, FiresOncePerPress, IsHotkey
  <2> QED
    BY <1>0, <2>1, <2>2 DEF KInv, FiresOncePerPress
<1>5. RepeatsFireNothingNew'
  BY DEF KInv, TypeOK, IsHotkey, fireHotkey, trackModifiers, RepeatsFireNothingNew
<1>6. ChordHeld'
  BY DEF KInv, ChordHeld, trackModifiers
<1> QED
  BY <1>1, <1>2, <1>3, <1>4, <1>5, <1>6 DEF KInv

LEMMA ReleaseKInv ==
  ASSUME KInv, NEW k \in Keys, Release(k)
  PROVE  KInv'
<1> USE KeysAssumption DEF Release, Keys, Known
<1>1. TypeOK'
  BY DEF KInv, TypeOK, trackModifiers, Swallow, deliverKey,
     forwardToChannel, letThrough, Deliver, Tear, Leaks
<1>2. NoKeySticks'
  BY DEF KInv, TypeOK, NoKeySticks, Routed, Swallow, deliverKey,
     forwardToChannel, letThrough, Deliver, Tear, Leaks
<1>3. Routed'
  BY DEF KInv, TypeOK, NoKeySticks, Routed, Swallow, deliverKey,
     forwardToChannel, letThrough, Deliver, Tear, Leaks
<1>4. FiresOncePerPress'
  <2>1. hotkeyVDown' => hotkeyVDown /\ k # V
    BY DEF Swallow
  <2>2. hotkeyVDown /\ k # V => hotkeyVDown'
    BY DEF Swallow
  <2> QED
    BY <2>1, <2>2 DEF KInv, FiresOncePerPress
<1>5. RepeatsFireNothingNew'
  <2>1. ctrlHeld' => ctrlHeld
    BY DEF trackModifiers
  <2>2. altHeld' => altHeld
    BY DEF trackModifiers
  <2>3. latest' = V /\ V \in physical' => latest = V /\ V \in physical /\ k # V
    BY DEF Keys
  <2>4. k # V /\ hotkeyVDown => hotkeyVDown'
    BY DEF Swallow
  <2> QED
    BY <2>1, <2>2, <2>3, <2>4 DEF KInv, RepeatsFireNothingNew
<1>6. ChordHeld'
  BY DEF KInv, ChordHeld, trackModifiers
<1> QED
  BY <1>1, <1>2, <1>3, <1>4, <1>5, <1>6 DEF KInv

LEMMA ReleaseUnseenKInv ==
  ASSUME KInv, NEW k \in Keys, ReleaseUnseen(k)
  PROVE  KInv'
<1> USE KeysAssumption DEF ReleaseUnseen, Keys, Known, chord
<1>1. TypeOK'
  BY DEF KInv, TypeOK
<1>2. NoKeySticks' /\ Routed'
  BY DEF KInv, TypeOK, NoKeySticks, Routed
<1>3. FiresOncePerPress'
  BY DEF KInv, FiresOncePerPress
<1>4. RepeatsFireNothingNew'
  BY DEF KInv, RepeatsFireNothingNew
<1>5. ChordHeld'
  BY DEF KInv, ChordHeld
<1> QED
  BY <1>1, <1>2, <1>3, <1>4, <1>5 DEF KInv

LEMMA HandoverKInv ==
  ASSUME KInv, Handover
  PROVE  KInv'
  BY DEF Handover, KInv, TypeOK, NoKeySticks, Routed, FiresOncePerPress,
     RepeatsFireNothingNew, ChordHeld, chord, keyboard

LEMMA StepKInv == KInv /\ [Next]_vars => KInv'
<1> SUFFICES ASSUME KInv, [Next]_vars PROVE KInv'
  OBVIOUS
<1>1. CASE \E k \in Keys : Press(k) \/ Release(k) \/ ReleaseUnseen(k)
  BY <1>1, PressKInv, ReleaseKInv, ReleaseUnseenKInv
<1>2. CASE Repeat
  BY <1>2, RepeatKInv
<1>3. CASE Handover
  BY <1>3, HandoverKInv
<1>4. CASE UNCHANGED vars
  BY <1>4 DEF vars, chord, keyboard, told, KInv, TypeOK, NoKeySticks, Routed,
     FiresOncePerPress, RepeatsFireNothingNew, ChordHeld
<1> QED
  BY <1>1, <1>2, <1>3, <1>4 DEF Next

LEMMA Invariance == Spec => []KInv
  BY InitKInv, StepKInv, PTL DEF Spec

\* The state of the callback and of the two machines has its type.
THEOREM TypeCorrect == Spec => []TypeOK
<1>1. KInv => TypeOK
  BY DEF KInv
<1> QED
  BY <1>1, Invariance, PTL

\* Only a handover, a full channel or the leak of V makes a key stick.
THEOREM NothingSticks == Spec => []NoKeySticks
<1>1. KInv => NoKeySticks
  BY DEF KInv
<1> QED
  BY <1>1, Invariance, PTL

\* No key is down on both machines unless torn.
THEOREM NeverBoth == Spec => []OneMachine
<1>1. KInv => OneMachine
  BY DEF KInv, NoKeySticks, Routed, OneMachine
<1> QED
  BY <1>1, Invariance, PTL

\* The clipboard hotkey fires at most once per press of V.
THEOREM FiresOnce == Spec => []FiresOncePerPress
<1>1. KInv => FiresOncePerPress
  BY DEF KInv
<1> QED
  BY <1>1, Invariance, PTL

\* The clipboard hotkey fires only while Ctrl, Alt and V are all held.
THEOREM FiresOnChord == Spec => HotkeyNeedsChord
<1>1. KInv /\ [Next]_vars =>
        [~hotkeyVDown /\ hotkeyVDown' =>
           /\ V \in physical'
           /\ (physical' \cup unseen') \cap Ctrls # {}
           /\ (physical' \cup unseen') \cap Alts # {}]_vars
  <2> SUFFICES ASSUME KInv, Next, ~hotkeyVDown, hotkeyVDown'
               PROVE  /\ V \in physical'
                      /\ (physical' \cup unseen') \cap Ctrls # {}
                      /\ (physical' \cup unseen') \cap Alts # {}
    BY DEF vars, chord
  <2>1. CASE \E k \in Keys : Press(k)
    BY <2>1 DEF Press, keyDown, IsHotkey, KInv, ChordHeld
  <2>2. CASE \E k \in Keys : Release(k) \/ ReleaseUnseen(k)
    BY <2>2 DEF Release, Swallow, ReleaseUnseen, chord
  <2>3. CASE Repeat
    BY <2>3 DEF Repeat, keyDown, IsHotkey, KInv, ChordHeld, keyboard
  <2>4. CASE Handover
    BY <2>4 DEF Handover, chord
  <2> QED
    BY <2>1, <2>2, <2>3, <2>4 DEF Next
<1> QED
  BY <1>1, Invariance, PTL DEF Spec, HotkeyNeedsChord

=============================================================================
