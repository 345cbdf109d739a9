---------------------------- MODULE SharingProofs ----------------------------
(***************************************************************************)
(* Proofs about Sharing: its types, that the target and the devices agree  *)
(* on the keys once all is delivered, and that a paste is pressed with     *)
(* Ctrl alone.                                                             *)
(*                                                                         *)
(* The argument follows a key k through its two queues.  What the target   *)
(* will take k to be is decided by the last event of it in the channel, or *)
(* else on the connection, or else by down (EndDown).  If that is "down"   *)
(* then the controller has either not been told of the release yet         *)
(* (Untold), or the paste will release it, or its release was lost         *)
(* (NoneStick); and a held key that has not been told is at least unread   *)
(* (NoneMissing).                                                          *)
(***************************************************************************)
EXTENDS Sharing, SequenceTheorems, TLAPS

\* The last event of k in queue is a press.
LastDown(queue, k) ==
  \E i \in DOMAIN queue :
    /\ queue[i].key = k /\ queue[i].down
    /\ \A j \in DOMAIN queue : j > i => queue[j].key # k

OnTheWay(k) == Mentions(events, k) \/ Mentions(wire, k)

EndDown(k) ==
  IF Mentions(events, k) THEN LastDown(events, k)
  ELSE IF Mentions(wire, k) THEN LastDown(wire, k)
  ELSE k \in down

\* The rest of the paste releases k.
UpToCome(k) ==
  paste # 0 /\ \E j \in paste .. Len(PasteScript) : PasteScript[j] = KeyEvent(k, FALSE)

\* What the ends of the connection know of each other.
Ends ==
  /\ link = "up" => serving
  /\ link = "closed" => ctl = "off"
  /\ ctl = "off" =>
       /\ open = {} /\ events = <<>>
       /\ link = "cut" \/ ~serving => wire = <<>>

\* The unread events of a device end in what is held on it.
UnreadRight ==
  \A d \in Devices :
    /\ d \in open => \A k \in Keys :
         Mentions(unread[d], k) => (LastDown(unread[d], k) <=> k \in physical[d])
    /\ d \notin open => physical[d] = {} /\ unread[d] = <<>>

NoneStick ==
  \A k \in Keys \ stuck :
    IF link # "cut"
    THEN /\ OnTheWay(k) /\ EndDown(k) => k \in Untold
         /\ ~OnTheWay(k) /\ k \in down => k \in Untold \/ UpToCome(k)
    ELSE k \in down => UpToCome(k)

NoneMissing ==
  link = "up" =>
    \A d \in Devices : \A k \in physical[d] \ freed :
      EndDown(k) \/ Mentions(unread[d], k)

N == Len(ModifierKeys)

PasteClean ==
  paste # 0 /\ ~disturbed =>
    /\ paste <= N + 1 => \A i \in 1 .. N : i < paste => ModifierKeys[i] \notin down
    /\ paste = N + 2 => down \cap Modifiers = {Ctrl}

IInv == TypeOK /\ Ends /\ UnreadRight /\ NoneStick /\ NoneMissing /\ PasteClean

Message == Event \cup {Ping}

----------------------------------------------------------------------------
\* Queues.

\* What is appended to a queue is the last that it mentions of its key.
LEMMA AppendMentions ==
  ASSUME NEW queue \in Seq(Message), NEW e \in Message, NEW k \in Keys
  PROVE  /\ Append(queue, e) \in Seq(Message)
         /\ Mentions(Append(queue, e), k) <=> e.key = k \/ Mentions(queue, k)
         /\ e.key # k => (LastDown(Append(queue, e), k) <=> LastDown(queue, k))
         /\ e.key = k => (LastDown(Append(queue, e), k) <=> e.down)
<1> DEFINE longer == Append(queue, e)
           n == Len(queue)
<1>1. /\ longer \in Seq(Message)
      /\ DOMAIN queue = 1 .. n /\ n \in Nat
      /\ DOMAIN longer = 1 .. n + 1
      /\ longer[n + 1] = e
      /\ \A i \in 1 .. n : longer[i] = queue[i]
  OBVIOUS
<1> HIDE DEF longer, n
<1>2. Mentions(longer, k) <=> e.key = k \/ Mentions(queue, k)
  BY <1>1 DEF Mentions
<1>3. ASSUME e.key # k
      PROVE  LastDown(longer, k) <=> LastDown(queue, k)
  BY <1>1, <1>3 DEF LastDown
<1>4. ASSUME e.key = k
      PROVE  LastDown(longer, k) <=> e.down
  <2>1. ASSUME e.down
        PROVE  LastDown(longer, k)
    <3>1. /\ n + 1 \in DOMAIN longer
          /\ longer[n + 1].key = k /\ longer[n + 1].down
          /\ \A j \in DOMAIN longer : ~(j > n + 1)
      BY <1>1, <1>4, <2>1
    <3>2. QED
      BY <3>1 DEF LastDown
  <2>2. ASSUME LastDown(longer, k)
        PROVE  e.down
    <3>1. PICK i \in DOMAIN longer :
            /\ longer[i].down
            /\ \A j \in DOMAIN longer : j > i => longer[j].key # k
      BY <2>2 DEF LastDown
    <3>2. i = n + 1
      BY <1>1, <1>4, <3>1
    <3>3. QED
      BY <1>1, <3>1, <3>2
  <2>3. QED
    BY <2>1, <2>2
<1>5. QED
  BY <1>1, <1>2, <1>3, <1>4 DEF longer

\* What is taken from a queue matters only to a key that is not mentioned after
\* it.
LEMMA TailMentions ==
  ASSUME NEW queue \in Seq(Message), queue # <<>>, NEW k \in Keys
  PROVE  /\ Head(queue) \in Message /\ Tail(queue) \in Seq(Message)
         /\ Mentions(queue, k) <=> Head(queue).key = k \/ Mentions(Tail(queue), k)
         /\ Mentions(Tail(queue), k) => (LastDown(queue, k) <=> LastDown(Tail(queue), k))
         /\ ~Mentions(Tail(queue), k) /\ Head(queue).key = k =>
              (LastDown(queue, k) <=> Head(queue).down)
<1> DEFINE head == Head(queue)
           tail == Tail(queue)
           n == Len(queue)
<1>1. /\ n \in Nat /\ n # 0
      /\ DOMAIN queue = 1 .. n
      /\ DOMAIN tail = 1 .. n - 1
      /\ queue[1] = head
      /\ \A i \in 1 .. n - 1 : tail[i] = queue[i + 1]
      /\ head \in Message /\ tail \in Seq(Message)
  OBVIOUS
<1> HIDE DEF head, tail, n
<1>2. /\ 1 \in 1 .. n
      /\ \A i \in 1 .. n : i # 1 => i - 1 \in 1 .. n - 1 /\ queue[i] = tail[i - 1]
      /\ \A i \in 1 .. n - 1 : i + 1 \in 1 .. n /\ tail[i] = queue[i + 1]
  BY <1>1
<1>3. Mentions(queue, k) <=> head.key = k \/ Mentions(tail, k)
  <2>1. Mentions(queue, k) => head.key = k \/ Mentions(tail, k)
    BY <1>1, <1>2 DEF Mentions
  <2>2. head.key = k => Mentions(queue, k)
    BY <1>1, <1>2 DEF Mentions
  <2>3. ASSUME Mentions(tail, k)
        PROVE  Mentions(queue, k)
    <3>1. PICK i \in 1 .. n - 1 : tail[i].key = k
      BY <1>1, <2>3 DEF Mentions
    <3>2. i + 1 \in 1 .. n /\ queue[i + 1].key = k
      BY <1>2, <3>1
    <3>3. QED
      BY <1>1, <3>2 DEF Mentions
  <2>4. QED
    BY <2>1, <2>2, <2>3
<1>4. ASSUME LastDown(tail, k)
      PROVE  LastDown(queue, k)
  <2>1. PICK i \in 1 .. n - 1 :
          /\ tail[i].key = k /\ tail[i].down
          /\ \A j \in 1 .. n - 1 : j > i => tail[j].key # k
    BY <1>1, <1>4 DEF LastDown
  <2>2. /\ i + 1 \in 1 .. n
        /\ queue[i + 1].key = k /\ queue[i + 1].down
    BY <1>1, <2>1
  <2>3. \A j \in 1 .. n : j > i + 1 => queue[j].key # k
    BY <1>1, <1>2, <2>1
  <2>4. QED
    BY <1>1, <2>2, <2>3 DEF LastDown
<1>5. ASSUME LastDown(queue, k)
      PROVE  IF Mentions(tail, k) THEN LastDown(tail, k) ELSE head.down
  <2>1. PICK i \in 1 .. n :
          /\ queue[i].key = k /\ queue[i].down
          /\ \A j \in 1 .. n : j > i => queue[j].key # k
    BY <1>1, <1>5 DEF LastDown
  <2>2. CASE i = 1
    <3>1. \A j \in 1 .. n - 1 : tail[j].key # k
      BY <1>1, <2>1, <2>2
    <3>2. ~Mentions(tail, k)
      BY <1>1, <3>1 DEF Mentions
    <3>3. QED
      BY <1>1, <2>1, <2>2, <3>2
  <2>3. CASE i # 1
    <3>1. /\ i - 1 \in 1 .. n - 1
          /\ tail[i - 1].key = k /\ tail[i - 1].down
      BY <1>1, <1>2, <2>1, <2>3
    <3>2. \A j \in 1 .. n - 1 : j > i - 1 => tail[j].key # k
      BY <1>1, <2>1
    <3>3. LastDown(tail, k) /\ Mentions(tail, k)
      BY <1>1, <3>1, <3>2 DEF LastDown, Mentions
    <3>4. QED
      BY <3>3
  <2>4. QED
    BY <2>2, <2>3
<1>6. ASSUME ~Mentions(tail, k), head.key = k, head.down
      PROVE  LastDown(queue, k)
  <2>1. \A j \in 1 .. n : j > 1 => queue[j].key # k
    <3>1. \A j \in 1 .. n - 1 : tail[j].key # k
      BY <1>1, <1>6 DEF Mentions
    <3>2. QED
      BY <1>1, <1>2, <3>1
  <2>2. 1 \in 1 .. n
    BY <1>1
  <2>3. QED
    BY <1>1, <1>6, <2>1, <2>2 DEF LastDown
<1>7. QED
  BY <1>1, <1>3, <1>4, <1>5, <1>6 DEF head, tail

----------------------------------------------------------------------------
\* The paste.

LEMMA Script ==
  /\ N \in Nat
  /\ Len(PasteScript) = N + 4
  /\ PasteScript \in Seq(Event)
  /\ \A i \in 1 .. N :
       /\ ModifierKeys[i] \in Modifiers
       /\ PasteScript[i] = KeyEvent(ModifierKeys[i], FALSE)
  /\ PasteScript[N + 1] = KeyEvent(Ctrl, TRUE)
  /\ PasteScript[N + 2] = KeyEvent(V, TRUE)
  /\ PasteScript[N + 3] = KeyEvent(V, FALSE)
  /\ PasteScript[N + 4] = KeyEvent(Ctrl, FALSE)
<1>1. /\ N \in Nat
      /\ DOMAIN ModifierKeys = 1 .. N
      /\ \A i \in 1 .. N : ModifierKeys[i] \in Keys
  BY ModifiersAssumption DEF N
<1>2. Modifiers \subseteq Keys /\ {Ctrl, V} \subseteq Keys
  BY DEF Keys
<1>3. \A k \in Keys, b \in BOOLEAN : KeyEvent(k, b) \in Event
  BY DEF KeyEvent, Event
<1>4. /\ ReleaseModifiers \in Seq(Event)
      /\ Len(ReleaseModifiers) = N
      /\ \A i \in 1 .. N : ReleaseModifiers[i] = KeyEvent(ModifierKeys[i], FALSE)
  <2>1. ReleaseModifiers \in [1 .. N -> Event]
    BY <1>1, <1>3 DEF ReleaseModifiers
  <2>2. ReleaseModifiers \in Seq(Event)
    BY <1>1, <2>1, SeqDef
  <2>3. Len(ReleaseModifiers) = N
    BY <1>1, <2>1, <2>2
  <2>4. QED
    BY <1>1, <2>2, <2>3 DEF ReleaseModifiers
<1>5. /\ PressPaste \in Seq(Event)
      /\ Len(PressPaste) = 4
      /\ PressPaste[1] = KeyEvent(Ctrl, TRUE)
      /\ PressPaste[2] = KeyEvent(V, TRUE)
      /\ PressPaste[3] = KeyEvent(V, FALSE)
      /\ PressPaste[4] = KeyEvent(Ctrl, FALSE)
  <2>1. {KeyEvent(Ctrl, TRUE), KeyEvent(V, TRUE), KeyEvent(V, FALSE), KeyEvent(Ctrl, FALSE)}
           \subseteq Event
    BY <1>2, <1>3
  <2>2. PressPaste \in Seq(Event)
    <3>1. ASSUME NEW a \in Event, NEW b \in Event, NEW c \in Event, NEW d \in Event
          PROVE  <<a, b, c, d>> \in Seq(Event)
      OBVIOUS
    <3>2. QED
      BY <2>1, <3>1 DEF PressPaste
  <2>3. Len(PressPaste) = 4
    BY DEF PressPaste
  <2>4. PressPaste[1] = KeyEvent(Ctrl, TRUE)
    BY DEF PressPaste
  <2>5. PressPaste[2] = KeyEvent(V, TRUE)
    BY DEF PressPaste
  <2>6. PressPaste[3] = KeyEvent(V, FALSE)
    BY DEF PressPaste
  <2>7. PressPaste[4] = KeyEvent(Ctrl, FALSE)
    BY DEF PressPaste
  <2>8. QED
    BY <2>2, <2>3, <2>4, <2>5, <2>6, <2>7
<1>6. /\ Len(PasteScript) = N + 4
      /\ PasteScript \in Seq(Event)
      /\ \A i \in 1 .. N + 4 :
           PasteScript[i] = IF i <= N THEN ReleaseModifiers[i] ELSE PressPaste[i - N]
  <2>1. /\ PasteScript \in Seq(Event)
        /\ Len(PasteScript) = Len(ReleaseModifiers) + Len(PressPaste)
        /\ \A i \in 1 .. Len(ReleaseModifiers) + Len(PressPaste) :
             PasteScript[i] = IF i <= Len(ReleaseModifiers) THEN ReleaseModifiers[i]
                              ELSE PressPaste[i - Len(ReleaseModifiers)]
    BY <1>4, <1>5, ConcatProperties DEF PasteScript
  <2>2. QED
    BY <1>4, <1>5, <2>1
<1>7. /\ PasteScript[N + 1] = KeyEvent(Ctrl, TRUE)
      /\ PasteScript[N + 2] = KeyEvent(V, TRUE)
      /\ PasteScript[N + 3] = KeyEvent(V, FALSE)
      /\ PasteScript[N + 4] = KeyEvent(Ctrl, FALSE)
  <2>1. /\ {N + 1, N + 2, N + 3, N + 4} \subseteq 1 .. N + 4
        /\ ~(N + 1 <= N) /\ ~(N + 2 <= N) /\ ~(N + 3 <= N) /\ ~(N + 4 <= N)
        /\ (N + 1) - N = 1 /\ (N + 2) - N = 2 /\ (N + 3) - N = 3 /\ (N + 4) - N = 4
    BY <1>1
  <2>2. QED
    BY <1>5, <1>6, <2>1
<1>8. \A i \in 1 .. N :
       /\ ModifierKeys[i] \in Modifiers
       /\ PasteScript[i] = KeyEvent(ModifierKeys[i], FALSE)
  <2>1. \A i \in 1 .. N : i \in 1 .. N + 4 /\ i <= N
    BY <1>1
  <2>2. QED
    BY <1>1, <1>4, <1>6, <2>1 DEF Modifiers
<1>9. QED
  BY <1>1, <1>6, <1>7, <1>8

LEMMA EventFields ==
  \A k : /\ KeyEvent(k, TRUE).key = k /\ KeyEvent(k, TRUE).down
         /\ KeyEvent(k, FALSE).key = k /\ ~KeyEvent(k, FALSE).down
BY DEF KeyEvent

\* Every key that the paste presses it releases later.
LEMMA PressesAreReleased ==
  ASSUME NEW p \in 1 .. Len(PasteScript), PasteScript[p].down
  PROVE  \E j \in p + 1 .. Len(PasteScript) :
           PasteScript[j] = KeyEvent(PasteScript[p].key, FALSE)
<1>1. p = N + 1 \/ p = N + 2
  <2>1. p \in 1 .. N \/ p \in {N + 1, N + 2, N + 3, N + 4}
    BY Script
  <2>2. QED
    BY <2>1, Script, EventFields
<1>2. CASE p = N + 1
  <2>1. N + 4 \in p + 1 .. Len(PasteScript) /\ PasteScript[p].key = Ctrl
    BY <1>2, Script DEF KeyEvent
  <2>2. QED
    BY <2>1, Script
<1>3. CASE p = N + 2
  <2>1. N + 3 \in p + 1 .. Len(PasteScript) /\ PasteScript[p].key = V
    BY <1>3, Script DEF KeyEvent
  <2>2. QED
    BY <2>1, Script
<1>4. QED
  BY <1>1, <1>2, <1>3

----------------------------------------------------------------------------
\* Types.

LEMMA TypeInit == Init => TypeOK
<1> SUFFICES ASSUME Init
             PROVE  TypeOK
  OBVIOUS
<1>1. 0 \in 0 .. Len(PasteScript)
  BY Script
<1>2. unread \in [Devices -> Seq(Event)]
  BY DEF Init, Nothing
<1>3. MaxEvents >= 0 /\ MaxWire >= 0
  BY BoundsAssumption
<1>4. physical \in [Devices -> SUBSET Keys]
  BY DEF Init
<1>5. events \in Seq(Event) /\ Len(events) <= MaxEvents
  BY <1>3 DEF Init
<1>6. wire \in Seq(Event \cup {Ping}) /\ Len(wire) <= MaxWire
  BY <1>3 DEF Init
<1>7. QED
  BY <1>1, <1>2, <1>4, <1>5, <1>6 DEF Init, TypeOK

LEMMA KeysOfDevices == \A d \in Devices : KeysOf[d] \subseteq Keys
BY DevicesAssumption

LEMMA LoseType ==
  ASSUME TypeOK, NEW e \in Event, Lose(e)
  PROVE  stuck' \subseteq Keys /\ freed' \subseteq Keys
BY DEF TypeOK, Lose, Event

LEMMA TypeStep ==
  ASSUME TypeOK, [Next]_vars
  PROVE  TypeOK'
<1> USE DEF source, target, pasting, history
<1>1. ASSUME NEW d \in Devices, NEW k \in KeysOf[d], Strike(d, k)
      PROVE  TypeOK'
  <2>1. k \in Keys /\ KeyEvent(k, k \notin physical[d]) \in Event
    BY KeysOfDevices DEF KeyEvent, Event
  <2>2. physical' \in [Devices -> SUBSET Keys]
    BY <1>1, <2>1 DEF Strike, TypeOK
  <2>3. unread' \in [Devices -> Seq(Event)]
    BY <1>1, <2>1 DEF Strike, TypeOK
  <2>4. QED
    BY <1>1, <2>2, <2>3 DEF Strike, TypeOK
<1>2. ASSUME NEW d \in Devices, ReadLoop(d)
      PROVE  TypeOK'
  <2> DEFINE e == Head(unread[d])
  <2>1. e \in Event /\ e.key \in Keys
    <3>1. unread[d] \in Seq(Event) /\ unread[d] # <<>>
      BY <1>2 DEF ReadLoop, TypeOK
    <3>2. e \in Event
      BY <3>1
    <3>3. QED
      BY <3>2 DEF Event
  <2>2. unread' \in [Devices -> Seq(Event)]
    BY <1>2 DEF ReadLoop, TypeOK
  <2>3. Send(d, e)
    BY <1>2 DEF ReadLoop
  <2> HIDE DEF e
  <2>4. /\ events' \in Seq(Event) /\ Len(events') <= MaxEvents
        /\ stuck' \subseteq Keys /\ freed' \subseteq Keys
    <3>1. CASE Len(events) < MaxEvents /\ events' = Append(events, e)
      <4>1. events' \in Seq(Event) /\ Len(events') <= MaxEvents
        BY <2>1, <3>1, BoundsAssumption DEF TypeOK
      <4>2. Len(events) < MaxEvents => events' # events
        BY <2>1, <3>1 DEF TypeOK
      <4>3. stuck' \subseteq Keys /\ freed' \subseteq Keys
        BY <2>1, <2>3, <3>1, <4>2 DEF TypeOK, Send
      <4>4. QED
        BY <4>1, <4>3
    <3>2. CASE Lose(e) /\ UNCHANGED events
      BY <2>1, <3>2, LoseType DEF TypeOK
    <3>3. QED
      BY <2>3, <3>1, <3>2 DEF Send
  <2>5. QED
    BY <1>2, <2>2, <2>4 DEF ReadLoop, TypeOK
<1>3. ASSUME NEW d \in Devices, Unplug(d)
      PROVE  TypeOK'
  <2>1. physical' \in [Devices -> SUBSET Keys]
    BY <1>3 DEF Unplug, TypeOK
  <2>2. unread' \in [Devices -> Seq(Event)]
    BY <1>3 DEF Unplug, TypeOK
  <2>3. stuck' \subseteq Keys /\ freed' \subseteq Keys
    BY <1>3 DEF Unplug, TypeOK
  <2>4. QED
    BY <1>3, <2>1, <2>2, <2>3 DEF Unplug, TypeOK
<1>4. ASSUME NEW devices \in SUBSET Devices, Connect(devices)
      PROVE  TypeOK'
  <2>1. physical' \in [Devices -> SUBSET Keys]
    BY <1>4 DEF Connect, TypeOK
  <2>2. freed' \subseteq Keys
    BY <1>4, <2>1 DEF Connect, Held
  <2>3. kind' \in {"legacy", "edge"} /\ open' \subseteq Devices
    BY <1>4 DEF Connect, TypeOK
  <2>4. QED
    BY <1>4, <2>1, <2>2, <2>3 DEF Connect, TypeOK
<1>5. ASSUME Forward
      PROVE  TypeOK'
  <2>1. Head(events) \in Event /\ Tail(events) \in Seq(Event)
        /\ Len(Tail(events)) <= MaxEvents
    BY <1>5, BoundsAssumption DEF Forward, TypeOK
  <2>2. wire' \in Seq(Event \cup {Ping}) /\ Len(wire') <= MaxWire
    BY <1>5, <2>1, BoundsAssumption DEF Forward, Write, TypeOK
  <2>3. QED
    BY <1>5, <2>1, <2>2 DEF Forward, TypeOK
<1>6. ASSUME SendPing
      PROVE  TypeOK'
  <2>1. wire' \in Seq(Event \cup {Ping}) /\ Len(wire') <= MaxWire
    BY <1>6, BoundsAssumption DEF SendPing, Write, TypeOK
  <2>2. QED
    BY <1>6, <2>1 DEF SendPing, TypeOK
<1>7. Untold \subseteq Keys
  BY DEF Untold, Held, TypeOK
<1>8. ASSUME End
      PROVE  TypeOK'
  <2>1. physical' \in [Devices -> SUBSET Keys] /\ unread' \in [Devices -> Seq(Event)]
    BY <1>8 DEF End, Nothing
  <2>2. events' \in Seq(Event) /\ Len(events') <= MaxEvents
    BY <1>8, BoundsAssumption DEF End
  <2>3. wire' \in Seq(Event \cup {Ping}) /\ Len(wire') <= MaxWire
    BY <1>8, BoundsAssumption DEF End, TypeOK
  <2>4. stuck' \subseteq Keys /\ freed' \subseteq Keys
    BY <1>7, <1>8 DEF End, TypeOK
  <2>5. QED
    BY <1>8, <2>1, <2>2, <2>3, <2>4 DEF End, TypeOK
<1>9. ASSUME Stop
      PROVE  TypeOK'
  <2>1. physical' \in [Devices -> SUBSET Keys] /\ unread' \in [Devices -> Seq(Event)]
    BY <1>9 DEF Stop, Nothing
  <2>2. QED
    BY <1>7, <1>9, <2>1 DEF Stop, TypeOK
<1>10. ASSUME Cut
       PROVE  TypeOK'
  <2>1. wire' \in Seq(Event \cup {Ping}) /\ Len(wire') <= MaxWire
    BY <1>10, BoundsAssumption DEF Cut
  <2>2. QED
    BY <1>10, <2>1 DEF Cut, TypeOK
<1>11. ASSUME Receive
       PROVE  /\ wire' \in Seq(Event \cup {Ping}) /\ Len(wire') <= MaxWire
              /\ Head(wire) # Ping => Head(wire) \in Event
  BY <1>11, BoundsAssumption DEF Receive, TypeOK
<1>12. ASSUME DispatchKey
       PROVE  TypeOK'
  <2> DEFINE e == Head(wire)
  <2>1. e \in Event /\ e.key \in Keys /\ Inject(e)
    BY <1>11, <1>12 DEF DispatchKey, Event
  <2> HIDE DEF e
  <2>2. down' \subseteq Keys /\ stuck' \subseteq Keys /\ freed' \subseteq Keys
    BY <2>1, LoseType DEF Inject, TypeOK
  <2>3. QED
    BY <1>11, <1>12, <2>2 DEF DispatchKey, TypeOK
<1>13. ASSUME DispatchPing
       PROVE  TypeOK'
  BY <1>11, <1>13 DEF DispatchPing, TypeOK
<1>14. ASSUME Return
       PROVE  TypeOK'
  BY <1>14 DEF Return, TypeOK
<1>15. ASSUME BeginPaste
       PROVE  TypeOK'
  BY <1>15, Script DEF BeginPaste, TypeOK
<1>16. ASSUME PasteStep
       PROVE  TypeOK'
  <2> DEFINE e == PasteScript[paste]
  <2>1. paste \in 1 .. Len(PasteScript) /\ e \in Event
    BY <1>16, Script DEF PasteStep, TypeOK
  <2>2. e.key \in Keys
    BY <2>1 DEF Event
  <2>3. paste' \in 0 .. Len(PasteScript)
    BY <1>16, <2>1, Script DEF PasteStep, TypeOK
  <2>4. down' \subseteq Keys /\ disturbed' \in BOOLEAN
    BY <1>16, <2>2 DEF PasteStep, TypeOK
  <2>5. stuck' \subseteq Keys /\ freed' \subseteq Keys
    BY <1>16, <2>1, <2>2, LoseType DEF PasteStep, TypeOK
  <2>6. QED
    BY <1>16, <2>3, <2>4, <2>5 DEF PasteStep, TypeOK
<1>17. CASE UNCHANGED vars
  BY <1>17 DEF vars, TypeOK
<1>18. QED
  BY <1>1, <1>2, <1>3, <1>4, <1>5, <1>6, <1>8, <1>9, <1>10, <1>12, <1>13, <1>14,
     <1>15, <1>16, <1>17
     DEF Next, Process, Loop, Target, Fatal, Exit

\* The variables keep their types, the channel and the connection their
\* capacities.
THEOREM TypeCorrect == Spec => []TypeOK
<1>1. QED
  BY TypeInit, TypeStep, PTL DEF Spec

----------------------------------------------------------------------------
\* The queues and what they end in, action by action.

LEMMA Messages ==
  ASSUME TypeOK
  PROVE  /\ events \in Seq(Message) /\ wire \in Seq(Message)
         /\ \A d \in Devices : unread[d] \in Seq(Message)
         /\ Event \subseteq Message /\ Ping \in Message
         /\ \A k \in Keys : Ping.key # k
         /\ \A k : ~Mentions(<<>>, k)
<1>1. Event \subseteq Message /\ Ping \in Message
  BY DEF Message
<1>2. \A queue \in Seq(Event) : queue \in Seq(Message)
  BY <1>1, SeqMonotonic
<1>3. /\ events \in Seq(Event) /\ wire \in Seq(Message)
      /\ \A d \in Devices : unread[d] \in Seq(Event)
  BY DEF TypeOK, Message
<1>4. \A k \in Keys : Ping.key # k
  BY ModifiersAssumption DEF Ping
<1>5. \A k : ~Mentions(<<>>, k)
  BY DEF Mentions
<1>6. QED
  BY <1>1, <1>2, <1>3, <1>4, <1>5

LEMMA ForwardKeeps ==
  ASSUME TypeOK, Forward, NEW k \in Keys
  PROVE  (OnTheWay(k)' <=> OnTheWay(k)) /\ (EndDown(k)' <=> EndDown(k))
<1>1. /\ events \in Seq(Message) /\ wire \in Seq(Message)
      /\ events # <<>>
      /\ events' = Tail(events) /\ wire' = Append(wire, Head(events))
      /\ down' = down
  BY Messages DEF Forward, Write, target
<1>2. /\ Head(events) \in Message
      /\ Mentions(events, k) <=> Head(events).key = k \/ Mentions(events', k)
      /\ Mentions(events', k) => (LastDown(events, k) <=> LastDown(events', k))
      /\ ~Mentions(events', k) /\ Head(events).key = k =>
           (LastDown(events, k) <=> Head(events).down)
  BY <1>1, TailMentions
<1>3. /\ Mentions(wire', k) <=> Head(events).key = k \/ Mentions(wire, k)
      /\ Head(events).key # k => (LastDown(wire', k) <=> LastDown(wire, k))
      /\ Head(events).key = k => (LastDown(wire', k) <=> Head(events).down)
  BY <1>1, <1>2, AppendMentions
<1>4. OnTheWay(k)' <=> OnTheWay(k)
  BY <1>2, <1>3 DEF OnTheWay
<1>5. EndDown(k)' <=> EndDown(k)
  BY <1>1, <1>2, <1>3 DEF EndDown
<1>6. QED
  BY <1>4, <1>5

LEMMA SendPingKeeps ==
  ASSUME TypeOK, SendPing, NEW k \in Keys
  PROVE  (OnTheWay(k)' <=> OnTheWay(k)) /\ (EndDown(k)' <=> EndDown(k))
<1>1. /\ wire \in Seq(Message) /\ wire' = Append(wire, Ping)
      /\ Ping \in Message /\ Ping.key # k
      /\ UNCHANGED <<events, down>>
  BY Messages DEF SendPing, Write, source, target
<1>2. /\ Mentions(wire', k) <=> Mentions(wire, k)
      /\ LastDown(wire', k) <=> LastDown(wire, k)
  BY <1>1, AppendMentions
<1>3. QED
  BY <1>1, <1>2 DEF OnTheWay, EndDown

\* The target takes a message from the connection.
LEMMA ReceiveKeeps ==
  ASSUME TypeOK, Receive, events' = events, NEW k \in Keys
  PROVE  /\ Head(wire) \in Message
         /\ OnTheWay(k)' => OnTheWay(k) /\ (EndDown(k)' <=> EndDown(k))
         /\ Head(wire).key = k => OnTheWay(k)
         /\ OnTheWay(k) /\ ~OnTheWay(k)' =>
              Head(wire).key = k /\ (EndDown(k) <=> Head(wire).down)
<1>1. wire \in Seq(Message) /\ wire # <<>> /\ wire' = Tail(wire)
  BY Messages DEF Receive
<1>2. /\ Head(wire) \in Message
      /\ Mentions(wire, k) <=> Head(wire).key = k \/ Mentions(wire', k)
      /\ Mentions(wire', k) => (LastDown(wire, k) <=> LastDown(wire', k))
      /\ ~Mentions(wire', k) /\ Head(wire).key = k => (LastDown(wire, k) <=> Head(wire).down)
  BY <1>1, TailMentions
<1>3. QED
  BY <1>2 DEF OnTheWay, EndDown

\* A device's reader sends e, the oldest event of device d.
LEMMA ReadLoopSends ==
  ASSUME TypeOK, NEW d \in Devices, ReadLoop(d), NEW k \in Keys
  PROVE  LET e == Head(unread[d])
         IN /\ e \in Event
            /\ \A c \in Devices \ {d} : unread'[c] = unread[c]
            /\ Mentions(unread[d], k) <=> e.key = k \/ Mentions(unread'[d], k)
            /\ Mentions(unread'[d], k) => (LastDown(unread[d], k) <=> LastDown(unread'[d], k))
            /\ ~Mentions(unread'[d], k) /\ e.key = k => (LastDown(unread[d], k) <=> e.down)
            /\ events' = Append(events, e) =>
                 /\ e.key = k => OnTheWay(k)' /\ (EndDown(k)' <=> e.down)
                 /\ e.key # k => (OnTheWay(k)' <=> OnTheWay(k)) /\ (EndDown(k)' <=> EndDown(k))
<1> DEFINE e == Head(unread[d])
<1>1. /\ unread[d] \in Seq(Event) /\ unread[d] \in Seq(Message) /\ unread[d] # <<>>
      /\ unread'[d] = Tail(unread[d])
      /\ \A c \in Devices \ {d} : unread'[c] = unread[c]
      /\ events \in Seq(Message)
      /\ UNCHANGED <<wire, down>>
  BY Messages DEF ReadLoop, TypeOK, target
<1>2. e \in Event /\ e \in Message
  BY <1>1, Messages
<1> HIDE DEF e
<1>3. /\ Mentions(unread[d], k) <=> e.key = k \/ Mentions(unread'[d], k)
      /\ Mentions(unread'[d], k) => (LastDown(unread[d], k) <=> LastDown(unread'[d], k))
      /\ ~Mentions(unread'[d], k) /\ e.key = k => (LastDown(unread[d], k) <=> e.down)
  BY <1>1, TailMentions DEF e
<1>4. ASSUME events' = Append(events, e)
      PROVE  /\ e.key = k => OnTheWay(k)' /\ (EndDown(k)' <=> e.down)
             /\ e.key # k => (OnTheWay(k)' <=> OnTheWay(k)) /\ (EndDown(k)' <=> EndDown(k))
  <2>1. /\ Mentions(events', k) <=> e.key = k \/ Mentions(events, k)
        /\ e.key # k => (LastDown(events', k) <=> LastDown(events, k))
        /\ e.key = k => (LastDown(events', k) <=> e.down)
    BY <1>1, <1>2, <1>4, AppendMentions
  <2>2. QED
    BY <1>1, <2>1 DEF OnTheWay, EndDown
<1>5. QED
  BY <1>1, <1>2, <1>3, <1>4 DEF e

----------------------------------------------------------------------------
\* The invariant, conjunct by conjunct.

LEMMA InvInit == Init => IInv
<1> SUFFICES ASSUME Init
             PROVE  IInv
  OBVIOUS
<1>1. TypeOK
  BY TypeInit
<1>2. \A k : ~Mentions(<<>>, k)
  BY DEF Mentions
<1>3. /\ link = "closed" /\ ctl = "off" /\ ~serving
      /\ open = {} /\ events = <<>> /\ wire = <<>> /\ down = {} /\ paste = 0
      /\ \A d \in Devices : physical[d] = {} /\ unread[d] = <<>>
  BY DEF Init, Nothing
<1>4. Ends /\ UnreadRight /\ NoneMissing /\ PasteClean
  BY <1>3 DEF Ends, UnreadRight, NoneMissing, PasteClean
<1>5. NoneStick
  BY <1>2, <1>3 DEF NoneStick, OnTheWay
<1>6. QED
  BY <1>1, <1>4, <1>5 DEF IInv

LEMMA EndsStep ==
  ASSUME TypeOK, Ends, [Next]_vars
  PROVE  Ends'
<1> USE DEF source, target, pasting, history
<1>1. ASSUME NEW d \in Devices, NEW k \in KeysOf[d], Strike(d, k)
      PROVE  Ends'
  BY <1>1 DEF Strike, Ends
<1>2. ASSUME NEW d \in Devices, ReadLoop(d)
      PROVE  Ends'
  BY <1>2 DEF ReadLoop, Ends
<1>3. ASSUME NEW d \in Devices, Unplug(d)
      PROVE  Ends'
  BY <1>3 DEF Unplug, Ends
<1>4. ASSUME NEW devices \in SUBSET Devices, Connect(devices)
      PROVE  Ends'
  BY <1>4 DEF Connect, Ends
<1>5. ASSUME Forward
      PROVE  Ends'
  BY <1>5 DEF Forward, Ends
<1>6. ASSUME SendPing
      PROVE  Ends'
  BY <1>6 DEF SendPing, Ends
<1>7. ASSUME ctl # "off", End
      PROVE  Ends'
  BY <1>7 DEF End, Ends, TypeOK
<1>8. ASSUME Stop
      PROVE  Ends'
  BY <1>8 DEF Stop, Ends
<1>9. ASSUME Cut
      PROVE  Ends'
  BY <1>9 DEF Cut, Ends
<1>10. ASSUME DispatchKey
       PROVE  Ends'
  BY <1>10 DEF DispatchKey, Receive, Ends
<1>11. ASSUME DispatchPing
       PROVE  Ends'
  BY <1>11 DEF DispatchPing, Receive, Ends
<1>12. ASSUME Return
       PROVE  Ends'
  BY <1>12 DEF Return, Ends
<1>13. ASSUME BeginPaste
       PROVE  Ends'
  BY <1>13 DEF BeginPaste, Ends
<1>14. ASSUME PasteStep
       PROVE  Ends'
  BY <1>14 DEF PasteStep, Ends
<1>15. CASE UNCHANGED vars
  BY <1>15 DEF vars, Ends
<1>16. QED
  BY <1>1, <1>2, <1>3, <1>4, <1>5, <1>6, <1>7, <1>8, <1>9, <1>10, <1>11, <1>12,
     <1>13, <1>14, <1>15
     DEF Next, Process, Loop, Target, Fatal, Exit

LEMMA UnreadRightStep ==
  ASSUME TypeOK, Ends, UnreadRight, [Next]_vars
  PROVE  UnreadRight'
<1> USE DEF source, target, pasting, history
<1>1. ASSUME NEW d \in Devices, NEW k \in KeysOf[d], Strike(d, k)
      PROVE  UnreadRight'
  <2> DEFINE e == KeyEvent(k, k \notin physical[d])
  <2>1. /\ k \in Keys /\ e \in Event /\ e.key = k /\ (e.down <=> k \notin physical[d])
    BY KeysOfDevices DEF KeyEvent, Event
  <2> HIDE DEF e
  <2>2. /\ d \in open /\ open' = open
        /\ unread'[d] = Append(unread[d], e)
        /\ physical'[d] = IF k \in physical[d] THEN physical[d] \ {k} ELSE physical[d] \cup {k}
        /\ \A c \in Devices \ {d} : unread'[c] = unread[c] /\ physical'[c] = physical[c]
    BY <1>1 DEF Strike, TypeOK, e
  <2>3. ASSUME NEW j \in Keys, Mentions(unread'[d], j)
        PROVE  LastDown(unread'[d], j) <=> j \in physical'[d]
    <3>1. unread[d] \in Seq(Message) /\ e \in Message
      BY <2>1, Messages
    <3>2. /\ Mentions(unread'[d], j) <=> e.key = j \/ Mentions(unread[d], j)
          /\ e.key # j => (LastDown(unread'[d], j) <=> LastDown(unread[d], j))
          /\ e.key = j => (LastDown(unread'[d], j) <=> e.down)
      BY <2>2, <3>1, AppendMentions
    <3>3. QED
      BY <2>1, <2>2, <2>3, <3>2 DEF UnreadRight
  <2>4. QED
    BY <2>2, <2>3 DEF UnreadRight
<1>2. ASSUME NEW d \in Devices, ReadLoop(d)
      PROVE  UnreadRight'
  <2>1. d \in open /\ UNCHANGED <<open, physical>>
    BY <1>2 DEF ReadLoop
  <2>2. \A c \in Devices \ {d} : unread'[c] = unread[c]
    BY <1>2 DEF ReadLoop, TypeOK
  <2>3. ASSUME NEW j \in Keys, Mentions(unread'[d], j)
        PROVE  LastDown(unread'[d], j) <=> j \in physical'[d]
    BY <1>2, <2>1, <2>3, ReadLoopSends DEF UnreadRight
  <2>4. QED
    BY <2>1, <2>2, <2>3 DEF UnreadRight
<1>3. ASSUME NEW d \in Devices, Unplug(d)
      PROVE  UnreadRight'
  BY <1>3 DEF Unplug, UnreadRight, TypeOK
<1>4. ASSUME NEW devices \in SUBSET Devices, Connect(devices)
      PROVE  UnreadRight'
  <2>1. \A d \in Devices : unread'[d] = <<>>
    BY <1>4 DEF Connect, Ends, UnreadRight
  <2>2. \A d \in Devices : d \notin open' => physical'[d] = {}
    BY <1>4 DEF Connect
  <2>3. QED
    BY <2>1, <2>2, Messages DEF UnreadRight
<1>5. ASSUME End \/ Stop
      PROVE  UnreadRight'
  BY <1>5 DEF End, Stop, Nothing, UnreadRight
<1>6. CASE UNCHANGED <<open, physical, unread>>
  BY <1>6 DEF UnreadRight
<1>7. QED
  BY <1>1, <1>2, <1>3, <1>4, <1>5, <1>6
     DEF Next, Process, Loop, Target, Fatal, Exit, Forward, SendPing, Cut, DispatchKey,
         DispatchPing, Return, BeginPaste, PasteStep, vars

\* A step that neither delivers nor pastes keeps NoneStick when it leaves what
\* the keys end in, and forgets of no key.
LEMMA NoneStickFrame ==
  ASSUME NoneStick, UNCHANGED <<link, down, paste>>,
         stuck \subseteq stuck',
         \A k \in Keys \ stuck' :
           /\ OnTheWay(k)' <=> OnTheWay(k)
           /\ EndDown(k)' <=> EndDown(k)
           /\ k \in Untold => k \in Untold'
  PROVE  NoneStick'
BY DEF NoneStick, UpToCome

LEMMA NoneStickStep ==
  ASSUME IInv, TypeOK', [Next]_vars
  PROVE  NoneStick'
<1> USE DEF source, target, pasting, history
<1>0. TypeOK /\ Ends /\ UnreadRight /\ NoneStick
  BY DEF IInv
<1>1. ASSUME NEW d \in Devices, NEW k \in KeysOf[d], Strike(d, k)
      PROVE  NoneStick'
  <2>1. UNCHANGED <<link, down, paste, stuck, events, wire, open>> /\ d \in open
    BY <1>1 DEF Strike
  <2>2. ASSUME NEW j \in Keys, j \in Untold
        PROVE  j \in Untold'
    <3> DEFINE e == KeyEvent(k, k \notin physical[d])
    <3>1. /\ k \in Keys /\ e \in Message /\ e.key = k
          /\ unread[d] \in Seq(Message)
      BY <1>0, KeysOfDevices, Messages DEF KeyEvent, Event, Message
    <3> HIDE DEF e
    <3>2. /\ unread'[d] = Append(unread[d], e)
          /\ \A c \in Devices \ {d} : unread'[c] = unread[c] /\ physical'[c] = physical[c]
          /\ j # k => (j \in physical'[d] <=> j \in physical[d])
      BY <1>0, <1>1 DEF Strike, TypeOK, e
    <3>3. Mentions(unread'[d], j) <=> e.key = j \/ Mentions(unread[d], j)
      BY <3>1, <3>2, AppendMentions
    <3>4. open \subseteq Devices
      BY <1>0 DEF TypeOK
    <3>5. QED
      BY <2>1, <2>2, <3>1, <3>2, <3>3, <3>4 DEF Untold, Held
  <2>3. \A j \in Keys : (OnTheWay(j)' <=> OnTheWay(j)) /\ (EndDown(j)' <=> EndDown(j))
    BY <2>1 DEF OnTheWay, EndDown
  <2>4. QED
    BY <1>0, <2>1, <2>2, <2>3, NoneStickFrame
<1>2. ASSUME NEW d \in Devices, ReadLoop(d)
      PROVE  NoneStick'
  <2> DEFINE e == Head(unread[d])
  <2>1. /\ UNCHANGED <<link, wire, down, paste, physical, open>> /\ d \in open
        /\ link # "closed" /\ open \subseteq Devices
        /\ Send(d, e)
    BY <1>0, <1>2 DEF ReadLoop, Ends, TypeOK
  <2>2. e.key \in Keys /\ e.down \in BOOLEAN
    BY <1>0, <1>2, ReadLoopSends, ModifiersAssumption DEF Event, Keys
  <2>3. \A j \in Keys :
          /\ \A c \in Devices \ {d} : unread'[c] = unread[c]
          /\ Mentions(unread[d], j) <=> e.key = j \/ Mentions(unread'[d], j)
          /\ Mentions(unread'[d], j) => (LastDown(unread[d], j) <=> LastDown(unread'[d], j))
          /\ ~Mentions(unread'[d], j) /\ e.key = j => (LastDown(unread[d], j) <=> e.down)
          /\ events' = Append(events, e) =>
               /\ e.key = j => OnTheWay(j)' /\ (EndDown(j)' <=> e.down)
               /\ e.key # j => (OnTheWay(j)' <=> OnTheWay(j)) /\ (EndDown(j)' <=> EndDown(j))
    BY <1>0, <1>2, ReadLoopSends
  <2> HIDE DEF e
  <2>4. ASSUME NEW j \in Keys, j \in Untold, j # e.key
        PROVE  j \in Untold'
    BY <2>1, <2>3, <2>4 DEF Untold, Held
  <2>5. ASSUME e.down
        PROVE  e.key \in Untold'
    <3>1. CASE Mentions(unread'[d], e.key)
      BY <2>1, <2>2, <3>1 DEF Untold
    <3>2. CASE ~Mentions(unread'[d], e.key)
      <4>1. e.key \in physical[d]
        BY <1>0, <2>1, <2>2, <2>3, <2>5, <3>2 DEF UnreadRight
      <4>2. QED
        BY <2>1, <4>1 DEF Untold, Held
    <3>3. QED
      BY <3>1, <3>2
  <2>6. CASE Len(events) < MaxEvents /\ events' = Append(events, e)
                /\ stuck' = IF link = "up" THEN stuck \ {e.key} ELSE stuck
    <3>1. ASSUME NEW j \in Keys \ stuck', j # e.key
          PROVE  /\ j \notin stuck
                 /\ OnTheWay(j)' <=> OnTheWay(j)
                 /\ EndDown(j)' <=> EndDown(j)
                 /\ j \in Untold => j \in Untold'
      BY <2>2, <2>3, <2>4, <2>6, <3>1
    <3>2. ASSUME NEW j \in Keys, j = e.key
          PROVE  OnTheWay(j)' /\ (EndDown(j)' => j \in Untold')
      BY <2>3, <2>5, <2>6, <3>2
    <3>3. link = "cut" => stuck' = stuck
      BY <2>6
    <3>4. \A j : UpToCome(j)' <=> UpToCome(j)
      BY <2>1 DEF UpToCome
    <3>5. QED
      BY <1>0, <2>1, <3>1, <3>2, <3>3, <3>4 DEF NoneStick
  <2>7. CASE Lose(e) /\ UNCHANGED events
    <3>1. stuck \subseteq stuck' /\ (~e.down => e.key \in stuck')
      BY <2>7 DEF Lose
    <3>2. \A j \in Keys : (OnTheWay(j)' <=> OnTheWay(j)) /\ (EndDown(j)' <=> EndDown(j))
      BY <2>1, <2>7 DEF OnTheWay, EndDown
    <3>3. QED
      BY <1>0, <2>1, <2>4, <2>5, <3>1, <3>2, NoneStickFrame
  <2>8. QED
    BY <2>1, <2>6, <2>7 DEF Send
<1>3. ASSUME NEW d \in Devices, Unplug(d)
      PROVE  NoneStick'
  <2>1. /\ UNCHANGED <<link, wire, events, down, paste>>
        /\ stuck \subseteq stuck'
        /\ d \in open /\ open' = open \ {d} /\ open \subseteq Devices
        /\ \A j \in Keys \ stuck' : j \notin physical[d] /\ ~Mentions(unread[d], j)
        /\ \A c \in Devices \ {d} : unread'[c] = unread[c] /\ physical'[c] = physical[c]
    BY <1>0, <1>3 DEF Unplug, TypeOK
  <2>2. ASSUME NEW j \in Keys \ stuck', j \in Untold
        PROVE  j \in Untold'
    BY <2>1, <2>2 DEF Untold, Held
  <2>3. \A j \in Keys : (OnTheWay(j)' <=> OnTheWay(j)) /\ (EndDown(j)' <=> EndDown(j))
    BY <2>1 DEF OnTheWay, EndDown
  <2>4. QED
    BY <1>0, <2>1, <2>2, <2>3, NoneStickFrame
<1>4. ASSUME NEW devices \in SUBSET Devices, Connect(devices)
      PROVE  NoneStick'
  <2>1. /\ UNCHANGED <<wire, events, down, paste, stuck>>
        /\ events = <<>> /\ wire = <<>> /\ open = {} /\ link' = "up"
    BY <1>0, <1>4 DEF Connect, Ends
  <2>2. \A j \in Keys : ~OnTheWay(j) /\ ~OnTheWay(j)' /\ (UpToCome(j)' <=> UpToCome(j))
    BY <1>0, <2>1, Messages DEF OnTheWay, UpToCome
  <2>3. \A j \in Keys : j \notin Untold
    BY <1>0, <2>1 DEF Untold, Held, UnreadRight
  <2>4. \A j \in Keys \ stuck : j \in down => UpToCome(j)
    BY <1>0, <2>2, <2>3 DEF NoneStick
  <2>5. QED
    BY <2>1, <2>2, <2>4 DEF NoneStick
<1>5. ASSUME Forward
      PROVE  NoneStick'
  <2>1. UNCHANGED <<link, down, paste, stuck, physical, open, unread>>
    BY <1>5 DEF Forward
  <2>2. \A j \in Keys : j \in Untold => j \in Untold'
    BY <2>1 DEF Untold, Held
  <2>3. QED
    BY <1>0, <1>5, <2>1, <2>2, ForwardKeeps, NoneStickFrame
<1>6. ASSUME SendPing
      PROVE  NoneStick'
  <2>1. UNCHANGED <<link, down, paste, stuck, physical, open, unread>>
    BY <1>6 DEF SendPing
  <2>2. \A j \in Keys : j \in Untold => j \in Untold'
    BY <2>1 DEF Untold, Held
  <2>3. QED
    BY <1>0, <1>6, <2>1, <2>2, SendPingKeeps, NoneStickFrame
<1>7. ASSUME ctl # "off", End
      PROVE  NoneStick'
  <2>1. /\ UNCHANGED <<down, paste>>
        /\ events' = <<>>
        /\ link # "closed" /\ link' # "up"
        /\ link' = "closed" => link = "up" /\ wire' = wire
        /\ stuck' = stuck \cup Untold \cup {j \in Keys : Mentions(events, j)}
    BY <1>0, <1>7 DEF End, Ends, TypeOK
  <2>2. \A j \in Keys : ~Mentions(events', j) /\ (UpToCome(j)' <=> UpToCome(j))
    BY <1>0, <2>1, Messages DEF UpToCome
  <2>3. ASSUME NEW j \in Keys \ stuck'
        PROVE  j \notin stuck /\ j \notin Untold /\ ~Mentions(events, j)
    BY <2>1, <2>3
  <2>4. CASE link' = "cut"
    <3>1. link = "cut" \/ link = "up"
      BY <1>0, <2>1 DEF TypeOK
    <3>2. link = "cut"
      BY <1>7, <2>4, <3>1 DEF End
    <3>3. QED
      BY <2>1, <2>2, <2>3, <2>4, <3>2, <1>0 DEF NoneStick
  <2>5. CASE link' = "closed"
    <3>1. \A j \in Keys \ stuck' :
            (OnTheWay(j)' <=> OnTheWay(j)) /\ (EndDown(j)' <=> EndDown(j))
      BY <2>1, <2>2, <2>3, <2>5 DEF OnTheWay, EndDown
    <3>2. QED
      BY <1>0, <2>1, <2>2, <2>3, <2>5, <3>1 DEF NoneStick
  <2>6. QED
    BY <2>1, <2>4, <2>5, <1>0 DEF TypeOK, End, NoneStick
<1>8. ASSUME Stop
      PROVE  NoneStick'
  <2>1. /\ UNCHANGED <<link, wire, events, down, paste>>
        /\ stuck' = stuck \cup Untold
    BY <1>8 DEF Stop
  <2>2. \A j \in Keys : (OnTheWay(j)' <=> OnTheWay(j)) /\ (EndDown(j)' <=> EndDown(j))
    BY <2>1 DEF OnTheWay, EndDown
  <2>3. QED
    BY <1>0, <2>1, <2>2, NoneStickFrame
<1>9. ASSUME Cut
      PROVE  NoneStick'
  BY <1>9 DEF Cut, NoneStick
<1>10. ASSUME DispatchKey
       PROVE  NoneStick'
  <2> DEFINE e == Head(wire)
  <2>1. /\ UNCHANGED <<link, events, paste, physical, open, unread>>
        /\ link # "cut"
        /\ Receive /\ Inject(e)
    BY <1>10 DEF DispatchKey, Receive
  <2>2. ASSUME NEW j \in Keys
        PROVE  /\ OnTheWay(j)' => OnTheWay(j) /\ (EndDown(j)' <=> EndDown(j))
               /\ e.key = j => OnTheWay(j)
               /\ OnTheWay(j) /\ ~OnTheWay(j)' => e.key = j /\ (EndDown(j) <=> e.down)
               /\ j \in Untold' <=> j \in Untold
               /\ UpToCome(j)' <=> UpToCome(j)
    <3>1. j \in Untold' <=> j \in Untold
      BY <2>1 DEF Untold, Held
    <3>2. UpToCome(j)' <=> UpToCome(j)
      BY <2>1 DEF UpToCome
    <3>3. QED
      BY <1>0, <2>1, <3>1, <3>2, ReceiveKeeps
  <2> HIDE DEF e
  <2>3. stuck \subseteq stuck'
    BY <2>1 DEF Inject, Lose
  <2>4. ASSUME NEW j \in Keys \ stuck', ~OnTheWay(j)', j \in down'
        PROVE  j \in Untold' \/ UpToCome(j)'
    <3>1. e.key # j => j \in down
      BY <2>1, <2>4 DEF Inject
    <3>2. e.key = j => e.down
      BY <2>1, <2>4 DEF Inject, Lose
    <3>3. QED
      BY <1>0, <2>1, <2>2, <2>3, <2>4, <3>1, <3>2 DEF NoneStick
  <2>5. QED
    BY <1>0, <2>1, <2>2, <2>3, <2>4 DEF NoneStick
<1>11. ASSUME DispatchPing
       PROVE  NoneStick'
  <2>1. /\ UNCHANGED <<link, events, down, paste, stuck, physical, open, unread>>
        /\ Receive /\ Head(wire) = Ping
    BY <1>11 DEF DispatchPing
  <2>2. \A j \in Keys : (OnTheWay(j)' <=> OnTheWay(j)) /\ (EndDown(j)' <=> EndDown(j))
    <3>1. \A j \in Keys : OnTheWay(j)' <=> OnTheWay(j)
      BY <1>0, <2>1, ReceiveKeeps, Messages
    <3>2. \A j \in Keys : OnTheWay(j)' => (EndDown(j)' <=> EndDown(j))
      BY <1>0, <2>1, ReceiveKeeps
    <3>3. \A j \in Keys : ~OnTheWay(j) => (EndDown(j) <=> j \in down)
      BY DEF OnTheWay, EndDown
    <3>4. \A j \in Keys : ~OnTheWay(j)' => (EndDown(j)' <=> j \in down)
      BY <2>1 DEF OnTheWay, EndDown
    <3>5. QED
      BY <3>1, <3>2, <3>3, <3>4
  <2>3. \A j \in Keys : j \in Untold => j \in Untold'
    BY <2>1 DEF Untold, Held
  <2>4. QED
    BY <1>0, <2>1, <2>2, <2>3, NoneStickFrame
<1>12. ASSUME Return
       PROVE  NoneStick'
  <2>1. /\ UNCHANGED <<link, wire, events, down, paste, physical, open, unread>>
        /\ stuck' = stuck \cap down
        /\ link # "cut" => wire = <<>> /\ events = <<>>
    BY <1>0, <1>12 DEF Return, Ends
  <2>2. \A j \in Keys :
          /\ UpToCome(j)' <=> UpToCome(j)
          /\ j \in Untold' <=> j \in Untold
          /\ link # "cut" => ~OnTheWay(j) /\ ~OnTheWay(j)'
    BY <1>0, <2>1, Messages DEF UpToCome, Untold, Held, OnTheWay
  <2>3. QED
    BY <1>0, <2>1, <2>2 DEF NoneStick
<1>13. ASSUME BeginPaste
       PROVE  NoneStick'
  <2>1. /\ UNCHANGED <<link, wire, events, down, stuck, physical, open, unread>>
        /\ paste = 0
    BY <1>13 DEF BeginPaste
  <2>2. \A j \in Keys :
          /\ ~UpToCome(j)
          /\ OnTheWay(j)' <=> OnTheWay(j)
          /\ EndDown(j)' <=> EndDown(j)
          /\ j \in Untold' <=> j \in Untold
    BY <2>1 DEF UpToCome, OnTheWay, EndDown, Untold, Held
  <2>3. QED
    BY <1>0, <2>1, <2>2 DEF NoneStick
<1>14. ASSUME PasteStep
       PROVE  NoneStick'
  <2> DEFINE e == PasteScript[paste]
  <2>1. /\ UNCHANGED <<link, wire, events, physical, open, unread>>
        /\ paste \in 1 .. Len(PasteScript) /\ Len(PasteScript) \in Nat
        /\ paste' = IF paste = Len(PasteScript) THEN 0 ELSE paste + 1
    BY <1>0, <1>14, Script DEF PasteStep, TypeOK
  <2>2. \/ /\ down' = IF e.down THEN down \cup {e.key} ELSE down \ {e.key}
           /\ stuck' = stuck
        \/ down' = down /\ stuck' = IF e.down THEN stuck ELSE stuck \cup {e.key}
    BY <1>14 DEF PasteStep, Lose
  <2>3. ASSUME NEW j \in Keys, UpToCome(j)
        PROVE  UpToCome(j)' \/ e = KeyEvent(j, FALSE)
    <3>1. PICK i \in paste .. Len(PasteScript) : PasteScript[i] = KeyEvent(j, FALSE)
      BY <2>3 DEF UpToCome
    <3>2. CASE i = paste
      BY <3>1, <3>2
    <3>3. CASE i # paste
      <4>1. paste' # 0 /\ i \in paste' .. Len(PasteScript)
        BY <2>1, <3>1, <3>3
      <4>2. QED
        BY <3>1, <4>1 DEF UpToCome
    <3>4. QED
      BY <3>2, <3>3
  <2>4. ASSUME NEW j \in Keys, e.down, e.key = j
        PROVE  UpToCome(j)'
    <3>1. PICK i \in paste + 1 .. Len(PasteScript) : PasteScript[i] = KeyEvent(j, FALSE)
      BY <2>1, <2>4, PressesAreReleased
    <3>2. paste' # 0 /\ i \in paste' .. Len(PasteScript)
      BY <2>1, <3>1
    <3>3. QED
      BY <3>1, <3>2 DEF UpToCome
  <2>5. ASSUME NEW j \in Keys, e = KeyEvent(j, FALSE)
        PROVE  e.key = j /\ ~e.down
    BY <2>5 DEF KeyEvent
  <2> HIDE DEF e
  <2>6. stuck \subseteq stuck'
    BY <2>2
  <2>7. ASSUME NEW j \in Keys \ stuck', j \in down', j \in down => UpToCome(j)
        PROVE  UpToCome(j)'
    BY <2>2, <2>3, <2>4, <2>5, <2>7
  <2>8. ASSUME NEW j \in Keys \ stuck', j \in down', j \notin down
        PROVE  UpToCome(j)'
    BY <2>2, <2>4, <2>8
  <2>9. ASSUME NEW j \in Keys
        PROVE  /\ OnTheWay(j)' <=> OnTheWay(j)
               /\ OnTheWay(j) => (EndDown(j)' <=> EndDown(j))
               /\ j \in Untold' <=> j \in Untold
    BY <2>1 DEF OnTheWay, EndDown, Untold, Held
  <2>10. QED
    BY <1>0, <2>1, <2>6, <2>7, <2>8, <2>9 DEF NoneStick
<1>15. CASE UNCHANGED vars
  <2>1. UNCHANGED <<link, wire, events, down, paste, stuck, physical, open, unread>>
    BY <1>15 DEF vars
  <2>2. \A j \in Keys :
          /\ OnTheWay(j)' <=> OnTheWay(j)
          /\ EndDown(j)' <=> EndDown(j)
          /\ j \in Untold' <=> j \in Untold
    BY <2>1 DEF OnTheWay, EndDown, Untold, Held
  <2>3. QED
    BY <1>0, <2>1, <2>2, NoneStickFrame
<1>16. QED
  BY <1>1, <1>2, <1>3, <1>4, <1>5, <1>6, <1>7, <1>8, <1>9, <1>10, <1>11, <1>12,
     <1>13, <1>14, <1>15
     DEF Next, Process, Loop, Target, Fatal, Exit

LEMMA NoneMissingFrame ==
  ASSUME NoneMissing, UNCHANGED <<link, physical>>, unread' = unread,
         \A d \in Devices : physical[d] \subseteq Keys,
         \A k \in Keys \ freed' : k \in Held =>
           k \notin freed /\ (EndDown(k) => EndDown(k)')
  PROVE  NoneMissing'
BY DEF NoneMissing, Held

LEMMA NoneMissingStep ==
  ASSUME IInv, TypeOK', [Next]_vars
  PROVE  NoneMissing'
<1> USE DEF source, target, pasting, history
<1>0. /\ TypeOK /\ Ends /\ UnreadRight /\ NoneMissing
      /\ \A d \in Devices : physical[d] \subseteq Keys
  BY DEF IInv, TypeOK
<1>1. ASSUME NEW d \in Devices, NEW k \in KeysOf[d], Strike(d, k)
      PROVE  NoneMissing'
  <2> DEFINE e == KeyEvent(k, k \notin physical[d])
  <2>1. /\ k \in Keys /\ e \in Message /\ e.key = k
        /\ unread[d] \in Seq(Message)
    BY <1>0, KeysOfDevices, Messages DEF KeyEvent, Event, Message
  <2> HIDE DEF e
  <2>2. /\ UNCHANGED <<link, wire, events, down>>
        /\ freed' = freed \cap Held'
        /\ unread'[d] = Append(unread[d], e)
        /\ \A c \in Devices \ {d} : unread'[c] = unread[c] /\ physical'[c] = physical[c]
        /\ \A j \in Keys \ {k} : j \in physical'[d] <=> j \in physical[d]
    BY <1>0, <1>1 DEF Strike, TypeOK, e
  <2>3. \A j \in Keys : Mentions(unread'[d], j) <=> e.key = j \/ Mentions(unread[d], j)
    BY <2>1, <2>2, AppendMentions
  <2>4. \A c \in Devices : physical'[c] \subseteq Keys /\ physical'[c] \subseteq Held'
    BY DEF TypeOK, Held
  <2>5. \A j \in Keys : EndDown(j)' <=> EndDown(j)
    BY <2>2 DEF EndDown
  <2>6. ASSUME link = "up", NEW c \in Devices, NEW j \in physical'[c] \ freed'
        PROVE  EndDown(j)' \/ Mentions(unread'[c], j)
    <3>1. j \in Keys /\ j \notin freed
      BY <2>2, <2>4, <2>6
    <3>2. CASE c = d /\ j = k
      BY <2>1, <2>3, <3>2
    <3>3. CASE ~(c = d /\ j = k)
      <4>1. j \in physical[c]
        BY <2>2, <2>6, <3>1, <3>3
      <4>2. EndDown(j) \/ Mentions(unread[c], j)
        BY <1>0, <2>6, <3>1, <4>1 DEF NoneMissing
      <4>3. QED
        BY <2>2, <2>3, <2>5, <3>1, <4>2
    <3>4. QED
      BY <3>2, <3>3
  <2>7. QED
    BY <2>2, <2>6 DEF NoneMissing
<1>2. ASSUME NEW d \in Devices, ReadLoop(d)
      PROVE  NoneMissing'
  <2> DEFINE e == Head(unread[d])
  <2>1. /\ UNCHANGED <<link, wire, down, physical, open>> /\ d \in open
        /\ Send(d, e)
    BY <1>2 DEF ReadLoop
  <2>2. \A j \in Keys :
          /\ \A c \in Devices \ {d} : unread'[c] = unread[c]
          /\ Mentions(unread[d], j) <=> e.key = j \/ Mentions(unread'[d], j)
          /\ Mentions(unread'[d], j) => (LastDown(unread[d], j) <=> LastDown(unread'[d], j))
          /\ ~Mentions(unread'[d], j) /\ e.key = j => (LastDown(unread[d], j) <=> e.down)
          /\ events' = Append(events, e) =>
               /\ e.key = j => OnTheWay(j)' /\ (EndDown(j)' <=> e.down)
               /\ e.key # j => (OnTheWay(j)' <=> OnTheWay(j)) /\ (EndDown(j)' <=> EndDown(j))
    BY <1>0, <1>2, ReadLoopSends
  <2> HIDE DEF e
  <2>3. ASSUME NEW j \in Keys, e.key = j, j \in physical[d], ~e.down
        PROVE  Mentions(unread'[d], j)
    BY <1>0, <2>1, <2>2, <2>3 DEF UnreadRight
  <2>4. \A c \in Devices : \A j \in physical[c] : j \in Held /\ (c # d => (j = e.key =>
            Elsewhere(d, j)))
    BY <1>0, <2>1 DEF UnreadRight, Held, Elsewhere
  <2>5. SUFFICES ASSUME link = "up", NEW c \in Devices, NEW j \in physical[c] \ freed'
                 PROVE  EndDown(j)' \/ Mentions(unread'[c], j)
    BY <2>1 DEF NoneMissing
  <2>6. j \in Keys /\ j \in Held
    BY <1>0, <2>4, <2>5
  <2>7. CASE j # e.key
    <3>1. j \notin freed
      BY <2>1, <2>5, <2>7 DEF Send, Lose
    <3>2. EndDown(j) \/ Mentions(unread[c], j)
      BY <1>0, <2>5, <3>1 DEF NoneMissing
    <3>3. EndDown(j)' <=> EndDown(j)
      <4>1. events' = events => (EndDown(j)' <=> EndDown(j))
        BY <2>1 DEF EndDown
      <4>2. QED
        BY <2>1, <2>2, <2>6, <2>7, <4>1 DEF Send
    <3>4. QED
      BY <2>2, <2>6, <2>7, <3>2, <3>3
  <2>8. CASE j = e.key
    <3>1. CASE /\ events' = Append(events, e)
               /\ freed' = IF link = "up" /\ ~Elsewhere(d, e.key)
                           THEN freed \ {e.key} ELSE freed \cup (Held \cap {e.key})
      <4>1. ~Elsewhere(d, j)
        BY <2>5, <2>6, <2>8, <3>1
      <4>2. c = d
        BY <2>4, <2>5, <2>8, <4>1
      <4>3. QED
        BY <2>2, <2>3, <2>5, <2>6, <2>8, <3>1, <4>2
    <3>2. CASE Lose(e) /\ UNCHANGED events
      <4>1. ~e.down /\ j \notin freed
        BY <2>5, <2>6, <2>8, <3>2 DEF Lose
      <4>2. EndDown(j) \/ Mentions(unread[c], j)
        BY <1>0, <2>5, <4>1 DEF NoneMissing
      <4>3. EndDown(j)' <=> EndDown(j)
        BY <2>1, <3>2 DEF EndDown
      <4>4. QED
        BY <2>2, <2>3, <2>5, <2>6, <2>8, <4>1, <4>2, <4>3
    <3>3. QED
      BY <2>1, <3>1, <3>2 DEF Send
  <2>9. QED
    BY <2>7, <2>8
<1>3. ASSUME NEW d \in Devices, Unplug(d)
      PROVE  NoneMissing'
  <2>1. /\ UNCHANGED <<link, wire, events, down>>
        /\ freed' = freed \cap Held'
        /\ physical'[d] = {}
        /\ \A c \in Devices \ {d} : unread'[c] = unread[c] /\ physical'[c] = physical[c]
    BY <1>0, <1>3 DEF Unplug, TypeOK
  <2>2. \A c \in Devices : physical'[c] \subseteq Keys /\ physical'[c] \subseteq Held'
    BY DEF TypeOK, Held
  <2>3. \A j \in Keys : EndDown(j)' <=> EndDown(j)
    BY <2>1 DEF EndDown
  <2>4. QED
    BY <1>0, <2>1, <2>2, <2>3 DEF NoneMissing
<1>4. ASSUME NEW devices \in SUBSET Devices, Connect(devices)
      PROVE  NoneMissing'
  <2>1. freed' = Held'
    BY <1>4 DEF Connect
  <2>2. QED
    BY <2>1 DEF NoneMissing, Held
<1>5. ASSUME Forward
      PROVE  NoneMissing'
  <2>1. UNCHANGED <<link, physical, unread, freed>>
    BY <1>5 DEF Forward
  <2>2. QED
    BY <1>0, <1>5, <2>1, ForwardKeeps, NoneMissingFrame
<1>6. ASSUME SendPing
      PROVE  NoneMissing'
  <2>1. UNCHANGED <<link, physical, unread, freed>>
    BY <1>6 DEF SendPing
  <2>2. QED
    BY <1>0, <1>6, <2>1, SendPingKeeps, NoneMissingFrame
<1>7. ASSUME End \/ Cut
      PROVE  NoneMissing'
  BY <1>7 DEF End, Cut, NoneMissing
<1>8. ASSUME Stop
      PROVE  NoneMissing'
  BY <1>8 DEF Stop, NoneMissing
<1>9. ASSUME DispatchKey
      PROVE  NoneMissing'
  <2> DEFINE e == Head(wire)
  <2>1. /\ UNCHANGED <<link, events, physical, open>> /\ unread' = unread
        /\ Receive /\ Inject(e)
    BY <1>9 DEF DispatchKey
  <2>2. \A j \in Keys :
          /\ OnTheWay(j)' => OnTheWay(j) /\ (EndDown(j)' <=> EndDown(j))
          /\ e.key = j => OnTheWay(j)
          /\ OnTheWay(j) /\ ~OnTheWay(j)' => e.key = j /\ (EndDown(j) <=> e.down)
          /\ ~OnTheWay(j) => (EndDown(j) <=> j \in down)
    BY <1>0, <2>1, ReceiveKeeps DEF OnTheWay, EndDown
  <2>3. \A j \in Keys : ~OnTheWay(j)' => (EndDown(j)' <=> j \in down')
    BY DEF OnTheWay, EndDown
  <2> HIDE DEF e
  <2>4. ASSUME NEW j \in Keys \ freed', j \in Held
        PROVE  j \notin freed /\ (EndDown(j) => EndDown(j)')
    <3>1. j \notin freed
      BY <2>1, <2>4 DEF Inject, Lose
    <3>2. ASSUME EndDown(j), ~OnTheWay(j)'
          PROVE  j \in down'
      BY <2>1, <2>2, <2>4, <3>2 DEF Inject, Lose
    <3>3. QED
      BY <2>2, <2>3, <3>1, <3>2
  <2>5. QED
    BY <1>0, <2>1, <2>4, NoneMissingFrame
<1>10. ASSUME DispatchPing
       PROVE  NoneMissing'
  <2>1. /\ UNCHANGED <<link, events, down, physical, freed>> /\ unread' = unread
        /\ Receive /\ Head(wire) = Ping
    BY <1>10 DEF DispatchPing
  <2>2. \A j \in Keys :
          /\ OnTheWay(j)' => (EndDown(j)' <=> EndDown(j))
          /\ ~OnTheWay(j)' => ~OnTheWay(j)
    BY <1>0, <2>1, ReceiveKeeps, Messages
  <2>3. \A j \in Keys :
          /\ ~OnTheWay(j)' => (EndDown(j)' <=> j \in down)
          /\ ~OnTheWay(j) => (EndDown(j) <=> j \in down)
    BY <2>1 DEF OnTheWay, EndDown
  <2>4. QED
    BY <1>0, <2>1, <2>2, <2>3, NoneMissingFrame
<1>11. ASSUME PasteStep
       PROVE  NoneMissing'
  <2> DEFINE e == PasteScript[paste]
  <2>1. /\ UNCHANGED <<link, wire, events, physical>> /\ unread' = unread
        /\ \/ /\ down' = IF e.down THEN down \cup {e.key} ELSE down \ {e.key}
              /\ freed' = IF e.down THEN freed ELSE freed \cup (Held \cap {e.key})
           \/ down' = down /\ Lose(e)
    BY <1>11 DEF PasteStep
  <2> HIDE DEF e
  <2>2. ASSUME NEW j \in Keys \ freed', j \in Held
        PROVE  j \notin freed /\ (j \in down => j \in down')
    BY <2>1, <2>2 DEF Lose
  <2>3. \A j \in Keys : (j \in down => j \in down') => (EndDown(j) => EndDown(j)')
    BY <2>1 DEF EndDown
  <2>4. QED
    BY <1>0, <2>1, <2>2, <2>3, NoneMissingFrame
<1>12. CASE UNCHANGED <<link, wire, events, down, physical, unread, freed>>
  BY <1>0, <1>12 DEF NoneMissing, EndDown
<1>13. ASSUME Return
       PROVE  NoneMissing'
  BY <1>12, <1>13 DEF Return
<1>14. QED
  BY <1>1, <1>2, <1>3, <1>4, <1>5, <1>6, <1>7, <1>8, <1>9, <1>10, <1>11, <1>12, <1>13
     DEF Next, Process, Loop, Target, Fatal, Exit, BeginPaste, vars

LEMMA PasteCleanStep ==
  ASSUME TypeOK, PasteClean, [Next]_vars
  PROVE  PasteClean'
<1> USE DEF source, target, pasting, history
<1>1. /\ N \in Nat /\ Len(PasteScript) = N + 4
      /\ \A i \in 1 .. N : ModifierKeys[i] \in Modifiers
      /\ \A k \in Modifiers : \E i \in 1 .. N : ModifierKeys[i] = k
      /\ Ctrl \in Modifiers
  BY Script, ModifiersAssumption DEF Modifiers, N
<1>2. ASSUME DispatchKey
      PROVE  PasteClean'
  <2> DEFINE e == Head(wire)
  <2>1. /\ paste' = paste
        /\ Inject(e)
        /\ disturbed' = (disturbed \/ (paste # 0 /\ e.key \in Modifiers \cup {V}))
    BY <1>2 DEF DispatchKey
  <2> HIDE DEF e
  <2>2. ASSUME paste # 0, ~disturbed'
        PROVE  ~disturbed /\ \A k \in Modifiers : k \in down' <=> k \in down
    BY <2>1, <2>2 DEF Inject
  <2>3. CASE paste = 0 \/ disturbed'
    BY <2>1, <2>3 DEF PasteClean
  <2>4. CASE paste # 0 /\ ~disturbed'
    <3>1. paste <= N + 1 => \A i \in 1 .. N : i < paste => ModifierKeys[i] \notin down'
      BY <1>1, <2>2, <2>4 DEF PasteClean
    <3>2. paste = N + 2 => down' \cap Modifiers = {Ctrl}
      BY <2>2, <2>4 DEF PasteClean
    <3>3. QED
      BY <2>1, <3>1, <3>2 DEF PasteClean
  <2>5. QED
    BY <2>3, <2>4
<1>3. ASSUME BeginPaste
      PROVE  PasteClean'
  <2>1. paste' = 1
    BY <1>3 DEF BeginPaste
  <2>2. \A i \in 1 .. N : ~(i < 1)
    BY <1>1
  <2>3. 1 # N + 2
    BY <1>1
  <2>4. QED
    BY <2>1, <2>2, <2>3 DEF PasteClean
<1>4. ASSUME PasteStep
      PROVE  PasteClean'
  <2> DEFINE e == PasteScript[paste]
  <2>1. /\ paste \in 1 .. N + 4
        /\ paste' = IF paste = N + 4 THEN 0 ELSE paste + 1
    BY <1>1, <1>4 DEF PasteStep, TypeOK
  <2>2. ASSUME ~disturbed', paste # N + 4
        PROVE  ~disturbed /\ down' = IF e.down THEN down \cup {e.key} ELSE down \ {e.key}
    BY <1>1, <1>4, <2>2 DEF PasteStep
  <2>3. CASE paste = N + 4 \/ disturbed'
    BY <2>1, <2>3 DEF PasteClean
  <2>4. CASE paste # N + 4 /\ ~disturbed'
    <3>1. ASSUME paste <= N, NEW i \in 1 .. N, i < paste + 1
          PROVE  ModifierKeys[i] \notin down'
      <4>1. paste \in 1 .. N
        BY <1>1, <2>1, <3>1
      <4>2. e.key = ModifierKeys[paste] /\ ~e.down
        BY <4>1, Script, EventFields
      <4>3. i # paste => ModifierKeys[i] \notin down
        BY <1>1, <2>2, <2>4, <3>1, <4>1 DEF PasteClean
      <4>4. QED
        BY <2>2, <2>4, <4>2, <4>3
    <3>2. ASSUME paste = N + 1
          PROVE  down' \cap Modifiers = {Ctrl}
      <4>1. e.key = Ctrl /\ e.down
        BY <3>2, Script, EventFields
      <4>2. \A i \in 1 .. N : i < paste /\ paste <= N + 1 /\ paste # 0
        BY <1>1, <3>2
      <4>3. \A i \in 1 .. N : ModifierKeys[i] \notin down
        BY <2>2, <2>4, <4>2 DEF PasteClean
      <4>4. QED
        BY <1>1, <2>2, <2>4, <4>1, <4>3
    <3>3. /\ paste' = paste + 1
          /\ paste + 1 <= N + 1 => paste <= N
          /\ paste + 1 = N + 2 => paste = N + 1
      BY <1>1, <2>1, <2>4
    <3>4. QED
      BY <3>1, <3>2, <3>3 DEF PasteClean
  <2>5. QED
    BY <2>3, <2>4
<1>5. CASE UNCHANGED <<down, paste, disturbed>>
  BY <1>5 DEF PasteClean
<1>6. QED
  BY <1>2, <1>3, <1>4, <1>5
     DEF Next, Process, Loop, Target, Strike, ReadLoop, Unplug, Connect, Forward, SendPing,
         Fatal, Exit, End, Stop, Cut, DispatchPing, Return, vars

LEMMA InvStep == IInv /\ [Next]_vars => IInv'
<1> SUFFICES ASSUME IInv, [Next]_vars
             PROVE  IInv'
  OBVIOUS
<1>1. TypeOK'
  BY TypeStep DEF IInv
<1>2. QED
  BY <1>1, EndsStep, UnreadRightStep, NoneStickStep, NoneMissingStep, PasteCleanStep DEF IInv

\* The invariant of the proofs below.
THEOREM Invariance == Spec => []IInv
<1>1. QED
  BY InvInit, InvStep, PTL DEF Spec

\* Once all is delivered the target and the devices agree on every key whose
\* events were not lost, for any devices, keys and capacities.
THEOREM Agreement == Spec => []KeysAgree
<1>1. ASSUME IInv
      PROVE  KeysAgree
  <2> SUFFICES ASSUME Quiet
               PROVE  /\ down \subseteq Held \cup stuck
                      /\ link = "up" => Held \subseteq down \cup freed
    BY DEF KeysAgree
  <2>1. /\ TypeOK /\ UnreadRight /\ NoneStick /\ NoneMissing
        /\ \A k : ~Mentions(<<>>, k)
    BY <1>1, Messages DEF IInv
  <2>2. \A d \in Devices : unread[d] = <<>>
    BY <2>1 DEF Quiet, UnreadRight
  <2>3. \A k \in Keys : ~OnTheWay(k) /\ ~UpToCome(k) /\ (EndDown(k) <=> k \in down)
    BY <2>1 DEF Quiet, OnTheWay, UpToCome, EndDown
  <2>4. Untold = Held
    BY <2>1, <2>2 DEF Untold, TypeOK
  <2>5. down \subseteq Held \cup stuck
    BY <2>1, <2>3, <2>4 DEF NoneStick, TypeOK
  <2>6. ASSUME link = "up", NEW k \in Held
        PROVE  k \in down \cup freed
    BY <2>1, <2>2, <2>3, <2>6 DEF NoneMissing, Held, TypeOK
  <2>7. QED
    BY <2>5, <2>6
<1>2. QED
  BY <1>1, Invariance, PTL

\* V is pressed with Ctrl and no other modifier, for any order of the modifiers,
\* unless the user's events came in between.
THEOREM PastePressesCtrlV == Spec => []PasteLands
<1>1. ASSUME IInv
      PROVE  PasteLands
  <2> SUFFICES ASSUME paste # 0, ~disturbed, PasteScript[paste] = KeyEvent(V, TRUE)
               PROVE  down \cap Modifiers = {Ctrl}
    BY DEF PasteLands
  <2>1. paste \in 1 .. N + 4
    BY <1>1, Script DEF IInv, TypeOK
  <2>2. PasteScript[paste].down /\ PasteScript[paste].key = V
    BY EventFields
  <2>3. paste \in 1 .. N \/ paste \in {N + 1, N + 2, N + 3, N + 4}
    BY <2>1, Script
  <2>4. paste = N + 2
    <3>1. paste \notin 1 .. N /\ paste # N + 3 /\ paste # N + 4
      BY <2>2, Script, EventFields
    <3>2. Ctrl # V
      BY ModifiersAssumption
    <3>3. paste # N + 1
      BY <2>2, <3>2, Script, EventFields
    <3>4. QED
      BY <2>3, <3>1, <3>3
  <2>5. QED
    BY <1>1, <2>4 DEF IInv, PasteClean
<1>2. QED
  BY <1>1, Invariance, PTL
=============================================================================
