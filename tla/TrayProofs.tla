----------------------------- MODULE TrayProofs -----------------------------
(***************************************************************************)
(* For any number of calls and profiles: type correctness, that a process  *)
(* which runs is supervised, one at a time, unless calls overlap, an exit  *)
(* comes late or the tray leaves in the middle of a call, that what is     *)
(* shown as running has not gone, and that the connection shown is the one *)
(* that the process has told of.                                           *)
(*                                                                         *)
(* And, from ProfileEditor, for any number of goroutines, profiles and     *)
(* arrays: that no edit is lost, that nothing is changed before a save,    *)
(* and that a restart finds what the tray has.                             *)
(***************************************************************************)
EXTENDS Tray, ProfileEditor, TLAPS

\* What each call and the tracked process are about.
Books ==
  \A t \in Calls :
    /\ pc[t] \notin {"track", "done"} => proc[t] = "none"
    /\ pc[t] \in {"start", "kill", "spawn", "track"} \/ proc[t] # "none" => profile[t] \in Names
    /\ prev[t] # None => pc[t] \in {"kill", "killonly"}
    /\ tracked = t => name = profile[t] /\ pc[t] = "done"

\* A call that starts a process is the only one, and has nothing to overwrite.
Alone ==
  ~overlap => \A t \in Calls :
    Starting(t) => tracked = None /\ \A u \in Calls : Starting(u) => t = u

\* What runs is known.
Kept == ~overlap /\ ~late => \A t \in Calls : Running(t) => Claimed(t)

\* A tray that leaves in no call's middle has found all there is to stop, ...
Leaving ==
  tray # "up" /\ ~midway => (\A t \in Calls : ~Busy(t)) /\ tracked \in {doomed, None}

\* ... and stopped it.
Emptied ==
  ~Up /\ ~midway /\ ~overlap /\ ~late => \A t \in Calls : ~Running(t)

TInv == TypeOK /\ Books /\ Alone /\ Kept /\ Leaving /\ Emptied /\ ShowsRunning

USE NoneAssumption

LEMMA LineFacts == <<>> \in Seq(Lines)
  OBVIOUS

LEMMA PrintsType == ASSUME NEW t \in Calls, TypeOK, NEW lines \in Seq(Lines), Prints(t, lines)
                    PROVE  said' \in [Calls -> Seq(Lines)]
<1>1. said[t] \o lines \in Seq(Lines) BY DEF TypeOK
<1> QED BY <1>1 DEF Prints, TypeOK

LEMMA LogLines == /\ <<"authenticated">> \in Seq(Lines)
                  /\ <<"udp enabled", "authenticated">> \in Seq(Lines)
                  /\ <<"disconnected">> \in Seq(Lines)
  BY DEF Lines

LEMMA TailFacts == ASSUME NEW q \in Seq(Lines), q # <<>>
                   PROVE  Head(q) \in Lines /\ Tail(q) \in Seq(Lines)
  OBVIOUS

LEMMA SameSupervision == ASSUME Kept, UNCHANGED <<tracked, pc, prev, proc, overlap, late>>
                         PROVE  Kept'
  BY DEF Kept, Claimed, Running, Stopping

LEMMA UnlessLate == ASSUME NEW named \in BOOLEAN, NEW same \in BOOLEAN,
                           NEW was \in BOOLEAN, NEW now \in BOOLEAN,
                           \/ named /\ now = (was \/ ~same)
                           \/ ~named /\ now = was,
                           ~now
                    PROVE  ~was /\ (named => same)
  OBVIOUS

LEMMA InitInv == Init => TInv
<1> SUFFICES ASSUME Init PROVE TInv OBVIOUS
<1>1. TypeOK BY LineFacts DEF Init, TypeOK
<1>2. Books BY DEF Init, Books
<1>3. Alone BY DEF Init, Alone, Starting
<1>4. Kept BY DEF Init, Kept, Supervised, Running
<1>5. ShowsRunning BY DEF Init, ShowsRunning
<1>6. Leaving BY DEF Init, Leaving
<1>7. Emptied BY DEF Init, Emptied, Up
<1> QED BY <1>1, <1>2, <1>3, <1>4, <1>5, <1>6, <1>7 DEF TInv

----------------------------------------------------------------------------

LEMMA StepInv == ASSUME TInv, [Next]_vars PROVE TInv'
<1> USE DEF TInv, GoTo, NextCall, app, calls, process, life, history
<1>1. ASSUME NEW t \in Calls, NEW n \in Names, Toggle(t, n) PROVE TInv'
  <2> USE <1>1 DEF Toggle
  <2>1. TypeOK' BY DEF TypeOK
  <2>2. Books' BY DEF Books, TypeOK
  <2>3. Alone' BY DEF Alone, Books, Starting, TypeOK
  <2>4. Kept' BY DEF Kept, Claimed, Running, Stopping, Alone, Starting, Books, TypeOK
  <2>5. ShowsRunning' BY DEF ShowsRunning, Books, TypeOK
  <2>6. Leaving' BY DEF Leaving, Busy, Starting, Up, TypeOK
  <2>7. Emptied' BY DEF Emptied, Up, Running, TypeOK
  <2> QED BY <2>1, <2>2, <2>3, <2>4, <2>5, <2>6, <2>7
<1>2. ASSUME NEW t \in Calls, RestartRunning(t) PROVE TInv'
  <2> USE <1>2 DEF RestartRunning
  <2>1. TypeOK' BY DEF TypeOK
  <2>2. Books' BY DEF Books, TypeOK
  <2>3. Alone' BY DEF Alone, Books, Starting, TypeOK
  <2>4. Kept' BY DEF Kept, Claimed, Running, Stopping, Alone, Starting, Books, TypeOK
  <2>5. ShowsRunning' BY DEF ShowsRunning, Books, TypeOK
  <2>6. Leaving' BY DEF Leaving, Busy, Starting, Up, TypeOK
  <2>7. Emptied' BY DEF Emptied, Up, Running, TypeOK
  <2> QED BY <2>1, <2>2, <2>3, <2>4, <2>5, <2>6, <2>7
<1>3. ASSUME NEW t \in Calls, ClickStop(t) PROVE TInv'
  <2> USE <1>3 DEF ClickStop
  <2>1. TypeOK' BY DEF TypeOK
  <2>2. Books' BY DEF Books, TypeOK
  <2>3. Alone' BY DEF Alone, Books, Starting, TypeOK
  <2>4. Kept' BY DEF Kept, Claimed, Running, Stopping, Alone, Starting, Books, TypeOK
  <2>5. ShowsRunning' BY DEF ShowsRunning, Books, TypeOK
  <2>6. Leaving' BY DEF Leaving, Busy, Starting, Up, TypeOK
  <2>7. Emptied' BY DEF Emptied, Up, Running, TypeOK
  <2> QED BY <2>1, <2>2, <2>3, <2>4, <2>5, <2>6, <2>7
<1>4. ASSUME NEW t \in Calls, Start(t) PROVE TInv'
  <2> USE <1>4 DEF Start, Take
  <2>1. TypeOK' BY DEF TypeOK
  <2>2. Books' BY DEF Books, TypeOK
  <2>3. Alone' BY DEF Alone, Books, Starting, TypeOK
  <2>4. Kept' BY DEF Kept, Claimed, Running, Stopping, Alone, Starting, Books, TypeOK
  <2>5. ShowsRunning' BY DEF ShowsRunning, Books, TypeOK
  <2>6. Leaving' BY DEF Leaving, Busy, Starting, Up, TypeOK
  <2>7. Emptied' BY DEF Emptied, Up, Running, TypeOK
  <2> QED BY <2>1, <2>2, <2>3, <2>4, <2>5, <2>6, <2>7
<1>5. ASSUME NEW t \in Calls, Stop(t) PROVE TInv'
  <2> USE <1>5 DEF Stop, Take
  <2>1. TypeOK' BY DEF TypeOK
  <2>2. Books' BY DEF Books, TypeOK
  <2>3. Alone' BY DEF Alone, Books, Starting, TypeOK
  <2>4. Kept' BY DEF Kept, Claimed, Running, Stopping, Alone, Starting, Books, TypeOK
  <2>5. ShowsRunning' BY DEF ShowsRunning, Books, TypeOK
  <2>6. Leaving' BY DEF Leaving, Busy, Starting, Up, TypeOK
  <2>7. Emptied' BY DEF Emptied, Up, Running, TypeOK
  <2> QED BY <2>1, <2>2, <2>3, <2>4, <2>5, <2>6, <2>7
<1>6. ASSUME NEW t \in Calls, Kill(t) PROVE TInv'
  <2> USE <1>6 DEF Kill, Killed
  <2>1. TypeOK' BY DEF TypeOK
  <2>2. Books' BY DEF Books, TypeOK
  <2>3. Alone' BY DEF Alone, Books, Starting, TypeOK
  <2>4. Kept' BY DEF Kept, Claimed, Running, Stopping, Alone, Starting, Books, TypeOK
  <2>5. ShowsRunning' BY DEF ShowsRunning, Books, TypeOK
  <2>6. Leaving' BY DEF Leaving, Busy, Starting, Up, TypeOK
  <2>7. Emptied' BY DEF Emptied, Up, Running, TypeOK
  <2> QED BY <2>1, <2>2, <2>3, <2>4, <2>5, <2>6, <2>7
<1>7. ASSUME NEW t \in Calls, Spawn(t) PROVE TInv'
  <2> USE <1>7 DEF Spawn
  <2>1. TypeOK' BY DEF TypeOK
  <2>2. Books' BY DEF Books, TypeOK
  <2>3. Alone' BY DEF Alone, Books, Starting, TypeOK
  <2>4. Kept' BY DEF Kept, Claimed, Running, Stopping, Alone, Starting, Books, TypeOK
  <2>5. ShowsRunning' BY DEF ShowsRunning, Books, TypeOK
  <2>6. Leaving' BY DEF Leaving, Busy, Starting, Up, TypeOK
  <2>7. Emptied' BY DEF Emptied, Up, Running, TypeOK
  <2> QED BY <2>1, <2>2, <2>3, <2>4, <2>5, <2>6, <2>7
<1>8. ASSUME NEW t \in Calls, SpawnFails(t) PROVE TInv'
  <2> USE <1>8 DEF SpawnFails
  <2>1. TypeOK' BY DEF TypeOK
  <2>2. Books' BY DEF Books, TypeOK
  <2>3. Alone' BY DEF Alone, Books, Starting, TypeOK
  <2>4. Kept' BY DEF Kept, Claimed, Running, Stopping, Alone, Starting, Books, TypeOK
  <2>5. ShowsRunning' BY DEF ShowsRunning, Books, TypeOK
  <2>6. Leaving' BY DEF Leaving, Busy, Starting, Up, TypeOK
  <2>7. Emptied' BY DEF Emptied, Up, Running, TypeOK
  <2> QED BY <2>1, <2>2, <2>3, <2>4, <2>5, <2>6, <2>7
<1>9. ASSUME NEW t \in Calls, Track(t) PROVE TInv'
  <2> USE <1>9 DEF Track
  <2>1. TypeOK'
    <3>1. profile[t] \in Names /\ t # None BY DEF Books
    <3>2. early' \in BOOLEAN BY DEF TypeOK
    <3>3. mixed' \in BOOLEAN OBVIOUS
    <3> QED BY <3>1, <3>2, <3>3 DEF TypeOK
  <2>2. Books' BY DEF Books, TypeOK
  <2>3. Alone' BY DEF Alone, Books, Starting, TypeOK
  <2>4. Kept'
    <3> SUFFICES ASSUME ~overlap, ~late, NEW x \in Calls, Running(x)
                 PROVE  tracked' = x \/ pc'[x] = "track" \/ Stopping(x)'
      BY DEF Kept, Claimed, Running
    <3>1. tracked = None BY DEF Alone, Starting
    <3>2. pc[x] = "track" \/ Stopping(x) BY <3>1 DEF Kept, Claimed
    <3>3. Stopping(x) => Stopping(x)' BY DEF Stopping
    <3> QED BY <3>2, <3>3 DEF TypeOK
  <2>5. ShowsRunning' BY DEF ShowsRunning, Books, TypeOK
  <2>6. Leaving' BY DEF Leaving, Busy, Starting, Up, TypeOK
  <2>7. Emptied' BY DEF Emptied, Up, Running, TypeOK
  <2> QED BY <2>1, <2>2, <2>3, <2>4, <2>5, <2>6, <2>7
<1>10. ASSUME NEW t \in Calls, Connected(t) PROVE TInv'
  <2> USE <1>10 DEF Connected
  <2>1. TypeOK'
    <3>1. said' \in [Calls -> Seq(Lines)] BY PrintsType, LogLines
    <3>2. link' \in [Calls -> {"waiting", "tcp", "udp"}] BY DEF TypeOK
    <3>3. UNCHANGED <<app, life, calls, proc, history>> OBVIOUS
    <3> HIDE <1>10 DEF Connected
    <3> QED BY <3>1, <3>2, <3>3 DEF TypeOK
  <2>2. Books' BY DEF Books, TypeOK
  <2>3. Alone' BY DEF Alone, Books, Starting, TypeOK
  <2>4. Kept' BY SameSupervision
  <2>5. ShowsRunning' BY DEF ShowsRunning, Books, TypeOK
  <2>6. Leaving' BY DEF Leaving, Busy, Starting, Up, TypeOK
  <2>7. Emptied' BY DEF Emptied, Up, Running, TypeOK
  <2> QED BY <2>1, <2>2, <2>3, <2>4, <2>5, <2>6, <2>7
<1>11. ASSUME NEW t \in Calls, Disconnected(t) PROVE TInv'
  <2> USE <1>11 DEF Disconnected
  <2>1. TypeOK'
    <3>1. said' \in [Calls -> Seq(Lines)] BY PrintsType, LogLines
    <3>2. link' \in [Calls -> {"waiting", "tcp", "udp"}] BY DEF TypeOK
    <3>3. UNCHANGED <<app, life, calls, proc, history>> OBVIOUS
    <3> HIDE <1>11 DEF Disconnected
    <3> QED BY <3>1, <3>2, <3>3 DEF TypeOK
  <2>2. Books' BY DEF Books, TypeOK
  <2>3. Alone' BY DEF Alone, Books, Starting, TypeOK
  <2>4. Kept' BY SameSupervision
  <2>5. ShowsRunning' BY DEF ShowsRunning, Books, TypeOK
  <2>6. Leaving' BY DEF Leaving, Busy, Starting, Up, TypeOK
  <2>7. Emptied' BY DEF Emptied, Up, Running, TypeOK
  <2> QED BY <2>1, <2>2, <2>3, <2>4, <2>5, <2>6, <2>7
<1>12. ASSUME NEW t \in Calls, Dies(t) PROVE TInv'
  <2> USE <1>12 DEF Dies
  <2>1. TypeOK' BY DEF TypeOK
  <2>2. Books' BY DEF Books, TypeOK
  <2>3. Alone' BY DEF Alone, Books, Starting, TypeOK
  <2>4. Kept' BY DEF Kept, Claimed, Running, Stopping, Alone, Starting, Books, TypeOK
  <2>5. ShowsRunning' BY DEF ShowsRunning, Books, TypeOK
  <2>6. Leaving' BY DEF Leaving, Busy, Starting, Up, TypeOK
  <2>7. Emptied' BY DEF Emptied, Up, Running, TypeOK
  <2> QED BY <2>1, <2>2, <2>3, <2>4, <2>5, <2>6, <2>7
<1>13. ASSUME NEW t \in Calls, OnLine(t) PROVE TInv'
  <2> USE <1>13 DEF OnLine
  <2>1. TypeOK'
    <3>1. Head(said[t]) \in Lines /\ Tail(said[t]) \in Seq(Lines) BY TailFacts DEF TypeOK
    <3>2. conn' \in {"none", "waiting", "tcp", "udp"}
      BY <3>1 DEF TypeOK, Lines, upgradeAtLeastTCP
    <3> QED BY <3>1, <3>2 DEF TypeOK
  <2>2. Books' BY DEF Books, TypeOK
  <2>3. Alone' BY DEF Alone, Books, Starting, TypeOK
  <2>4. Kept' BY SameSupervision
  <2>5. ShowsRunning' BY DEF ShowsRunning, Books, TypeOK
  <2>6. Leaving' BY DEF Leaving, Busy, Starting, Up, TypeOK
  <2>7. Emptied' BY DEF Emptied, Up, Running, TypeOK
  <2> QED BY <2>1, <2>2, <2>3, <2>4, <2>5, <2>6, <2>7
<1>14. ASSUME NEW t \in Calls, OnExit(t) PROVE TInv'
  <2> USE <1>14 DEF OnExit
  <2>1. TypeOK' BY DEF TypeOK
  <2>2. Books' BY DEF Books, TypeOK
  <2>3. Alone' BY DEF Alone, Books, Starting, TypeOK
  <2>4. Kept'
    <3> SUFFICES ASSUME ~overlap, ~late', NEW x \in Calls, Running(x)'
                 PROVE  tracked' = x \/ pc'[x] = "track" \/ Stopping(x)'
      BY DEF Kept, Claimed
    <3>1. x # t /\ Running(x) BY DEF Running, TypeOK
    <3>2. ~late /\ (name = profile[t] => tracked = t)
      <4>1. \/ name = profile[t] /\ late' = (late \/ tracked # t)
            \/ name # profile[t] /\ late' = late
        OBVIOUS
      <4>2. late \in BOOLEAN /\ late' \in BOOLEAN BY <2>1 DEF TypeOK
      <4> DEFINE named == name = profile[t]
      <4> DEFINE same == tracked = t
      <4>3. \/ named /\ late' = (late \/ ~same)
            \/ ~named /\ late' = late
        BY <4>1
      <4>4. named \in BOOLEAN /\ same \in BOOLEAN OBVIOUS
      <4> HIDE DEF named, same
      <4>5. ~late /\ (named => same) BY <4>2, <4>3, <4>4, UnlessLate
      <4> QED BY <4>5 DEF named, same
    <3>3. tracked = x \/ pc[x] = "track" \/ Stopping(x) BY <3>1, <3>2 DEF Kept, Claimed
    <3>4. Stopping(x) => Stopping(x)' BY DEF Stopping
    <3> QED BY <3>1, <3>2, <3>3, <3>4
  <2>5. ShowsRunning' BY DEF ShowsRunning, Books, TypeOK
  <2>6. Leaving' BY DEF Leaving, Busy, Starting, Up, TypeOK
  <2>7. Emptied' BY DEF Emptied, Up, Running, TypeOK
  <2> QED BY <2>1, <2>2, <2>3, <2>4, <2>5, <2>6, <2>7
<1>15. ASSUME Quit PROVE TInv'
  <2> USE <1>15 DEF Quit
  <2>1. TypeOK' BY DEF TypeOK
  <2>2. Books' BY DEF Books, TypeOK
  <2>3. Alone' BY DEF Alone, Books, Starting, TypeOK
  <2>4. Kept' BY DEF Kept, Claimed, Running, Stopping, Alone, Starting, Books, TypeOK
  <2>5. ShowsRunning' BY DEF ShowsRunning, Books, TypeOK
  <2>6. Leaving' BY DEF Leaving, Busy, Starting, Up, TypeOK
  <2>7. Emptied' BY DEF Emptied, Up, Running, TypeOK
  <2> QED BY <2>1, <2>2, <2>3, <2>4, <2>5, <2>6, <2>7
<1>16. ASSUME StopTracked PROVE TInv'
  <2> USE <1>16 DEF StopTracked, Killed
  <2>1. TypeOK' BY DEF TypeOK
  <2>2. Books' BY DEF Books, TypeOK
  <2>3. Alone' BY DEF Alone, Books, Starting, TypeOK
  <2>4. Kept' BY DEF Kept, Claimed, Running, Stopping, TypeOK
  <2>5. ShowsRunning' BY DEF ShowsRunning, Books, TypeOK
  <2>6. Leaving' BY DEF Leaving, Busy, Starting
  <2>7. Emptied'
    <3> SUFFICES ASSUME ~midway, ~overlap, ~late, NEW x \in Calls, Running(x)'
                 PROVE  FALSE
      BY DEF Emptied
    <3>1. x # doomed /\ Running(x) BY DEF Running, TypeOK
    <3>2. \A u \in Calls : pc[u] \notin {"kill", "killonly", "track"}
      BY DEF Leaving, Busy, Starting
    <3>3. tracked # x BY <3>1 DEF Leaving
    <3>4. ~Stopping(x) BY <3>2 DEF Stopping, Books
    <3> QED BY <3>1, <3>2, <3>3, <3>4 DEF Kept, Claimed
  <2> QED BY <2>1, <2>2, <2>3, <2>4, <2>5, <2>6, <2>7
<1>17. CASE UNCHANGED vars
  BY <1>17 DEF vars, TypeOK, Books, Alone, Starting, Kept, Claimed, Running, Stopping,
               Leaving, Busy, Emptied, Up, ShowsRunning
<1> QED BY <1>1, <1>2, <1>3, <1>4, <1>5, <1>6, <1>7, <1>8, <1>9, <1>10, <1>11, <1>12, <1>13, <1>14, <1>15, <1>16, <1>17 DEF Next, Call

THEOREM Invariance == Spec => []TInv
BY InitInv, StepInv, PTL DEF Spec

----------------------------------------------------------------------------

\* The fields of app and the goroutines that share them keep their types, and
\* the tracked process and its name are set and cleared together
\* (menu.go:31-44).
THEOREM TypeCorrect == Spec => []TypeOK
<1>1. TInv => TypeOK BY DEF TInv
<1> QED BY <1>1, Invariance, PTL

\* With calls that do not overlap, no late exit and no call cut off by the end
\* of the tray, every process that runs has a tray that tracks it, or a call in
\* it that is about to track or stop it; at most one of them is not about to be
\* stopped; and none runs once the tray is gone (menu.go:118-128, 334-416).
THEOREM OneProcess == Spec => []OneAtATime
<1>1. TInv => OneAtATime
  <2> SUFFICES ASSUME TInv, ~overlap, ~late, ~Abandoned PROVE Supervised /\ AtMostOne
    BY DEF OneAtATime
  <2>1. \A t \in Calls : Running(t) => Claimed(t) BY DEF TInv, Kept
  <2>2. \A t \in Calls : Running(t) => Up BY DEF TInv, Emptied, Abandoned
  <2>3. Supervised BY <2>1, <2>2 DEF Supervised
  <2>4. AtMostOne BY <2>1 DEF TInv, Alone, Starting, Claimed, AtMostOne, TypeOK
  <2> QED BY <2>3, <2>4
<1> QED BY <1>1, Invariance, PTL

\* What is shown as running has not gone, unless it had when it was tracked.
THEOREM Shown == Spec => []ShowsRunning
<1>1. TInv => ShowsRunning BY DEF TInv
<1> QED BY <1>1, Invariance, PTL

----------------------------------------------------------------------------
\* What the connection of a process may be.
Links == {"waiting", "tcp", "udp"}

\* Lines as the process prints them: a first line that onLine handles in state
\* c, a line after another, and a last line, which tells l.  Between its two
\* lines, a UDP connection is "pending".
Opens(c, line) == line = "authenticated" => c \in {"waiting", "udp"}

Follows(before, line) ==
  /\ before = "udp enabled" => line = "authenticated"
  /\ before = "authenticated" => line # "authenticated"

Ends(c, line, l) ==
  /\ line = "udp enabled" => l = "pending"
  /\ line = "authenticated" => l = IF c = "udp" THEN "udp" ELSE "tcp"
  /\ line = "disconnected" => l = "waiting"

After(line) == IF line = "udp enabled" THEN "udp" ELSE "waiting"

\* From the connection state c the lines in queue lead to l.
Tells(c, queue, l) ==
  /\ Len(queue) = 0 => c = l
  /\ Len(queue) > 0 => Opens(c, queue[1])
  /\ \A i \in 1 .. Len(queue) - 1 : Follows(queue[i], queue[i + 1])
  /\ Len(queue) = 1 => Ends(c, queue[1], l)
  /\ Len(queue) > 1 => Ends(After(queue[Len(queue) - 1]), queue[Len(queue)], l)

\* The lines of a process tell its connection's state: all of them, when none
\* has been handled yet, and the rest of them, from what the menu shows.
Told ==
  \A t \in Calls :
    /\ t \notin heard => Tells("waiting", said[t], link[t])
    /\ ~mixed /\ tracked = t => Tells(conn, said[t], link[t])

LEMMA TailAt ==
  ASSUME NEW q \in Seq(Lines), q # <<>>
  PROVE  /\ Len(q) \in Nat /\ Len(q) >= 1 /\ Len(Tail(q)) = Len(q) - 1
         /\ \A i \in 1 .. Len(q) - 1 : Tail(q)[i] = q[i + 1]
         /\ Head(q) = q[1]
         /\ \A i \in 1 .. Len(q) : q[i] \in Lines
<1>1. Len(q) \in Nat /\ Len(q) >= 1 OBVIOUS
<1>2. Len(Tail(q)) = Len(q) - 1 OBVIOUS
<1>3. \A i \in 1 .. Len(q) - 1 : Tail(q)[i] = q[i + 1] OBVIOUS
<1>4. Head(q) = q[1] OBVIOUS
<1>5. \A i \in 1 .. Len(q) : q[i] \in Lines OBVIOUS
<1> QED BY <1>1, <1>2, <1>3, <1>4, <1>5

LEMMA AppendAt ==
  ASSUME NEW q \in Seq(Lines), NEW x \in Lines
  PROVE  /\ Len(q) \in Nat /\ Len(Append(q, x)) = Len(q) + 1
         /\ \A i \in 1 .. Len(q) : Append(q, x)[i] = q[i]
         /\ Append(q, x)[Len(q) + 1] = x
         /\ Append(q, x) \in Seq(Lines)
<1>1. Len(q) \in Nat /\ Len(Append(q, x)) = Len(q) + 1 OBVIOUS
<1>2. \A i \in 1 .. Len(q) : Append(q, x)[i] = q[i] OBVIOUS
<1>3. Append(q, x)[Len(q) + 1] = x OBVIOUS
<1>4. Append(q, x) \in Seq(Lines) OBVIOUS
<1> QED BY <1>1, <1>2, <1>3, <1>4

LEMMA Appended ==
  ASSUME NEW q \in Seq(Lines), NEW x \in Lines, NEW y \in Lines
  PROVE  /\ q \o <<x>> = Append(q, x)
         /\ q \o <<x, y>> = Append(Append(q, x), y)
<1>1. q \o <<x>> = Append(q, x) OBVIOUS
<1>2. q \o <<x, y>> = Append(Append(q, x), y) OBVIOUS
<1> QED BY <1>1, <1>2

\* What onLine makes of a connection state.
Handled(c, line) ==
  CASE line = "udp enabled" -> "udp"
    [] line = "authenticated" -> upgradeAtLeastTCP(c)
    [] line = "disconnected" -> "waiting"

\* Handling a last line, and a line before others.
LEMMA HandledLast ==
  ASSUME NEW c, NEW x \in Lines, NEW l \in Links, Opens(c, x), Ends(c, x, l)
  PROVE  Handled(c, x) = l
<1>1. CASE x = "udp enabled" BY <1>1 DEF Ends, Links
<1>2. CASE x = "authenticated"
  BY <1>2 DEF Ends, Opens, Handled, upgradeAtLeastTCP
<1>3. CASE x = "disconnected" BY <1>3 DEF Ends, Handled
<1> QED BY <1>1, <1>2, <1>3 DEF Lines

LEMMA HandledBefore ==
  ASSUME NEW c, NEW x \in Lines, NEW y \in Lines, Follows(x, y)
  PROVE  /\ Opens(Handled(c, x), y)
         /\ \A l : Ends(After(x), y, l) => Ends(Handled(c, x), y, l)
<1>1. CASE x = "udp enabled" BY <1>1 DEF Ends, Opens, Handled, After
<1>2. CASE x = "authenticated" BY <1>2 DEF Follows, Ends, Opens
<1>3. CASE x = "disconnected" BY <1>3 DEF Ends, Opens, Handled, After
<1> QED BY <1>1, <1>2, <1>3 DEF Lines

\* Handling the first line leaves the others to tell the same.
LEMMA TellsTail ==
  ASSUME NEW c, NEW q \in Seq(Lines), q # <<>>, NEW l \in Links, Tells(c, q, l)
  PROVE  Tells(Handled(c, Head(q)), Tail(q), l)
<1> DEFINE n == Len(q)
           rest == Tail(q)
           now == Handled(c, q[1])
<1>1. n \in Nat /\ n >= 1 /\ Len(rest) = n - 1 BY TailAt
<1>2. \A i \in 1 .. n - 1 : rest[i] = q[i + 1] BY TailAt
<1>3. Head(q) = q[1] BY TailAt
<1>4. \A i \in 1 .. n : q[i] \in Lines BY TailAt
<1>5. /\ Opens(c, q[1])
      /\ \A i \in 1 .. n - 1 : Follows(q[i], q[i + 1])
      /\ n = 1 => Ends(c, q[1], l)
      /\ n > 1 => Ends(After(q[n - 1]), q[n], l)
  BY <1>1 DEF Tells
<1> HIDE DEF n, rest
<1>6. q[1] \in Lines BY <1>1, <1>4
<1>7. n = 1 => now = l BY <1>5, <1>6, HandledLast
<1>8. ASSUME n > 1
      PROVE  /\ rest[1] = q[2] /\ q[2] \in Lines /\ Follows(q[1], q[2])
             /\ rest[n - 1] = q[n]
             /\ n > 2 => rest[n - 2] = q[n - 1]
  <2>1. /\ 1 \in 1 .. n - 1 /\ 1 + 1 = 2 /\ 2 \in 1 .. n
        /\ n - 1 \in 1 .. n - 1 /\ (n - 1) + 1 = n
        /\ n > 2 => n - 2 \in 1 .. n - 1 /\ (n - 2) + 1 = n - 1
    BY <1>1, <1>8
  <2> QED BY <1>2, <1>4, <1>5, <2>1
<1>9. n > 1 => /\ Opens(now, rest[1])
               /\ Ends(After(q[1]), rest[1], l) => Ends(now, rest[1], l)
  BY <1>6, <1>8, HandledBefore
<1>10. n = 2 => Ends(now, rest[1], l)
  BY <1>5, <1>8, <1>9
<1>11. n > 2 => Ends(After(rest[n - 2]), rest[n - 1], l)
  BY <1>1, <1>5, <1>8
<1>12. \A i \in 1 .. n - 2 : Follows(rest[i], rest[i + 1])
  <2>1. TAKE i \in 1 .. n - 2
  <2>2. i \in 1 .. n - 1 /\ i + 1 \in 1 .. n - 1 BY <1>1
  <2> QED BY <1>2, <1>5, <2>2
<1>13. /\ Len(rest) = 0 => n = 1
       /\ Len(rest) > 0 => n > 1
       /\ Len(rest) = 1 => n = 2
       /\ Len(rest) > 1 => n > 2
       /\ Len(rest) - 1 = n - 2
       /\ Len(rest) = n - 1
  BY <1>1
<1>14. Tells(now, rest, l)
  <2>1. /\ Len(rest) = 0 => now = l
        /\ Len(rest) > 0 => Opens(now, rest[1])
        /\ \A i \in 1 .. Len(rest) - 1 : Follows(rest[i], rest[i + 1])
    BY <1>7, <1>9, <1>12, <1>13
  <2>2. Len(rest) = 1 => Ends(now, rest[1], l) BY <1>10, <1>13
  <2>3. Len(rest) > 1 => Ends(After(rest[Len(rest) - 1]), rest[Len(rest)], l)
    BY <1>11, <1>13
  <2> QED BY <2>1, <2>2, <2>3 DEF Tells
<1> QED BY <1>3, <1>14 DEF rest

\* A line that may come in state was leads to l.
Adds(was, x, l) ==
  \/ x = "udp enabled" /\ was = "waiting" /\ l = "pending"
  \/ x = "authenticated" /\ was = "waiting" /\ l = "tcp"
  \/ x = "authenticated" /\ was = "pending" /\ l = "udp"
  \/ x = "disconnected" /\ was # "pending" /\ l = "waiting"

LEMMA AddsFirst ==
  ASSUME NEW c, NEW x, NEW l, c # "pending", Adds(c, x, l)
  PROVE  Opens(c, x) /\ Ends(c, x, l)
  BY DEF Adds, Opens, Ends

LEMMA AddsNext ==
  ASSUME NEW c, NEW y \in Lines, NEW was, NEW x, NEW l, Ends(c, y, was), Adds(was, x, l)
  PROVE  Follows(y, x) /\ Ends(After(y), x, l)
<1>1. CASE y = "udp enabled" BY <1>1 DEF Ends, Adds, Follows, After
<1>2. CASE y = "authenticated" BY <1>2 DEF Ends, Adds, Follows, After
<1>3. CASE y = "disconnected" BY <1>3 DEF Ends, Adds, Follows, After
<1> QED BY <1>1, <1>2, <1>3 DEF Lines

LEMMA TellsMore ==
  ASSUME NEW c, c # "pending", NEW q \in Seq(Lines), NEW was, Tells(c, q, was),
         NEW x \in Lines, NEW l, Adds(was, x, l)
  PROVE  Tells(c, Append(q, x), l)
<1> DEFINE n == Len(q)
           longer == Append(q, x)
<1>1. n \in Nat /\ Len(longer) = n + 1 BY AppendAt
<1>2. \A i \in 1 .. n : longer[i] = q[i] BY AppendAt
<1>3. longer[n + 1] = x BY AppendAt
<1>4. n > 0 => q[n] \in Lines OBVIOUS
<1>5. /\ n = 0 => c = was
      /\ n > 0 => Opens(c, q[1])
      /\ \A i \in 1 .. n - 1 : Follows(q[i], q[i + 1])
      /\ n = 1 => Ends(c, q[1], was)
      /\ n > 1 => Ends(After(q[n - 1]), q[n], was)
  BY DEF Tells
<1> HIDE DEF n, longer
<1>6. n = 0 => longer[1] = x /\ Opens(c, x) /\ Ends(c, x, l)
  BY <1>1, <1>3, <1>5, AddsFirst
<1>7. n > 0 => Follows(q[n], x) /\ Ends(After(q[n]), x, l)
  <2>1. CASE n = 1 BY <1>4, <1>5, <2>1, AddsNext
  <2>2. CASE n > 1 BY <1>4, <1>5, <2>2, AddsNext
  <2> QED BY <1>1, <2>1, <2>2
<1>8. n > 0 => longer[1] = q[1] /\ longer[n] = q[n]
  <2>1. n > 0 => 1 \in 1 .. n /\ n \in 1 .. n BY <1>1
  <2> QED BY <1>2, <2>1
<1>9. \A i \in 1 .. n : Follows(longer[i], longer[i + 1])
  <2>1. TAKE i \in 1 .. n
  <2>2. CASE i = n
    <3>1. n > 0 BY <1>1, <2>2
    <3> QED BY <1>3, <1>7, <1>8, <2>2, <3>1
  <2>3. CASE i # n
    <3>1. i \in 1 .. n - 1 /\ i + 1 \in 1 .. n BY <1>1, <2>3
    <3> QED BY <1>2, <1>5, <3>1
  <2> QED BY <2>2, <2>3
<1>10. /\ Len(longer) = n + 1 /\ Len(longer) # 0 /\ Len(longer) - 1 = n
       /\ Len(longer) = 1 => n = 0
       /\ Len(longer) > 1 => n > 0
       /\ n = 0 \/ n > 0
  BY <1>1
<1>11. Opens(c, longer[1]) BY <1>5, <1>6, <1>8, <1>10
<1>12. Len(longer) = 1 => Ends(c, longer[1], l) BY <1>6, <1>10
<1>13. Len(longer) > 1 => Ends(After(longer[Len(longer) - 1]), longer[Len(longer)], l)
  BY <1>3, <1>7, <1>8, <1>10
<1> QED BY <1>9, <1>10, <1>11, <1>12, <1>13 DEF Tells, longer

LEMMA Logged ==
  ASSUME NEW c, c # "pending", NEW q \in Seq(Lines)
  PROVE  /\ Tells(c, q, "waiting") => Tells(c, q \o <<"authenticated">>, "tcp")
         /\ Tells(c, q, "waiting") => Tells(c, q \o <<"udp enabled", "authenticated">>, "udp")
         /\ \A was \in Links : Tells(c, q, was) => Tells(c, q \o <<"disconnected">>, "waiting")
<1>1. {"authenticated", "udp enabled", "disconnected"} \subseteq Lines BY DEF Lines
<1>2. ASSUME Tells(c, q, "waiting") PROVE Tells(c, q \o <<"authenticated">>, "tcp")
  <2>1. Adds("waiting", "authenticated", "tcp") BY DEF Adds
  <2>2. Tells(c, Append(q, "authenticated"), "tcp") BY <1>1, <1>2, <2>1, TellsMore
  <2> QED BY <1>1, <2>2, Appended
<1>3. ASSUME Tells(c, q, "waiting")
      PROVE  Tells(c, q \o <<"udp enabled", "authenticated">>, "udp")
  <2>1. /\ Adds("waiting", "udp enabled", "pending")
        /\ Adds("pending", "authenticated", "udp")
    BY DEF Adds
  <2>2. Tells(c, Append(q, "udp enabled"), "pending") BY <1>1, <1>3, <2>1, TellsMore
  <2>3. Append(q, "udp enabled") \in Seq(Lines) BY <1>1, AppendAt
  <2>4. Tells(c, Append(Append(q, "udp enabled"), "authenticated"), "udp")
    BY <1>1, <2>1, <2>2, <2>3, TellsMore
  <2> QED BY <1>1, <2>4, Appended
<1>4. ASSUME NEW was \in Links, Tells(c, q, was)
      PROVE  Tells(c, q \o <<"disconnected">>, "waiting")
  <2>1. Adds(was, "disconnected", "waiting") BY DEF Adds, Links
  <2>2. Tells(c, Append(q, "disconnected"), "waiting") BY <1>1, <1>4, <2>1, TellsMore
  <2> QED BY <1>1, <2>2, Appended
<1> QED BY <1>2, <1>3, <1>4

LEMMA InitTold == Init => Told
<1> SUFFICES ASSUME Init, NEW t \in Calls
             PROVE  /\ Tells("waiting", said[t], link[t])
                    /\ tracked # t
  BY DEF Told
<1>1. said[t] = <<>> /\ link[t] = "waiting" /\ tracked # t BY DEF Init
<1>2. Len(<<>>) = 0 OBVIOUS
<1>3. \A i \in 1 .. 0 - 1 : FALSE OBVIOUS
<1>4. Tells("waiting", <<>>, "waiting") BY <1>2, <1>3 DEF Tells
<1> QED BY <1>1, <1>4

\* Steps after which no other process is tracked and the lines are the same.
LEMMA SameTold ==
  ASSUME Told, UNCHANGED <<said, link, heard, mixed>>, tracked' = None \/ UNCHANGED <<tracked, conn>>
  PROVE  Told'
  BY DEF Told

LEMMA ConnectedTold == ASSUME TypeOK, Told, NEW t \in Calls, Connected(t) PROVE Told'
<1>1. \A u \in Calls : u # t => said'[u] = said[u] /\ link'[u] = link[u]
  BY DEF Connected, Prints, TypeOK
<1>2. said[t] \in Seq(Lines) /\ link[t] = "waiting" BY DEF TypeOK, Connected
<1>3. \/ said'[t] = said[t] \o <<"authenticated">> /\ link'[t] = "tcp"
      \/ said'[t] = said[t] \o <<"udp enabled", "authenticated">> /\ link'[t] = "udp"
  BY DEF Connected, Prints, TypeOK
<1>4. UNCHANGED <<tracked, conn, heard, mixed>> BY DEF Connected, app, history
<1>5. conn # "pending" /\ "waiting" # "pending" BY DEF TypeOK
<1>6. ASSUME NEW c, c # "pending", Tells(c, said[t], link[t])
      PROVE  Tells(c, said'[t], link'[t])
  BY <1>2, <1>3, <1>6, Logged
<1> QED BY <1>1, <1>4, <1>5, <1>6 DEF Told

LEMMA DisconnectedTold == ASSUME TypeOK, Told, NEW t \in Calls, Disconnected(t) PROVE Told'
<1>1. \A u \in Calls : u # t => said'[u] = said[u] /\ link'[u] = link[u]
  BY DEF Disconnected, Prints, TypeOK
<1>2. said[t] \in Seq(Lines) /\ link[t] \in Links BY DEF TypeOK, Links
<1>3. said'[t] = said[t] \o <<"disconnected">> /\ link'[t] = "waiting"
  BY DEF Disconnected, Prints, TypeOK
<1>4. UNCHANGED <<tracked, conn, heard, mixed>> BY DEF Disconnected, app, history
<1>5. conn # "pending" /\ "waiting" # "pending" BY DEF TypeOK
<1>6. ASSUME NEW c, c # "pending", Tells(c, said[t], link[t])
      PROVE  Tells(c, said'[t], link'[t])
  BY <1>2, <1>3, <1>6, Logged
<1> QED BY <1>1, <1>4, <1>5, <1>6 DEF Told

LEMMA OnLineTold == ASSUME TypeOK, Told, NEW t \in Calls, OnLine(t) PROVE Told'
<1>1. \A u \in Calls : u # t => said'[u] = said[u] /\ link'[u] = link[u]
  BY DEF OnLine, TypeOK
<1>2. said[t] \in Seq(Lines) /\ said[t] # <<>> /\ link[t] \in Links BY DEF TypeOK, OnLine, Links
<1>3. said'[t] = Tail(said[t]) /\ link'[t] = link[t] BY DEF OnLine, TypeOK
<1>4. conn' = Handled(conn, Head(said[t])) BY DEF OnLine, Handled
<1>5. tracked' = tracked /\ heard' = heard \cup {t} /\ mixed' = (mixed \/ tracked # t)
  BY DEF OnLine
<1>6. ASSUME ~mixed', tracked = t PROVE Tells(conn', said'[t], link'[t])
  <2>1. Tells(conn, said[t], link[t]) BY <1>5, <1>6 DEF Told, TypeOK
  <2> QED BY <1>2, <1>3, <1>4, <2>1, TellsTail
<1>7. ASSUME NEW u \in Calls, u \notin heard'
      PROVE  Tells("waiting", said'[u], link'[u])
  BY <1>1, <1>5, <1>7 DEF Told
<1>8. ASSUME NEW u \in Calls, ~mixed', tracked' = u
      PROVE  Tells(conn', said'[u], link'[u])
  BY <1>5, <1>6, <1>8 DEF TypeOK
<1> QED BY <1>7, <1>8 DEF Told

LEMMA TrackTold == ASSUME TypeOK, Told, NEW t \in Calls, Track(t) PROVE Told'
<1>1. UNCHANGED <<said, link, heard>> /\ tracked' = t /\ conn' = "waiting"
      /\ mixed' = (t \in heard)
  BY DEF Track, process
<1> QED BY <1>1 DEF Told

LEMMA StepTold == TypeOK /\ Told /\ [Next]_vars => Told'
<1> SUFFICES ASSUME TypeOK, Told, [Next]_vars PROVE Told' OBVIOUS
<1>1. ASSUME NEW t \in Calls, NEW n \in Names, Toggle(t, n) PROVE Told'
  BY <1>1, SameTold DEF Toggle, app, process, history
<1>2. ASSUME NEW t \in Calls, RestartRunning(t) PROVE Told'
  BY <1>2, SameTold DEF RestartRunning, app, process, history
<1>3. ASSUME NEW t \in Calls, ClickStop(t) PROVE Told'
  BY <1>3, SameTold DEF ClickStop, app, process, history
<1>4. ASSUME NEW t \in Calls, Call(t) PROVE Told'
  <2>1. CASE Start(t) BY <2>1, SameTold DEF Start, Take, process
  <2>2. CASE Stop(t) BY <2>2, SameTold DEF Stop, Take, process, history
  <2>3. CASE Kill(t) BY <2>3, SameTold DEF Kill, app, history
  <2>4. CASE Spawn(t) BY <2>4, SameTold DEF Spawn, app, history
  <2>5. CASE SpawnFails(t) BY <2>5, SameTold DEF SpawnFails, app, process, history
  <2>6. CASE Track(t) BY <2>6, TrackTold
  <2> QED BY <1>4, <2>1, <2>2, <2>3, <2>4, <2>5, <2>6 DEF Call
<1>5. ASSUME NEW t \in Calls, Connected(t) PROVE Told' BY <1>5, ConnectedTold
<1>6. ASSUME NEW t \in Calls, Disconnected(t) PROVE Told' BY <1>6, DisconnectedTold
<1>7. ASSUME NEW t \in Calls, Dies(t) PROVE Told' BY <1>7, SameTold DEF Dies, app, history
<1>8. ASSUME NEW t \in Calls, OnLine(t) PROVE Told' BY <1>8, OnLineTold
<1>9. ASSUME NEW t \in Calls, OnExit(t) PROVE Told' BY <1>9, SameTold DEF OnExit, app
<1>10. CASE Quit BY <1>10, SameTold DEF Quit, app, process
<1>11. CASE StopTracked BY <1>11, SameTold DEF StopTracked, app, history
<1>12. CASE UNCHANGED vars BY <1>12, SameTold DEF vars, app, process, history
<1> QED
  BY <1>1, <1>2, <1>3, <1>4, <1>5, <1>6, <1>7, <1>8, <1>9, <1>10, <1>11, <1>12 DEF Next

LEMMA ToldShown == TypeOK /\ Told => ConnShown
<1> SUFFICES ASSUME TypeOK, Told, ~mixed, NEW t \in Calls, tracked = t, said[t] = <<>>
             PROVE  conn = link[t]
  BY DEF ConnShown
<1>1. Tells(conn, <<>>, link[t]) BY DEF Told
<1>2. Len(<<>>) = 0 OBVIOUS
<1> QED BY <1>1, <1>2 DEF Tells

\* What the menu shows of the tracked process's connection is true once its
\* lines are handled (menu.go:74-79), unless lines of another process or from
\* before it was tracked came in between: the lines that are still to come lead
\* from what is shown to what the process has.
THEOREM ConnectionShown == Spec => []ConnShown
<1>1. Init => Told BY InitTold
<1>2. TypeOK /\ Told /\ [Next]_vars => Told' BY StepTold
<1>3. TypeOK /\ Told => ConnShown BY ToldShown
<1> QED BY <1>1, <1>2, <1>3, TypeCorrect, PTL DEF Spec

----------------------------------------------------------------------------
(***************************************************************************)
(* ProfileEditor.  Its invariant has two halves.  Shapes and EditsKept say *)
(* what the window shows, place by place, and that every list fits its     *)
(* array; InSync relates the file, the configuration and the copies that   *)
(* are on their way between them.                                          *)
(***************************************************************************)

\* Beyond the types: an open window has an array and what it has selected is in
\* the form, and no copy is longer than its array.
Shapes ==
  /\ EditTypeOK
  /\ win # "closed" => work.arr # Nil
  /\ sel # 0 => form \in Profiles
  /\ \A g \in Goroutines : held[g].arr # Nil => held[g].len <= Len(heap[held[g].arr])
  /\ Len(wanted) = work.len

\* Until it saves, a window has an array of its own.
Separate == win # "closed" /\ ~saved => work.arr # mem.arr

\* Saves and reloads, one at a time.
Exclusive ==
  ~astray => \A g \in Goroutines : at[g] # "idle" =>
    win # "saved" /\ \A h \in Goroutines : at[h] # "idle" => h = g

Snapshot(cfg) == [lang |-> cfg.lang, list |-> List(cfg)]

\* What each save and reload has in hand is the configuration, or the file.
InHand ==
  ~astray /\ ~reused =>
    /\ ~Saving => disk = Snapshot(mem)
    /\ win = "saved" => disk = Snapshot(work)
    /\ \A g \in Goroutines :
         /\ at[g] = "marshal" => held[g] = mem
         /\ at[g] = "write" => data[g] = Snapshot(mem)
         /\ at[g] = "apply" => data[g] = disk

\* The language that is shown is on its way into the configuration, or there.
Speaks ==
  ~astray /\ ~reused /\ ~outdated =>
    /\ (\A g \in Goroutines : at[g] \notin {"lang", "apply"}) => mem.lang = lang
    /\ \A g \in Goroutines : at[g] \in {"lang", "apply"} => data[g].lang = lang
    /\ win # "closed" => work.lang = mem.lang

----------------------------------------------------------------------------
\* Lists.

LEMMA ListsAre == /\ \A s \in Lists : s \in Seq(Profiles) /\ Len(s) \in 0..MaxLen
                  /\ \A s \in Seq(Profiles) : Len(s) <= MaxLen => s \in Lists
<1>1. ASSUME NEW s \in Lists PROVE s \in Seq(Profiles) /\ Len(s) \in 0..MaxLen
  BY BoundsAssumption DEF Lists, BoundedSeq, SeqOf
<1>2. ASSUME NEW s \in Seq(Profiles), Len(s) <= MaxLen PROVE s \in Lists
  BY <1>2, BoundsAssumption DEF Lists, BoundedSeq, SeqOf
<1> QED BY <1>1, <1>2

\* Two lists are the same when they have the same profiles in the same places.
LEMMA SameLists ==
  ASSUME NEW s \in Seq(Profiles), NEW t \in Seq(Profiles), Len(s) = Len(t),
         \A i \in 1 .. Len(s) : s[i] = t[i]
  PROVE  s = t
  OBVIOUS

LEMMA Prefix ==
  ASSUME NEW s \in Seq(Profiles), NEW n \in 0 .. Len(s)
  PROVE  /\ SubSeq(s, 1, n) \in Seq(Profiles)
         /\ Len(SubSeq(s, 1, n)) = n
         /\ \A i \in 1..n : SubSeq(s, 1, n)[i] = s[i]
<1>1. SubSeq(s, 1, n) \in Seq(Profiles) /\ Len(SubSeq(s, 1, n)) = n
  OBVIOUS
<1>2. ASSUME NEW i \in 1..n PROVE SubSeq(s, 1, n)[i] = s[i]
  OBVIOUS
<1> QED BY <1>1, <1>2

LEMMA Suffix ==
  ASSUME NEW s \in Seq(Profiles), NEW m \in 1 .. Len(s) + 1
  PROVE  /\ SubSeq(s, m, Len(s)) \in Seq(Profiles)
         /\ Len(SubSeq(s, m, Len(s))) = Len(s) - m + 1
         /\ \A i \in 1 .. Len(s) - m + 1 : SubSeq(s, m, Len(s))[i] = s[m + i - 1]
<1>1. SubSeq(s, m, Len(s)) \in Seq(Profiles) /\ Len(SubSeq(s, m, Len(s))) = Len(s) - m + 1
  OBVIOUS
<1>2. ASSUME NEW i \in 1 .. Len(s) - m + 1 PROVE SubSeq(s, m, Len(s))[i] = s[m + i - 1]
  OBVIOUS
<1> QED BY <1>1, <1>2

LEMMA Joined ==
  ASSUME NEW s \in Seq(Profiles), NEW t \in Seq(Profiles)
  PROVE  s \o t \in Seq(Profiles) /\ Len(s \o t) = Len(s) + Len(t)
  OBVIOUS

\* A list with one element less: those after it move up by one.
LEMMA Removed ==
  ASSUME NEW s \in Seq(Profiles), NEW k \in 1 .. Len(s)
  PROVE  /\ RemoveAt(s, k) \in Seq(Profiles)
         /\ Len(RemoveAt(s, k)) = Len(s) - 1
         /\ \A i \in 1 .. Len(s) - 1 : RemoveAt(s, k)[i] = IF i < k THEN s[i] ELSE s[i + 1]
<1> DEFINE p == SubSeq(s, 1, k - 1)
           q == SubSeq(s, k + 1, Len(s))
<1>1. p \in Seq(Profiles) /\ Len(p) = k - 1 /\ \A i \in 1 .. k - 1 : p[i] = s[i]
  BY Prefix
<1>2. /\ q \in Seq(Profiles) /\ Len(q) = Len(s) - k
      /\ \A i \in 1 .. Len(s) - k : q[i] = s[k + i]
  <2>1. k + 1 \in 1 .. Len(s) + 1 OBVIOUS
  <2> QED BY <2>1, Suffix
<1>3. RemoveAt(s, k) = p \o q BY DEF RemoveAt
<1> HIDE DEF p, q
<1>4. p \o q \in Seq(Profiles) /\ Len(p \o q) = Len(s) - 1
  <2>1. p \in Seq(Profiles) /\ q \in Seq(Profiles) BY <1>1, <1>2
  <2>2. p \o q \in Seq(Profiles) /\ Len(p \o q) = Len(p) + Len(q) BY <2>1, Joined
  <2>3. Len(s) \in Nat /\ k \in Int OBVIOUS
  <2> QED BY <1>1, <1>2, <2>2, <2>3
<1>5. ASSUME NEW i \in 1 .. Len(s) - 1 PROVE (p \o q)[i] = IF i < k THEN s[i] ELSE s[i + 1]
  <2>1. CASE i < k BY <1>1, <1>2, <2>1
  <2>2. CASE ~(i < k)
    <3>1. (p \o q)[i] = q[i - (k - 1)] BY <1>1, <1>2, <2>2
    <3>2. i - (k - 1) \in 1 .. Len(s) - k /\ k + (i - (k - 1)) = i + 1 BY <2>2
    <3> QED BY <1>2, <2>2, <3>1, <3>2
  <2> QED BY <2>1, <2>2
<1> QED BY <1>3, <1>4, <1>5

\* The same in place: the array keeps its length.
LEMMA Shifted ==
  ASSUME NEW s \in Lists, NEW n \in 1 .. Len(s), NEW k \in 1..n
  PROVE  /\ Shift(s, k, n) \in Lists
         /\ Len(Shift(s, k, n)) = Len(s)
         /\ \A i \in 1 .. n - 1 : Shift(s, k, n)[i] = IF i < k THEN s[i] ELSE s[i + 1]
<1>1. s \in Seq(Profiles) /\ Len(s) \in 0..MaxLen BY ListsAre
<1>2. DOMAIN s = 1 .. Len(s) BY <1>1
<1>3. ASSUME NEW j \in 1 .. Len(s)
      PROVE  (IF j \in k .. n - 1 THEN s[j + 1] ELSE s[j]) \in Profiles
  <2>1. CASE j \in k .. n - 1
    <3>1. j + 1 \in 1 .. Len(s) BY <1>1, <2>1
    <3> QED BY <1>1, <2>1, <3>1
  <2>2. CASE j \notin k .. n - 1 BY <1>1, <2>2
  <2> QED BY <2>1, <2>2
<1>4. Shift(s, k, n) \in [1 .. Len(s) -> Profiles] BY <1>2, <1>3 DEF Shift
<1>5. Shift(s, k, n) \in Seq(Profiles) /\ Len(Shift(s, k, n)) = Len(s) BY <1>1, <1>4
<1>6. ASSUME NEW i \in 1 .. n - 1
      PROVE  Shift(s, k, n)[i] = IF i < k THEN s[i] ELSE s[i + 1]
  BY <1>2 DEF Shift
<1> QED BY <1>1, <1>5, <1>6, ListsAre

LEMMA AddedLast ==
  ASSUME NEW s \in Seq(Profiles), NEW e \in Profiles
  PROVE  /\ Append(s, e) \in Seq(Profiles)
         /\ Len(Append(s, e)) = Len(s) + 1
         /\ \A i \in 1 .. Len(s) : Append(s, e)[i] = s[i]
         /\ Append(s, e)[Len(s) + 1] = e
  OBVIOUS

LEMMA Replaced ==
  ASSUME NEW s \in Seq(Profiles), NEW k \in 1 .. Len(s), NEW e \in Profiles
  PROVE  /\ [s EXCEPT ![k] = e] \in Seq(Profiles)
         /\ Len([s EXCEPT ![k] = e]) = Len(s)
         /\ \A i \in 1 .. Len(s) : [s EXCEPT ![k] = e][i] = IF i = k THEN e ELSE s[i]
  OBVIOUS

\* What append leaves of an array that the list has grown in.
LEMMA Grown ==
  ASSUME NEW s \in Seq(Profiles), NEW l \in Seq(Profiles), Len(l) <= Len(s) + 1
  PROVE  LET r == l \o SubSeq(s, Len(l) + 1, Len(s))
         IN  /\ r \in Seq(Profiles)
             /\ Len(r) >= Len(s) /\ Len(r) >= Len(l)
             /\ Len(r) <= Len(s) \/ Len(r) <= Len(l)
             /\ \A i \in 1 .. Len(l) : r[i] = l[i]
<1>1. CASE Len(l) <= Len(s)
  <2>1. Len(l) + 1 \in 1 .. Len(s) + 1 BY <1>1
  <2>2. /\ SubSeq(s, Len(l) + 1, Len(s)) \in Seq(Profiles)
        /\ Len(SubSeq(s, Len(l) + 1, Len(s))) = Len(s) - Len(l)
    BY <2>1, Suffix
  <2> QED BY <1>1, <2>2
<1>2. CASE Len(l) = Len(s) + 1
  <2>1. SubSeq(s, Len(l) + 1, Len(s)) = <<>> BY <1>2
  <2> QED BY <1>2, <2>1
<1> QED BY <1>1, <1>2

----------------------------------------------------------------------------
\* The heap.

Heaps == [Arrays -> Lists]

LEMMA ListAt ==
  ASSUME NEW h \in Heaps, NEW cfg \in Configs, cfg.arr # Nil, cfg.len <= Len(h[cfg.arr])
  PROVE  /\ cfg.arr \in Arrays
         /\ ListIn(h, cfg) \in Lists
         /\ Len(ListIn(h, cfg)) = cfg.len
         /\ \A i \in 1 .. cfg.len : ListIn(h, cfg)[i] = h[cfg.arr][i]
<1>1. cfg.arr \in Arrays /\ cfg.len \in 0..MaxLen BY DEF Configs
<1>2. h[cfg.arr] \in Seq(Profiles) /\ Len(h[cfg.arr]) \in 0..MaxLen BY <1>1, ListsAre DEF Heaps
<1>3. cfg.len \in 0 .. Len(h[cfg.arr]) BY <1>1, <1>2
<1>4. ListIn(h, cfg) = SubSeq(h[cfg.arr], 1, cfg.len) BY DEF ListIn
<1>5. /\ SubSeq(h[cfg.arr], 1, cfg.len) \in Seq(Profiles)
      /\ Len(SubSeq(h[cfg.arr], 1, cfg.len)) = cfg.len
      /\ \A i \in 1 .. cfg.len : SubSeq(h[cfg.arr], 1, cfg.len)[i] = h[cfg.arr][i]
  BY <1>2, <1>3, Prefix
<1>6. ListIn(h, cfg) \in Lists
  <2>1. ListIn(h, cfg) \in Seq(Profiles) /\ Len(ListIn(h, cfg)) = cfg.len BY <1>4, <1>5
  <2>2. Len(ListIn(h, cfg)) <= MaxLen BY <1>1, <2>1, BoundsAssumption
  <2> QED BY <2>1, <2>2, ListsAre
<1> QED BY <1>1, <1>4, <1>5, <1>6

\* Either way a list has at most MaxLen profiles.
LEMMA ListType ==
  ASSUME NEW h \in Heaps, NEW cfg \in Configs, cfg.arr # Nil => cfg.len <= Len(h[cfg.arr])
  PROVE  ListIn(h, cfg) \in Lists
<1>1. CASE cfg.arr = Nil
  <2>1. <<>> \in Seq(Profiles) /\ Len(<<>>) <= MaxLen BY BoundsAssumption
  <2>2. ListIn(h, cfg) = <<>> BY <1>1 DEF ListIn
  <2> QED BY <2>1, <2>2, ListsAre
<1>2. CASE cfg.arr # Nil BY <1>2, ListAt
<1> QED BY <1>1, <1>2

\* A whole list.
LEMMA WholeList ==
  ASSUME NEW h \in Heaps, NEW cfg \in Configs, cfg.arr # Nil, cfg.len = Len(h[cfg.arr])
  PROVE  ListIn(h, cfg) = h[cfg.arr]
<1>1. cfg.arr \in Arrays /\ cfg.len \in 0..MaxLen BY DEF Configs
<1>2. h[cfg.arr] \in Seq(Profiles) BY <1>1, ListsAre DEF Heaps
<1>3. /\ cfg.len <= Len(h[cfg.arr]) BY <1>1, <1>2
<1>4. /\ ListIn(h, cfg) \in Seq(Profiles)
      /\ Len(ListIn(h, cfg)) = cfg.len
      /\ \A i \in 1 .. cfg.len : ListIn(h, cfg)[i] = h[cfg.arr][i]
  BY <1>3, ListAt, ListsAre
<1> QED BY <1>2, <1>4, SameLists

\* A heap with a form committed.
CommitIn(h, cfg, s, f) == IF s = 0 THEN h ELSE [h EXCEPT ![cfg.arr][s] = f]

LEMMA Committed ==
  ASSUME NEW h \in Heaps, NEW cfg \in Configs, cfg.arr # Nil, cfg.len <= Len(h[cfg.arr]),
         NEW s \in 0 .. cfg.len, NEW f, s # 0 => f \in Profiles
  PROVE  /\ CommitIn(h, cfg, s, f) \in Heaps
         /\ \A b \in Arrays : Len(CommitIn(h, cfg, s, f)[b]) = Len(h[b])
         /\ \A b \in Arrays : b # cfg.arr => CommitIn(h, cfg, s, f)[b] = h[b]
         /\ \A i \in 1 .. cfg.len :
              CommitIn(h, cfg, s, f)[cfg.arr][i] = IF i = s THEN f ELSE h[cfg.arr][i]
<1>1. cfg.arr \in Arrays /\ cfg.len \in 0..MaxLen BY DEF Configs
<1>2. h[cfg.arr] \in Seq(Profiles) /\ Len(h[cfg.arr]) \in 0..MaxLen
  BY <1>1, ListsAre DEF Heaps
<1>3. CASE s = 0 BY <1>1, <1>3 DEF CommitIn
<1>4. CASE s # 0
  <2>1. s \in 1 .. Len(h[cfg.arr]) BY <1>1, <1>2, <1>4
  <2> DEFINE new == [h[cfg.arr] EXCEPT ![s] = f]
             c == CommitIn(h, cfg, s, f)
  <2>2. /\ new \in Seq(Profiles)
        /\ Len(new) = Len(h[cfg.arr])
        /\ \A i \in 1 .. Len(h[cfg.arr]) : new[i] = IF i = s THEN f ELSE h[cfg.arr][i]
    BY <1>2, <1>4, <2>1, Replaced
  <2>3. c = [h EXCEPT ![cfg.arr] = new] BY <1>4 DEF CommitIn
  <2> HIDE DEF new, c
  <2>4. new \in Lists BY <1>2, <2>2, ListsAre
  <2>5. c \in Heaps BY <2>3, <2>4 DEF Heaps
  <2>6. c[cfg.arr] = new /\ \A b \in Arrays : b # cfg.arr => c[b] = h[b]
    BY <1>1, <2>3 DEF Heaps
  <2>7. \A b \in Arrays : Len(c[b]) = Len(h[b]) BY <2>2, <2>6
  <2>8. \A i \in 1 .. cfg.len : c[cfg.arr][i] = IF i = s THEN f ELSE h[cfg.arr][i]
    BY <1>1, <1>2, <2>2, <2>6
  <2> QED BY <2>5, <2>6, <2>7, <2>8 DEF c
<1> QED BY <1>3, <1>4

LEMMA CommitNow ==
  ASSUME Shapes, win # "closed"
  PROVE  /\ work \in Configs /\ work.arr \in Arrays /\ work.arr # Nil /\ work.len \in 0..MaxLen
         /\ heap \in Heaps /\ work.len <= Len(heap[work.arr])
         /\ sel \in 0 .. work.len
         /\ Commit \in Heaps
         /\ \A b \in Arrays : Len(Commit[b]) = Len(heap[b])
         /\ \A b \in Arrays : b # work.arr => Commit[b] = heap[b]
         /\ \A i \in 1 .. work.len :
              Commit[work.arr][i] = IF i = sel THEN form ELSE heap[work.arr][i]
<1>1. /\ heap \in Heaps /\ work \in Configs /\ work.arr # Nil
      /\ work.len <= Len(heap[work.arr])
      /\ sel \in 0 .. work.len /\ (sel # 0 => form \in Profiles)
  BY DEF Shapes, EditTypeOK, Heaps
<1>2. work.arr \in Arrays /\ work.len \in 0..MaxLen BY <1>1 DEF Configs
<1>3. Commit = CommitIn(heap, work, sel, form) BY DEF Commit, CommitIn
<1> QED BY <1>1, <1>2, <1>3, Committed

\* What EditsKept says, place by place.
LEMMA KeptNow ==
  ASSUME Shapes, EditsKept, win # "closed", ~outdated
  PROVE  \A i \in 1 .. work.len : wanted[i] = IF i = sel THEN form ELSE heap[work.arr][i]
<1>1. ListIn(Commit, work) = wanted BY DEF EditsKept
<1>2. \A i \in 1 .. work.len : ListIn(Commit, work)[i] = Commit[work.arr][i]
  BY CommitNow, ListAt
<1> QED BY <1>1, <1>2, CommitNow

LEMMA KeptNext ==
  ASSUME Shapes', win' # "closed",
         \A i \in 1 .. work'.len : wanted'[i] = IF i = sel' THEN form' ELSE heap'[work'.arr][i]
  PROVE  EditsKept'
<1>1. /\ heap' \in Heaps /\ work' \in Configs /\ work'.arr # Nil
      /\ work'.len <= Len(heap'[work'.arr])
      /\ sel' \in 0 .. work'.len /\ (sel' # 0 => form' \in Profiles)
      /\ wanted' \in Lists /\ Len(wanted') = work'.len
  BY DEF Shapes, EditTypeOK, Heaps
<1> DEFINE c == CommitIn(heap', work', sel', form')
<1>2. Commit' = c BY DEF Commit, CommitIn
<1>3. /\ c \in Heaps /\ Len(c[work'.arr]) = Len(heap'[work'.arr])
      /\ work'.arr \in Arrays
      /\ \A i \in 1 .. work'.len : c[work'.arr][i] = wanted'[i]
  <2>1. work'.arr \in Arrays BY <1>1 DEF Configs
  <2> QED BY <1>1, <2>1, Committed
<1> HIDE DEF c
<1>4. /\ ListIn(c, work') \in Lists /\ Len(ListIn(c, work')) = work'.len
      /\ \A i \in 1 .. work'.len : ListIn(c, work')[i] = c[work'.arr][i]
  BY <1>1, <1>3, ListAt
<1>5. ListIn(c, work') = wanted' BY <1>1, <1>3, <1>4, ListsAre, SameLists
<1> QED BY <1>2, <1>5 DEF EditsKept

\* What is selected has just been loaded: the form is what its place holds.
LEMMA Loaded ==
  ASSUME heap' \in Heaps, work' \in Configs, work'.arr # Nil,
         work'.len <= Len(heap'[work'.arr]),
         NEW i \in 0 .. work'.len, Load(heap', work', i)
  PROVE  /\ sel' = i
         /\ i # 0 => form' \in Profiles /\ form' = heap'[work'.arr][i]
         /\ form' \in Profiles \cup {Nil}
<1>1. work'.arr \in Arrays /\ work'.len \in 0..MaxLen BY DEF Configs
<1>2. heap'[work'.arr] \in Seq(Profiles) BY <1>1, ListsAre DEF Heaps
<1>3. i # 0 => i \in 1 .. Len(heap'[work'.arr]) BY <1>1, <1>2
<1>4. i # 0 => heap'[work'.arr][i] \in Profiles BY <1>2, <1>3
<1> QED BY <1>4 DEF Load

\* Arrays in use do not get shorter.
Longer == \A b \in Arrays : b \in Used => Len(heap'[b]) >= Len(heap[b])

LEMMA StillFits ==
  ASSUME Shapes, heap' \in Heaps, Longer, NEW cfg \in Configs, cfg.arr \in Used, cfg.arr # Nil,
         cfg.len <= Len(heap[cfg.arr])
  PROVE  cfg.len <= Len(heap'[cfg.arr])
<1>1. cfg.arr \in Arrays /\ cfg.len \in 0..MaxLen BY DEF Configs
<1>2. Len(heap[cfg.arr]) \in 0..MaxLen /\ Len(heap'[cfg.arr]) \in 0..MaxLen
  BY <1>1, ListsAre DEF Shapes, EditTypeOK, Heaps
<1> QED BY <1>1, <1>2, BoundsAssumption DEF Longer

LEMMA EditorShapes ==
  ASSUME Shapes, heap' \in Heaps, Longer, ops' \in 0..MaxOps, disk' \in Files,
         win' \in {"open", "saved"}, work' \in Configs, work'.arr # Nil,
         work'.len <= Len(heap'[work'.arr]),
         sel' \in 0 .. work'.len, form' \in Profiles \cup {Nil}, sel' # 0 => form' \in Profiles,
         wanted' \in Lists, Len(wanted') = work'.len,
         saved' \in BOOLEAN, reused' \in BOOLEAN, astray' \in BOOLEAN,
         UNCHANGED <<mem, lang, at, held, data, outdated>>
  PROVE  Shapes'
<1>1. /\ mem \in Configs /\ mem.arr # Nil /\ mem.len <= Len(heap[mem.arr])
      /\ held \in [Goroutines -> Configs]
      /\ \A g \in Goroutines : held[g].arr # Nil => held[g].len <= Len(heap[held[g].arr])
  BY DEF Shapes, EditTypeOK
<1>2. mem.len <= Len(heap'[mem.arr]) BY <1>1, StillFits DEF Used
<1>3. ASSUME NEW g \in Goroutines, held[g].arr # Nil
      PROVE  held[g].len <= Len(heap'[held[g].arr])
  BY <1>1, <1>3, StillFits DEF Used
<1> QED BY <1>1, <1>2, <1>3 DEF Shapes, EditTypeOK, Heaps

LEMMA GoroutineShapes ==
  ASSUME Shapes, heap' \in Heaps, Longer, ops' \in 0..MaxOps, disk' \in Files,
         mem' \in Configs, mem'.arr # Nil, mem'.len <= Len(heap'[mem'.arr]), lang' \in Languages,
         at' \in [Goroutines -> {"idle", "lang", "marshal", "write", "apply"}],
         held' \in [Goroutines -> Configs], data' \in [Goroutines -> Files],
         \A g \in Goroutines : held'[g].arr # Nil => held'[g].len <= Len(heap'[held'[g].arr]),
         outdated' \in BOOLEAN, astray' \in BOOLEAN,
         UNCHANGED <<win, work, sel, form, wanted, saved, reused>>
  PROVE  Shapes'
<1>1. work \in Configs /\ (work.arr # Nil => work.len <= Len(heap[work.arr]))
  BY DEF Shapes, EditTypeOK
<1>2. work.arr # Nil => work.len <= Len(heap'[work.arr]) BY <1>1, StillFits DEF Used
<1> QED BY <1>1, <1>2 DEF Shapes, EditTypeOK, Heaps
----------------------------------------------------------------------------
\* The steps of the editor: what they leave well formed, and in which window
\* what its user has entered is still there.

LEMMA Ops == ASSUME Shapes, Op PROVE ops' \in 0..MaxOps
  BY BoundsAssumption DEF Shapes, EditTypeOK, Op

LEMMA Flags ==
  ASSUME Shapes
  PROVE  /\ saved \in BOOLEAN /\ reused \in BOOLEAN /\ outdated \in BOOLEAN /\ astray \in BOOLEAN
         /\ disk \in Files /\ wanted \in Lists /\ Len(wanted) = work.len
         /\ form \in Profiles \cup {Nil} /\ (sel # 0 => form \in Profiles)
         /\ heap \in Heaps
  BY DEF Shapes, EditTypeOK, Heaps

\* An array that nothing uses is written.
LEMMA Fresh ==
  ASSUME Shapes, NEW a \in Arrays \ Used, NEW l \in Lists, heap' = [heap EXCEPT ![a] = l]
  PROVE  /\ heap' \in Heaps /\ heap'[a] = l
         /\ \A b \in Arrays : b # a => heap'[b] = heap[b]
         /\ Longer
<1>1. heap \in Heaps BY Flags
<1>2. heap' \in Heaps /\ heap'[a] = l BY <1>1 DEF Heaps
<1>3. \A b \in Arrays : b # a => heap'[b] = heap[b] BY <1>1 DEF Heaps
<1>4. Longer
  <2>1. \A b \in Arrays : Len(heap[b]) \in Nat BY <1>1, ListsAre DEF Heaps
  <2> QED BY <1>3, <2>1 DEF Longer
<1> QED BY <1>2, <1>3, <1>4

LEMMA SameLengths ==
  ASSUME Shapes, \A b \in Arrays : Len(heap'[b]) = Len(heap[b])
  PROVE  Longer
<1>1. \A b \in Arrays : Len(heap[b]) \in Nat BY Flags, ListsAre DEF Heaps
<1> QED BY <1>1 DEF Longer

LEMMA MemFacts ==
  ASSUME Shapes
  PROVE  /\ mem \in Configs /\ mem.arr \in Arrays /\ mem.arr # Nil /\ mem.len \in 0..MaxLen
         /\ mem.lang \in Languages /\ mem.len <= Len(heap[mem.arr])
         /\ List(mem) \in Lists /\ Len(List(mem)) = mem.len
         /\ \A i \in 1 .. mem.len : List(mem)[i] = heap[mem.arr][i]
<1>1. mem \in Configs /\ mem.arr # Nil /\ mem.len <= Len(heap[mem.arr]) /\ heap \in Heaps
  BY DEF Shapes, EditTypeOK, Heaps
<1> QED BY <1>1, ListAt DEF Configs, List

LEMMA OpenKeeps == ASSUME Shapes, Open PROVE Shapes' /\ EditsKept'
<1>1. PICK a \in Arrays \ Used :
        heap' = [heap EXCEPT ![a] = List(mem)] /\ work' = [mem EXCEPT !.arr = a]
  BY DEF Open
<1>2. heap' \in Heaps /\ heap'[a] = List(mem) /\ Longer BY <1>1, MemFacts, Fresh
<1>3. /\ work' \in Configs /\ work'.arr = a /\ work'.len = mem.len
      /\ work'.arr # Nil
  BY <1>1, MemFacts, NilAssumption DEF Configs
<1>4. work'.len \in 0..MaxLen /\ work'.len = Len(heap'[work'.arr]) BY <1>2, <1>3, MemFacts
<1>5. Load(heap', work', sel') /\ sel' \in 0 .. work'.len
  BY <1>2, <1>3, <1>4 DEF Open, Load
<1>6. /\ sel' # 0 => form' \in Profiles /\ form' = heap'[work'.arr][sel']
      /\ form' \in Profiles \cup {Nil}
  BY <1>2, <1>3, <1>4, <1>5, Loaded
<1>7. Shapes'
  <2>1. wanted' \in Lists /\ Len(wanted') = work'.len BY <1>3, MemFacts DEF Open
  <2>2. /\ win' \in {"open", "saved"} /\ saved' \in BOOLEAN /\ Op
        /\ UNCHANGED <<mem, lang, disk, at, held, data, reused, outdated, astray>>
    BY DEF Open, goroutines, flags
  <2>3. work'.len <= Len(heap'[work'.arr]) BY <1>4
  <2> QED BY <1>2, <1>3, <1>5, <1>6, <2>1, <2>2, <2>3, Ops, Flags, EditorShapes
<1>8. win' # "closed" BY DEF Open
<1>9. ASSUME NEW i \in 1 .. work'.len
      PROVE  wanted'[i] = IF i = sel' THEN form' ELSE heap'[work'.arr][i]
  BY <1>2, <1>3, <1>6 DEF Open
<1> QED BY <1>7, <1>8, <1>9, KeptNext

LEMMA TypeKeeps ==
  ASSUME Shapes, EditsKept, NEW text \in Texts, Type(text) PROVE Shapes' /\ EditsKept'
<1>1. win # "closed" /\ text \in Profiles BY DEF Type, Profiles
<1>2. /\ work \in Configs /\ work.arr # Nil /\ work.len \in 0..MaxLen
      /\ heap \in Heaps /\ work.len <= Len(heap[work.arr]) /\ sel \in 1 .. work.len
  BY <1>1, CommitNow DEF Type
<1>3. wanted \in Seq(Profiles) /\ Len(wanted) = work.len BY Flags, ListsAre
<1>4. /\ wanted' \in Lists /\ Len(wanted') = work.len
      /\ \A i \in 1 .. work.len : wanted'[i] = IF i = sel THEN text ELSE wanted[i]
  <2>1. /\ [wanted EXCEPT ![sel] = text] \in Seq(Profiles)
        /\ Len([wanted EXCEPT ![sel] = text]) = Len(wanted)
        /\ \A i \in 1 .. Len(wanted) :
             [wanted EXCEPT ![sel] = text][i] = IF i = sel THEN text ELSE wanted[i]
    BY <1>1, <1>2, <1>3, Replaced
  <2>2. wanted' = [wanted EXCEPT ![sel] = text] BY DEF Type
  <2>3. Len(wanted') <= MaxLen BY <1>2, <1>3, <2>1, <2>2, BoundsAssumption
  <2> QED BY <1>3, <2>1, <2>2, <2>3, ListsAre
<1>5. Longer BY SameLengths DEF Type
<1>6. Shapes'
  BY <1>1, <1>2, <1>4, <1>5, Ops, Flags, EditorShapes DEF Type, goroutines, flags
<1>7. CASE outdated BY <1>6, <1>7 DEF EditsKept, Type, flags
<1>8. CASE ~outdated
  <2>1. \A i \in 1 .. work.len : wanted[i] = IF i = sel THEN form ELSE heap[work.arr][i]
    BY <1>1, <1>8, KeptNow
  <2>2. \A i \in 1 .. work'.len :
          wanted'[i] = IF i = sel' THEN form' ELSE heap'[work'.arr][i]
    BY <1>4, <2>1 DEF Type
  <2> QED BY <1>1, <1>6, <2>2, KeptNext DEF Type
<1> QED BY <1>6, <1>7, <1>8, Flags

LEMMA SelectKeeps ==
  ASSUME Shapes, EditsKept, NEW i \in 1..MaxLen, Select(i) PROVE Shapes' /\ EditsKept'
<1>1. win = "open" /\ win' = win BY DEF Select, Editing
<1>2. /\ heap' = Commit /\ work' = work /\ wanted' = wanted /\ outdated' = outdated
      /\ Load(heap', work', i) /\ i \in 0 .. work'.len /\ i # 0
  BY DEF Select, Editing
<1>3. /\ heap' \in Heaps /\ work'.arr # Nil /\ work' \in Configs
      /\ work'.len <= Len(heap'[work'.arr])
  BY <1>1, <1>2, CommitNow
<1>4. Longer BY <1>1, <1>2, CommitNow, SameLengths
<1>5. sel' = i /\ form' \in Profiles /\ form' = heap'[work'.arr][i] BY <1>2, <1>3, Loaded
<1>6. Shapes'
  BY <1>1, <1>2, <1>3, <1>4, <1>5, Ops, Flags, EditorShapes DEF Select, Editing, goroutines
<1>7. CASE outdated BY <1>2, <1>6, <1>7 DEF EditsKept
<1>8. CASE ~outdated
  <2>1. \A j \in 1 .. work.len : wanted[j] = IF j = sel THEN form ELSE heap[work.arr][j]
    BY <1>1, <1>8, KeptNow
  <2>2. \A j \in 1 .. work.len : wanted[j] = heap'[work.arr][j]
    BY <1>1, <1>2, <2>1, CommitNow
  <2>3. \A j \in 1 .. work'.len :
          wanted'[j] = IF j = sel' THEN form' ELSE heap'[work'.arr][j]
    BY <1>2, <1>5, <2>2
  <2> QED BY <1>1, <1>6, <2>3, KeptNext
<1> QED BY <1>6, <1>7, <1>8, Flags

LEMMA SaveRefusedKeeps == ASSUME Shapes, EditsKept, SaveRefused PROVE Shapes' /\ EditsKept'
<1>1. win = "open" /\ win' = win BY DEF SaveRefused, Editing
<1>2. /\ heap' = Commit /\ work' = work /\ wanted' = wanted /\ outdated' = outdated
      /\ sel' = sel /\ form' = form
  BY DEF SaveRefused, Editing
<1>3. /\ heap' \in Heaps /\ work'.arr # Nil /\ work' \in Configs
      /\ work'.len <= Len(heap'[work'.arr]) /\ sel' \in 0 .. work'.len
  BY <1>1, <1>2, CommitNow
<1>4. Longer BY <1>1, <1>2, CommitNow, SameLengths
<1>5. Shapes'
  BY <1>1, <1>2, <1>3, <1>4, Ops, Flags, EditorShapes DEF SaveRefused, Editing, goroutines
<1>6. CASE outdated BY <1>2, <1>5, <1>6 DEF EditsKept
<1>7. CASE ~outdated
  <2>1. \A j \in 1 .. work.len : wanted[j] = IF j = sel THEN form ELSE heap[work.arr][j]
    BY <1>1, <1>7, KeptNow
  <2>2. \A j \in 1 .. work'.len :
          wanted'[j] = IF j = sel' THEN form' ELSE heap'[work'.arr][j]
    BY <1>1, <1>2, <2>1, CommitNow
  <2> QED BY <1>1, <1>5, <2>2, KeptNext
<1> QED BY <1>5, <1>6, <1>7, Flags

LEMMA SaveKeeps == ASSUME Shapes, EditsKept, Save PROVE Shapes' /\ EditsKept'
<1>1. win = "open" /\ win' = "saved" BY DEF Save
<1>2. /\ heap' = Commit /\ work' = work /\ wanted' = wanted /\ outdated' = outdated
      /\ sel' = sel /\ form' = form /\ Op
      /\ UNCHANGED <<mem, lang, at, held, data, saved>>
  BY DEF Save, goroutines
<1>3. /\ heap' \in Heaps /\ work'.arr # Nil /\ work' \in Configs
      /\ work'.len <= Len(heap'[work'.arr]) /\ sel' \in 0 .. work'.len
  BY <1>1, <1>2, CommitNow
<1>4. Longer BY <1>1, <1>2, CommitNow, SameLengths
<1>5. disk' \in Files
  <2>1. ListIn(heap', work) \in Lists BY <1>2, <1>3, ListAt
  <2> QED BY <1>2, <1>3, <2>1 DEF Save, Files, Configs
<1>6. reused' \in BOOLEAN /\ astray' \in BOOLEAN BY Flags DEF Save
<1>7. Shapes'
  BY <1>1, <1>2, <1>3, <1>4, <1>5, <1>6, Ops, Flags, EditorShapes
<1>8. CASE outdated BY <1>2, <1>7, <1>8 DEF EditsKept
<1>9. CASE ~outdated
  <2>1. \A j \in 1 .. work.len : wanted[j] = IF j = sel THEN form ELSE heap[work.arr][j]
    BY <1>1, <1>9, KeptNow
  <2>2. \A j \in 1 .. work'.len :
          wanted'[j] = IF j = sel' THEN form' ELSE heap'[work'.arr][j]
    BY <1>1, <1>2, <2>1, CommitNow
  <2> QED BY <1>1, <1>7, <2>2, KeptNext
<1> QED BY <1>7, <1>8, <1>9, Flags

LEMMA AddKeeps == ASSUME Shapes, EditsKept, Add PROVE Shapes' /\ EditsKept'
<1> DEFINE list == Append(ListIn(Commit, work), "new")
<1>1. /\ win = "open" /\ win' = win /\ Op /\ work.len < MaxLen
      /\ UNCHANGED <<mem, lang, disk, at, held, data, saved, outdated, astray>>
      /\ reused' = (reused \/ saved)
      /\ wanted' = Append(wanted, "new") /\ Load(heap', work', work'.len)
  BY DEF Add, Editing, goroutines
<1>2. /\ work \in Configs /\ work.arr \in Arrays /\ work.len \in 0..MaxLen
      /\ heap \in Heaps /\ Commit \in Heaps /\ work.len <= Len(Commit[work.arr])
      /\ work.arr # Nil
  BY <1>1, CommitNow
<1>3. \A b \in Arrays : Commit[b] \in Seq(Profiles) /\ Len(Commit[b]) \in 0..MaxLen
  BY <1>2, ListsAre DEF Heaps
<1>4. /\ list \in Lists /\ Len(list) = work.len + 1
      /\ \A i \in 1 .. work.len : list[i] = Commit[work.arr][i]
      /\ list[work.len + 1] = "new"
  <2>1. /\ ListIn(Commit, work) \in Seq(Profiles) /\ Len(ListIn(Commit, work)) = work.len
        /\ \A i \in 1 .. work.len : ListIn(Commit, work)[i] = Commit[work.arr][i]
    BY <1>2, ListAt, ListsAre
  <2>2. "new" \in Profiles BY DEF Profiles
  <2>3. /\ list \in Seq(Profiles) /\ Len(list) = work.len + 1
        /\ \A i \in 1 .. work.len : list[i] = ListIn(Commit, work)[i]
        /\ list[work.len + 1] = "new"
    BY <2>1, <2>2, AddedLast
  <2>4. Len(list) <= MaxLen BY <1>1, <1>2, <2>3, BoundsAssumption
  <2> HIDE DEF list
  <2> QED BY <2>1, <2>3, <2>4, ListsAre
<1>5. \/ /\ heap' = [Commit EXCEPT ![work.arr] = list \o SubSeq(@, Len(list) + 1, Len(@))]
         /\ work' = [work EXCEPT !.len = @ + 1]
      \/ \E a \in Arrays \ Used :
           /\ heap' = [Commit EXCEPT ![a] = list]
           /\ work' = [work EXCEPT !.len = @ + 1, !.arr = a]
  BY DEF Add
<1> HIDE DEF list
<1>6. /\ heap' \in Heaps /\ Longer
      /\ work' \in Configs /\ work'.arr # Nil /\ work'.len = work.len + 1
      /\ work'.len <= Len(heap'[work'.arr])
      /\ \A i \in 1 .. work'.len : heap'[work'.arr][i] = list[i]
  <2>0. work.len + 1 \in 0..MaxLen BY <1>1, <1>2, BoundsAssumption
  <2>1. CASE /\ heap' = [Commit EXCEPT ![work.arr] = list \o SubSeq(@, Len(list) + 1, Len(@))]
             /\ work' = [work EXCEPT !.len = @ + 1]
    <3> DEFINE s == Commit[work.arr]
               r == list \o SubSeq(s, Len(list) + 1, Len(s))
    <3>1. s \in Seq(Profiles) /\ list \in Seq(Profiles) /\ Len(list) <= Len(s) + 1
      BY <1>2, <1>3, <1>4, ListsAre
    <3>2. heap' = [Commit EXCEPT ![work.arr] = r] BY <1>2, <2>1 DEF Heaps
    <3>3. /\ r \in Seq(Profiles) /\ Len(r) >= Len(s) /\ Len(r) >= Len(list)
          /\ Len(r) <= Len(s) \/ Len(r) <= Len(list)
          /\ \A i \in 1 .. Len(list) : r[i] = list[i]
      BY <3>1, Grown
    <3> HIDE DEF r, s
    <3>4. Len(r) <= MaxLen
      <4>1. Len(s) <= MaxLen /\ Len(list) <= MaxLen BY <1>2, <1>3, <1>4, ListsAre DEF s
      <4> QED BY <3>1, <3>3, <4>1, BoundsAssumption
    <3>5. r \in Lists BY <3>3, <3>4, ListsAre
    <3>6. heap' \in Heaps /\ heap'[work.arr] = r /\ \A b \in Arrays : b # work.arr => heap'[b] = Commit[b]
      BY <1>2, <3>2, <3>5 DEF Heaps
    <3>7. Longer
      <4>1. \A b \in Arrays : Len(Commit[b]) = Len(heap[b]) BY <1>1, CommitNow
      <4>2. Len(heap'[work.arr]) >= Len(heap[work.arr]) BY <1>2, <3>3, <3>6, <4>1 DEF s
      <4> QED BY <1>3, <3>6, <4>1, <4>2 DEF Longer
    <3>8. work' \in Configs /\ work'.arr = work.arr /\ work'.len = work.len + 1
      BY <1>2, <2>0, <2>1 DEF Configs
    <3> QED BY <1>2, <1>4, <3>3, <3>6, <3>7, <3>8
  <2>2. CASE \E a \in Arrays \ Used :
               /\ heap' = [Commit EXCEPT ![a] = list]
               /\ work' = [work EXCEPT !.len = @ + 1, !.arr = a]
    <3>0. PICK a \in Arrays \ Used :
            /\ heap' = [Commit EXCEPT ![a] = list]
            /\ work' = [work EXCEPT !.len = @ + 1, !.arr = a]
      BY <2>2
    <3>1. heap' \in Heaps /\ heap'[a] = list /\ \A b \in Arrays : b # a => heap'[b] = Commit[b]
      BY <1>2, <1>4, <3>0 DEF Heaps
    <3>2. Longer
      <4>1. \A b \in Arrays : Len(Commit[b]) = Len(heap[b]) BY <1>1, CommitNow
      <4> QED BY <1>3, <3>1, <4>1 DEF Longer
    <3>3. work' \in Configs /\ work'.arr = a /\ work'.len = work.len + 1
      BY <1>2, <2>0, <3>0 DEF Configs
    <3>4. a # Nil BY NilAssumption
    <3> QED BY <1>2, <1>4, <3>1, <3>2, <3>3, <3>4
  <2> QED BY <1>5, <2>1, <2>2
<1>7. /\ work'.len \in 1..MaxLen /\ sel' = work'.len
      /\ form' \in Profiles /\ form' = heap'[work'.arr][sel']
  <2>1. work'.len \in 1..MaxLen BY <1>1, <1>2, <1>6, BoundsAssumption
  <2> QED BY <1>1, <1>6, <2>1, Loaded
<1>8. /\ wanted' \in Lists /\ Len(wanted') = work'.len
      /\ \A i \in 1 .. work.len : wanted'[i] = wanted[i]
      /\ wanted'[work'.len] = "new"
  <2>1. wanted \in Seq(Profiles) /\ Len(wanted) = work.len BY Flags, ListsAre
  <2>2. "new" \in Profiles BY DEF Profiles
  <2>3. /\ wanted' \in Seq(Profiles) /\ Len(wanted') = work.len + 1
        /\ \A i \in 1 .. work.len : wanted'[i] = wanted[i]
        /\ wanted'[work.len + 1] = "new"
    BY <1>1, <2>1, <2>2, AddedLast
  <2>4. Len(wanted') <= MaxLen BY <1>6, <1>7, <2>3, BoundsAssumption
  <2> QED BY <1>6, <2>3, <2>4, ListsAre
<1>9. Shapes'
  BY <1>1, <1>6, <1>7, <1>8, Ops, Flags, EditorShapes
<1>10. CASE outdated BY <1>1, <1>9, <1>10 DEF EditsKept
<1>11. CASE ~outdated
  <2>1. \A j \in 1 .. work.len : wanted[j] = IF j = sel THEN form ELSE heap[work.arr][j]
    BY <1>1, <1>11, KeptNow
  <2>2. \A j \in 1 .. work.len : list[j] = wanted[j] BY <1>1, <1>4, <2>1, CommitNow
  <2>3. \A j \in 1 .. work'.len : heap'[work'.arr][j] = wanted'[j]
    BY <1>2, <1>4, <1>6, <1>8, <2>2
  <2>4. \A j \in 1 .. work'.len :
          wanted'[j] = IF j = sel' THEN form' ELSE heap'[work'.arr][j]
    BY <1>7, <2>3
  <2> QED BY <1>1, <1>9, <2>4, KeptNext
<1> QED BY <1>10, <1>11, Flags

LEMMA RemoveTargetKeeps == ASSUME Shapes, EditsKept, RemoveTarget PROVE Shapes' /\ EditsKept'
<1> DEFINE i == IF sel < work.len THEN sel ELSE work.len - 1
           r == Shift(heap[work.arr], sel, work.len)
<1>1. /\ win = "open" /\ win' = win /\ Op
      /\ UNCHANGED <<mem, lang, disk, at, held, data, saved, outdated, astray>>
      /\ reused' = (reused \/ saved)
      /\ heap' = [heap EXCEPT ![work.arr] = r]
      /\ work' = [work EXCEPT !.len = @ - 1]
      /\ wanted' = RemoveAt(wanted, sel) /\ Load(heap', work', i)
  BY DEF RemoveTarget, Editing, goroutines
<1>2. /\ work \in Configs /\ work.arr \in Arrays /\ work.arr # Nil /\ work.len \in 1..MaxLen
      /\ heap \in Heaps /\ work.len <= Len(heap[work.arr]) /\ sel \in 1 .. work.len
  BY <1>1, CommitNow DEF RemoveTarget
<1>3. /\ heap[work.arr] \in Lists /\ heap[work.arr] \in Seq(Profiles)
      /\ work.len \in 1 .. Len(heap[work.arr])
  BY <1>2, ListsAre DEF Heaps
<1>4. /\ r \in Lists /\ Len(r) = Len(heap[work.arr])
      /\ \A j \in 1 .. work.len - 1 :
           r[j] = IF j < sel THEN heap[work.arr][j] ELSE heap[work.arr][j + 1]
  BY <1>2, <1>3, Shifted
<1> HIDE DEF r
<1>5. /\ heap' \in Heaps /\ heap'[work.arr] = r
      /\ \A b \in Arrays : b # work.arr => heap'[b] = heap[b]
  BY <1>1, <1>2, <1>4 DEF Heaps
<1>6. Longer BY <1>4, <1>5, SameLengths
<1>7. /\ work' \in Configs /\ work'.arr = work.arr /\ work'.len = work.len - 1
      /\ work'.len \in 0..MaxLen
  <2>1. work.len - 1 \in 0..MaxLen BY <1>2, BoundsAssumption
  <2> QED BY <1>1, <1>2, <2>1 DEF Configs
<1>8. work'.len <= Len(heap'[work'.arr]) BY <1>2, <1>3, <1>4, <1>5, <1>7
<1>9. i \in 0 .. work'.len BY <1>2, <1>7
<1> HIDE DEF i
<1>10. /\ sel' = i /\ (sel' # 0 => form' \in Profiles /\ form' = heap'[work'.arr][sel'])
       /\ form' \in Profiles \cup {Nil}
  BY <1>1, <1>2, <1>5, <1>7, <1>8, <1>9, Loaded
<1>11. /\ wanted' \in Lists /\ Len(wanted') = work'.len
       /\ \A j \in 1 .. work'.len : wanted'[j] = IF j < sel THEN wanted[j] ELSE wanted[j + 1]
  <2>1. wanted \in Seq(Profiles) /\ Len(wanted) = work.len BY Flags, ListsAre
  <2>2. /\ wanted' \in Seq(Profiles) /\ Len(wanted') = work.len - 1
        /\ \A j \in 1 .. work.len - 1 :
             wanted'[j] = IF j < sel THEN wanted[j] ELSE wanted[j + 1]
    BY <1>1, <1>2, <2>1, Removed
  <2>3. Len(wanted') <= MaxLen BY <1>7, <2>2, BoundsAssumption
  <2> QED BY <1>7, <2>2, <2>3, ListsAre
<1>12. Shapes'
  <2>1. work'.arr # Nil BY <1>2, <1>7
  <2> QED BY <1>1, <1>5, <1>6, <1>7, <1>8, <1>9, <1>10, <1>11, <2>1, Ops, Flags, EditorShapes
<1>13. CASE outdated BY <1>1, <1>12, <1>13 DEF EditsKept
<1>14. CASE ~outdated
  <2>1. \A j \in 1 .. work.len : wanted[j] = IF j = sel THEN form ELSE heap[work.arr][j]
    BY <1>1, <1>14, KeptNow
  <2>2. ASSUME NEW j \in 1 .. work'.len PROVE wanted'[j] = heap'[work'.arr][j]
    <3>1. CASE j < sel
      <4>1. j \in 1 .. work.len /\ j # sel BY <1>2, <1>7, <3>1
      <4>2. wanted'[j] = wanted[j] BY <1>11, <3>1
      <4>3. wanted[j] = heap[work.arr][j] BY <2>1, <4>1
      <4>4. heap'[work'.arr][j] = heap[work.arr][j] BY <1>4, <1>5, <1>7, <3>1
      <4> QED BY <4>2, <4>3, <4>4
    <3>2. CASE ~(j < sel)
      <4>1. j + 1 \in 1 .. work.len /\ j + 1 # sel BY <1>2, <1>7, <3>2
      <4>2. wanted'[j] = wanted[j + 1] BY <1>11, <3>2
      <4>3. wanted[j + 1] = heap[work.arr][j + 1] BY <2>1, <4>1
      <4>4. heap'[work'.arr][j] = heap[work.arr][j + 1] BY <1>4, <1>5, <1>7, <3>2
      <4> QED BY <4>2, <4>3, <4>4
    <3> QED BY <3>1, <3>2
  <2>3. ASSUME NEW j \in 1 .. work'.len
        PROVE  wanted'[j] = IF j = sel' THEN form' ELSE heap'[work'.arr][j]
    <3>1. j = sel' => sel' # 0 BY <1>7
    <3> QED BY <1>10, <2>2, <3>1
  <2> QED BY <1>1, <1>12, <2>3, KeptNext
<1> QED BY <1>13, <1>14, Flags

LEMMA AdoptKeeps == ASSUME Shapes, EditsKept, Adopt PROVE Shapes' /\ EditsKept'
<1>1. /\ win = "saved" /\ win' = "open" /\ mem' = work /\ saved' = TRUE
      /\ UNCHANGED <<heap, lang, disk, work, sel, form, wanted, at, held, data, ops, reused, outdated, astray>>
  BY DEF Adopt, goroutines, flags
<1>2. /\ work \in Configs /\ work.arr # Nil /\ work.len <= Len(heap[work.arr])
  BY <1>1, CommitNow
<1>3. Shapes' BY <1>1, <1>2 DEF Shapes, EditTypeOK
<1>4. EditsKept' BY <1>1 DEF EditsKept, Commit, ListIn
<1> QED BY <1>3, <1>4

LEMMA CloseKeeps == ASSUME Shapes, Close PROVE Shapes' /\ EditsKept'
<1>1. /\ win' = "closed" /\ work' = NoConfig /\ sel' = 0 /\ form' = Nil /\ wanted' = <<>>
      /\ UNCHANGED <<heap, mem, lang, disk, saved, at, held, data, ops, reused, outdated, astray>>
  BY DEF Close, goroutines, flags
<1>2. /\ NoConfig \in Configs /\ NoConfig.arr = Nil /\ NoConfig.len = 0
  BY MemFacts, BoundsAssumption DEF NoConfig, Configs
<1>3. <<>> \in Lists /\ Len(<<>>) = 0
  <2>1. <<>> \in Seq(Profiles) /\ Len(<<>>) <= MaxLen BY BoundsAssumption
  <2> QED BY <2>1, ListsAre
<1>4. Shapes' BY <1>1, <1>2, <1>3 DEF Shapes, EditTypeOK
<1> QED BY <1>1, <1>4 DEF EditsKept
----------------------------------------------------------------------------
\* The steps of the other goroutines: a window that is open either keeps what
\* EditsKept is about, or is outdated.

LEMMA EditsBeside ==
  ASSUME EditsKept, UNCHANGED <<win, work, sel, form, wanted>>,
         outdated' = (outdated \/ win # "closed") \/ UNCHANGED <<heap, outdated>>
  PROVE  EditsKept'
<1>1. CASE win = "closed" BY <1>1 DEF EditsKept
<1>2. CASE win # "closed" /\ UNCHANGED <<heap, outdated>> BY <1>2 DEF EditsKept, Commit, ListIn
<1>3. CASE win # "closed" /\ outdated' = (outdated \/ win # "closed") BY <1>3 DEF EditsKept
<1> QED BY <1>1, <1>2, <1>3

LEMMA SameHeap == ASSUME Shapes, UNCHANGED heap PROVE heap' \in Heaps /\ Longer
  BY Flags, SameLengths

LEMMA HeldFacts ==
  ASSUME Shapes, NEW g \in Goroutines
  PROVE  /\ held[g] \in Configs /\ (held[g].arr # Nil => held[g].len <= Len(heap[held[g].arr]))
         /\ data[g] \in Files /\ held \in [Goroutines -> Configs] /\ data \in [Goroutines -> Files]
         /\ at \in [Goroutines -> {"idle", "lang", "marshal", "write", "apply"}]
  BY DEF Shapes, EditTypeOK

LEMMA BeginFacts ==
  ASSUME Shapes, NEW g \in Goroutines, Begin(g)
  PROVE  /\ UNCHANGED <<win, work, sel, form, wanted, saved, disk, reused>>
         /\ ops' \in 0..MaxOps /\ astray' \in BOOLEAN /\ outdated' \in BOOLEAN
         /\ outdated' = (outdated \/ win # "closed") /\ astray' = (astray \/ Saving)
         /\ at[g] = "idle" /\ disk' \in Files
  BY Ops, Flags DEF Begin, editor

\* A copy that is in use still fits its array.
LEMMA HeldFits ==
  ASSUME Shapes, heap' \in Heaps, Longer, NEW g \in Goroutines, held[g].arr # Nil
  PROVE  held[g].len <= Len(heap'[held[g].arr])
<1>1. held[g] \in Configs /\ held[g].len <= Len(heap[held[g].arr]) /\ held[g].arr \in Used
  BY HeldFacts DEF Used
<1> QED BY <1>1, StillFits

LEMMA SetLangKeeps ==
  ASSUME Shapes, EditsKept, NEW g \in Goroutines, NEW l \in Languages, SetLang(g, l)
  PROVE  Shapes' /\ EditsKept'
<1>1. /\ UNCHANGED <<heap, mem, held>> /\ lang' = l
      /\ data' = [data EXCEPT ![g].lang = l] /\ at' = [at EXCEPT ![g] = "lang"]
  BY DEF SetLang, Proceed
<1>2. data' \in [Goroutines -> Files] BY <1>1, HeldFacts DEF Files
<1>3. at' \in [Goroutines -> {"idle", "lang", "marshal", "write", "apply"}] BY <1>1, HeldFacts
<1>4. Begin(g) BY DEF SetLang
<1>5. Shapes'
  BY <1>1, <1>2, <1>3, <1>4, SameHeap, BeginFacts, MemFacts, HeldFacts, GoroutineShapes
<1>6. EditsKept' BY <1>4, BeginFacts, EditsBeside
<1> QED BY <1>5, <1>6

LEMMA StoreLangKeeps ==
  ASSUME Shapes, EditsKept, NEW g \in Goroutines, StoreLang(g) PROVE Shapes' /\ EditsKept'
<1>1. /\ UNCHANGED <<heap, lang, disk, win, work, sel, form, wanted, saved, data, ops, reused, astray>>
      /\ mem' = [mem EXCEPT !.lang = data[g].lang] /\ held' = [held EXCEPT ![g] = mem']
      /\ at' = [at EXCEPT ![g] = "marshal"] /\ outdated' = (outdated \/ win # "closed")
  BY DEF StoreLang, Proceed, editor
<1>2. /\ mem' \in Configs /\ mem'.arr = mem.arr /\ mem'.len = mem.len
  <2>1. data[g].lang \in Languages BY HeldFacts DEF Files
  <2> QED BY <1>1, <2>1, MemFacts DEF Configs
<1>3. held' \in [Goroutines -> Configs] BY <1>1, <1>2, HeldFacts
<1>4. \A h \in Goroutines : held'[h].arr # Nil => held'[h].len <= Len(heap'[held'[h].arr])
  BY <1>1, <1>2, HeldFacts, MemFacts
<1>5. at' \in [Goroutines -> {"idle", "lang", "marshal", "write", "apply"}] BY <1>1, HeldFacts
<1>6. ops' \in 0..MaxOps /\ lang' \in Languages BY <1>1 DEF Shapes, EditTypeOK
<1>7. Shapes'
  BY <1>1, <1>2, <1>3, <1>4, <1>5, <1>6, SameHeap, Flags, MemFacts, HeldFacts, GoroutineShapes
<1>8. EditsKept' BY <1>1, EditsBeside
<1> QED BY <1>7, <1>8

LEMMA SaveTokenKeeps ==
  ASSUME Shapes, EditsKept, NEW g \in Goroutines, SaveToken(g) PROVE Shapes' /\ EditsKept'
<1>1. /\ UNCHANGED <<mem, lang, data>> /\ held' = [held EXCEPT ![g] = mem]
      /\ at' = [at EXCEPT ![g] = "marshal"] /\ Begin(g)
  BY DEF SaveToken, Proceed
<1>2. PICK i \in 0 .. mem.len :
        heap' = IF i = 0 THEN heap ELSE [heap EXCEPT ![mem.arr][i] = "token"]
  BY DEF SaveToken
<1>3. heap' = CommitIn(heap, mem, i, "token") BY <1>2 DEF CommitIn
<1>4. "token" \in Profiles BY DEF Profiles
<1>5. heap' \in Heaps /\ \A b \in Arrays : Len(heap'[b]) = Len(heap[b])
  BY <1>3, <1>4, MemFacts, Flags, Committed
<1>6. Longer BY <1>5, SameLengths
<1>7. mem.len <= Len(heap'[mem.arr]) BY <1>5, MemFacts
<1>8. held' \in [Goroutines -> Configs] BY <1>1, MemFacts, HeldFacts
<1>9. ASSUME NEW h \in Goroutines, held'[h].arr # Nil
      PROVE  held'[h].len <= Len(heap'[held'[h].arr])
  <2>1. CASE h = g BY <1>1, <1>7, <2>1, HeldFacts
  <2>2. CASE h # g
    <3>1. held'[h] = held[h] BY <1>1, <2>2, HeldFacts
    <3> QED BY <1>5, <1>6, <1>9, <3>1, HeldFits
  <2> QED BY <2>1, <2>2
<1>10. at' \in [Goroutines -> {"idle", "lang", "marshal", "write", "apply"}] BY <1>1, HeldFacts
<1>11. lang' \in Languages BY <1>1 DEF Shapes, EditTypeOK
<1>12. Shapes'
  BY <1>1, <1>5, <1>6, <1>7, <1>8, <1>9, <1>10, <1>11, BeginFacts, MemFacts, HeldFacts,
     GoroutineShapes
<1>13. EditsKept' BY <1>1, BeginFacts, EditsBeside
<1> QED BY <1>12, <1>13

LEMMA MarshalKeeps ==
  ASSUME Shapes, EditsKept, NEW g \in Goroutines, Marshal(g) PROVE Shapes' /\ EditsKept'
<1>1. /\ UNCHANGED <<heap, mem, lang, disk, win, work, sel, form, wanted, saved, ops, reused, outdated, astray>>
      /\ data' = [data EXCEPT ![g] = [lang |-> held[g].lang, list |-> List(held[g])]]
      /\ held' = [held EXCEPT ![g] = NoConfig] /\ at' = [at EXCEPT ![g] = "write"]
  BY DEF Marshal, Proceed, editor, flags
<1>2. /\ NoConfig \in Configs /\ NoConfig.arr = Nil
  BY MemFacts, BoundsAssumption DEF NoConfig, Configs
<1>3. held' \in [Goroutines -> Configs] BY <1>1, <1>2, HeldFacts
<1>4. \A h \in Goroutines : held'[h].arr # Nil => held'[h].len <= Len(heap'[held'[h].arr])
  BY <1>1, <1>2, HeldFacts
<1>5. data' \in [Goroutines -> Files]
  <2>1. List(held[g]) \in Lists BY HeldFacts, Flags, ListType DEF List
  <2>2. held[g].lang \in Languages BY HeldFacts DEF Configs
  <2>3. [lang |-> held[g].lang, list |-> List(held[g])] \in Files BY <2>1, <2>2 DEF Files
  <2> QED BY <1>1, <2>3, HeldFacts
<1>6. at' \in [Goroutines -> {"idle", "lang", "marshal", "write", "apply"}] BY <1>1, HeldFacts
<1>7. ops' \in 0..MaxOps /\ lang' \in Languages BY <1>1 DEF Shapes, EditTypeOK
<1>8. Shapes'
  BY <1>1, <1>3, <1>4, <1>5, <1>6, <1>7, SameHeap, Flags, MemFacts, GoroutineShapes
<1>9. EditsKept' BY <1>1, EditsBeside
<1> QED BY <1>8, <1>9

LEMMA WriteFileKeeps ==
  ASSUME Shapes, EditsKept, NEW g \in Goroutines, WriteFile(g) PROVE Shapes' /\ EditsKept'
<1>1. /\ UNCHANGED <<heap, mem, lang, win, work, sel, form, wanted, saved, held, data, ops, reused, outdated>>
      /\ \/ disk' = data[g] /\ astray' = astray
         \/ astray' = TRUE /\ disk' = disk
      /\ at' = [at EXCEPT ![g] = "idle"]
  BY DEF WriteFile, Proceed, editor
<1>2. disk' \in Files /\ astray' \in BOOLEAN BY <1>1, HeldFacts, Flags
<1>3. at' \in [Goroutines -> {"idle", "lang", "marshal", "write", "apply"}] BY <1>1, HeldFacts
<1>4. ops' \in 0..MaxOps /\ lang' \in Languages BY <1>1 DEF Shapes, EditTypeOK
<1>5. Shapes'
  BY <1>1, <1>2, <1>3, <1>4, SameHeap, Flags, MemFacts, HeldFacts, GoroutineShapes
<1>6. EditsKept' BY <1>1, EditsBeside
<1> QED BY <1>5, <1>6

LEMMA ReloadKeeps ==
  ASSUME Shapes, EditsKept, NEW g \in Goroutines, Reload(g) PROVE Shapes' /\ EditsKept'
<1>1. /\ UNCHANGED <<heap, mem, held>> /\ lang' = disk.lang /\ Begin(g)
      /\ data' = [data EXCEPT ![g] = disk] /\ at' = [at EXCEPT ![g] = "apply"]
  BY DEF Reload, Proceed
<1>2. data' \in [Goroutines -> Files] BY <1>1, Flags, HeldFacts
<1>3. at' \in [Goroutines -> {"idle", "lang", "marshal", "write", "apply"}] BY <1>1, HeldFacts
<1>4. lang' \in Languages BY <1>1, Flags DEF Files
<1>5. Shapes'
  BY <1>1, <1>2, <1>3, <1>4, SameHeap, BeginFacts, MemFacts, HeldFacts, GoroutineShapes
<1>6. EditsKept' BY <1>1, BeginFacts, EditsBeside
<1> QED BY <1>5, <1>6

LEMMA ApplyReloadKeeps ==
  ASSUME Shapes, EditsKept, NEW g \in Goroutines, ApplyReload(g) PROVE Shapes' /\ EditsKept'
<1>1. /\ UNCHANGED <<lang, disk, win, work, sel, form, wanted, saved, held, data, ops, reused, astray>>
      /\ at' = [at EXCEPT ![g] = "idle"] /\ outdated' = (outdated \/ win # "closed")
  BY DEF ApplyReload, Proceed, editor
<1>2. PICK a \in Arrays \ Used :
        /\ heap' = [heap EXCEPT ![a] = data[g].list]
        /\ mem' = [arr |-> a, len |-> Len(data[g].list), lang |-> data[g].lang]
  BY DEF ApplyReload
<1>3. data[g].list \in Lists /\ data[g].lang \in Languages BY HeldFacts DEF Files
<1>4. Len(data[g].list) \in 0..MaxLen BY <1>3, ListsAre
<1>5. heap' \in Heaps /\ heap'[a] = data[g].list /\ Longer BY <1>2, <1>3, Fresh
<1>6. /\ mem' \in Configs /\ mem'.arr = a /\ mem'.arr # Nil
      /\ mem'.len <= Len(heap'[mem'.arr])
  BY <1>2, <1>3, <1>4, <1>5, NilAssumption, BoundsAssumption DEF Configs
<1>7. \A h \in Goroutines : held'[h].arr # Nil => held'[h].len <= Len(heap'[held'[h].arr])
  BY <1>1, <1>5, HeldFits
<1>8. at' \in [Goroutines -> {"idle", "lang", "marshal", "write", "apply"}] BY <1>1, HeldFacts
<1>9. ops' \in 0..MaxOps /\ lang' \in Languages BY <1>1 DEF Shapes, EditTypeOK
<1>10. Shapes'
  BY <1>1, <1>5, <1>6, <1>7, <1>8, <1>9, Flags, HeldFacts, GoroutineShapes
<1>11. EditsKept' BY <1>1, EditsBeside
<1> QED BY <1>10, <1>11
----------------------------------------------------------------------------
\* The file, the configuration and the copies on their way between them.

\* The steps of the window between its saves.
Quiet ==
  \/ Open \/ Add \/ RemoveTarget \/ SaveRefused \/ Close
  \/ \E text \in Texts : Type(text)
  \/ \E i \in 1..MaxLen : Select(i)

\* What such a step leaves alone: the tray's own list too, as long as the window
\* has not been used again after a save.
QuietLeaves ==
  /\ UNCHANGED <<mem, lang, disk, at, held, data, outdated, astray>>
  /\ win # "saved" /\ win' # "saved"
  /\ ~reused' => ~reused /\ heap'[mem.arr] = heap[mem.arr]
  /\ Separate'
  /\ win' # "closed" => work'.lang = IF win = "closed" THEN mem.lang ELSE work.lang

LEMMA OpenLeaves == ASSUME Shapes, Open PROVE QuietLeaves
<1>1. PICK a \in Arrays \ Used :
        heap' = [heap EXCEPT ![a] = List(mem)] /\ work' = [mem EXCEPT !.arr = a]
  BY DEF Open
<1>2. a # mem.arr BY DEF Used
<1>3. heap'[mem.arr] = heap[mem.arr] BY <1>1, <1>2, MemFacts, Flags DEF Heaps
<1>4. work'.arr = a /\ work'.lang = mem.lang BY <1>1, MemFacts DEF Configs
<1> QED BY <1>2, <1>3, <1>4 DEF Open, goroutines, flags, QuietLeaves, Separate

\* What Add, RemoveTarget, Select and SaveRefused have in common.
LEMMA EditingLeaves ==
  ASSUME Shapes, Separate, Editing, work' \in Configs, work'.lang = work.lang,
         work'.arr = work.arr \/ work'.arr \in Arrays \ Used,
         \A b \in Arrays \ {work.arr, work'.arr} : heap'[b] = heap[b]
  PROVE  QuietLeaves
<1>1. /\ win = "open" /\ win' = win /\ reused' = (reused \/ saved)
      /\ UNCHANGED <<mem, lang, disk, at, held, data, saved, outdated, astray>>
  BY DEF Editing, goroutines
<1>2. mem.arr \in Arrays /\ mem.arr \in Used BY MemFacts DEF Used
<1>3. ~saved => mem.arr # work.arr /\ mem.arr # work'.arr
  BY <1>1, <1>2 DEF Separate
<1>4. ~reused' => ~reused /\ ~saved BY <1>1, Flags
<1>5. ~reused' => heap'[mem.arr] = heap[mem.arr] BY <1>2, <1>3, <1>4
<1>6. Separate' BY <1>1, <1>3 DEF Separate
<1> QED BY <1>1, <1>4, <1>5, <1>6 DEF QuietLeaves

LEMMA QuietSteps == ASSUME Shapes, Separate, Quiet PROVE QuietLeaves
<1>1. CASE Open BY <1>1, OpenLeaves
<1>2. CASE Add
  <2>1. Editing /\ win # "closed" /\ work.len < MaxLen BY <1>2 DEF Add, Editing
  <2>2. work \in Configs /\ work.arr \in Arrays /\ work.len \in 0..MaxLen BY <2>1, CommitNow
  <2>3. work.len + 1 \in 0..MaxLen BY <2>1, <2>2, BoundsAssumption
  <2>4. Commit \in Heaps /\ \A b \in Arrays : b # work.arr => Commit[b] = heap[b]
    BY <2>1, CommitNow
  <2> DEFINE list == Append(ListIn(Commit, work), "new")
  <2>5. \/ /\ heap' = [Commit EXCEPT ![work.arr] = list \o SubSeq(@, Len(list) + 1, Len(@))]
           /\ work' = [work EXCEPT !.len = @ + 1]
        \/ \E a \in Arrays \ Used :
             /\ heap' = [Commit EXCEPT ![a] = list]
             /\ work' = [work EXCEPT !.len = @ + 1, !.arr = a]
    BY <1>2 DEF Add
  <2> HIDE DEF list
  <2>6. CASE /\ heap' = [Commit EXCEPT ![work.arr] = list \o SubSeq(@, Len(list) + 1, Len(@))]
             /\ work' = [work EXCEPT !.len = @ + 1]
    <3>1. work' \in Configs /\ work'.lang = work.lang /\ work'.arr = work.arr
      BY <2>2, <2>3, <2>6 DEF Configs
    <3>2. \A b \in Arrays \ {work.arr, work'.arr} : heap'[b] = heap[b]
      BY <2>4, <2>6 DEF Heaps
    <3> QED BY <2>1, <3>1, <3>2, EditingLeaves
  <2>7. CASE \E a \in Arrays \ Used :
               /\ heap' = [Commit EXCEPT ![a] = list]
               /\ work' = [work EXCEPT !.len = @ + 1, !.arr = a]
    <3>0. PICK a \in Arrays \ Used :
            /\ heap' = [Commit EXCEPT ![a] = list]
            /\ work' = [work EXCEPT !.len = @ + 1, !.arr = a]
      BY <2>7
    <3>1. work' \in Configs /\ work'.lang = work.lang /\ work'.arr = a
      BY <2>2, <2>3, <3>0 DEF Configs
    <3>2. \A b \in Arrays \ {work.arr, work'.arr} : heap'[b] = heap[b]
      BY <2>4, <3>0, <3>1 DEF Heaps
    <3> QED BY <2>1, <3>1, <3>2, EditingLeaves
  <2> QED BY <2>5, <2>6, <2>7
<1>3. CASE RemoveTarget
  <2>1. Editing /\ win # "closed" BY <1>3 DEF RemoveTarget, Editing
  <2>2. /\ work \in Configs /\ work.arr \in Arrays /\ work.len \in 1..MaxLen /\ heap \in Heaps
    BY <1>3, <2>1, CommitNow DEF RemoveTarget
  <2>3. work.len - 1 \in 0..MaxLen BY <2>2, BoundsAssumption
  <2>4. work' = [work EXCEPT !.len = @ - 1] BY <1>3 DEF RemoveTarget
  <2>5. work' \in Configs /\ work'.lang = work.lang /\ work'.arr = work.arr
    BY <2>2, <2>3, <2>4 DEF Configs
  <2>6. \A b \in Arrays \ {work.arr, work'.arr} : heap'[b] = heap[b]
    BY <1>3, <2>2 DEF RemoveTarget, Heaps
  <2> QED BY <2>1, <2>5, <2>6, EditingLeaves
<1>4. CASE SaveRefused
  <2>1. Editing /\ win # "closed" /\ heap' = Commit /\ work' = work
    BY <1>4 DEF SaveRefused, Editing
  <2> QED BY <2>1, CommitNow, EditingLeaves
<1>5. CASE Close BY <1>5 DEF Close, goroutines, flags, QuietLeaves, Separate
<1>6. ASSUME NEW text \in Texts, Type(text) PROVE QuietLeaves
  BY <1>6 DEF Type, goroutines, flags, QuietLeaves, Separate
<1>7. ASSUME NEW i \in 1..MaxLen, Select(i) PROVE QuietLeaves
  <2>1. Editing /\ win # "closed" /\ heap' = Commit /\ work' = work
    BY <1>7 DEF Select, Editing
  <2> QED BY <2>1, CommitNow, EditingLeaves
<1> QED BY <1>1, <1>2, <1>3, <1>4, <1>5, <1>6, <1>7 DEF Quiet

InSync == Separate /\ Exclusive /\ InHand /\ Speaks

LEMMA QuietSync == ASSUME Shapes, InSync, Quiet PROVE InSync'
<1>1. QuietLeaves BY QuietSteps DEF InSync
<1>2. /\ UNCHANGED <<mem, lang, disk, at, held, data, outdated, astray>>
      /\ win # "saved" /\ win' # "saved" /\ Separate'
      /\ ~reused' => ~reused /\ heap'[mem.arr] = heap[mem.arr]
      /\ win' # "closed" => work'.lang = IF win = "closed" THEN mem.lang ELSE work.lang
  BY <1>1 DEF QuietLeaves
<1>3. Exclusive' BY <1>2 DEF InSync, Exclusive
<1>4. InHand'
  <2>1. Saving' = Saving BY <1>2 DEF Saving
  <2>2. ~reused' => Snapshot(mem)' = Snapshot(mem) BY <1>2 DEF Snapshot, List, ListIn
  <2> QED BY <1>2, <2>1, <2>2 DEF InSync, InHand
<1>5. Speaks' BY <1>2 DEF InSync, Speaks
<1> QED BY <1>2, <1>3, <1>4, <1>5 DEF InSync

LEMMA SaveSync == ASSUME Shapes, InSync, Save PROVE InSync'
<1>1. /\ win = "open" /\ win' = "saved" /\ heap' = Commit
      /\ disk' = [lang |-> work.lang, list |-> ListIn(heap', work)]
      /\ reused' = (reused \/ saved) /\ astray' = (astray \/ Saving)
      /\ UNCHANGED <<mem, lang, work, saved, at, held, data, outdated>>
  BY DEF Save, goroutines
<1>2. ~reused' => ~reused BY <1>1, Flags
<1>3. ~astray' => ~astray /\ \A g \in Goroutines : at[g] = "idle" BY <1>1, Flags DEF Saving
<1>4. Separate' BY <1>1 DEF InSync, Separate
<1>5. Exclusive' BY <1>1, <1>3 DEF Exclusive
<1>6. InHand'
  <2>1. Saving' BY <1>1 DEF Saving
  <2>2. disk' = Snapshot(work)' BY <1>1 DEF Snapshot, List
  <2>3. ~astray' => \A g \in Goroutines : at'[g] = "idle" BY <1>1, <1>3
  <2> QED BY <1>1, <2>1, <2>2, <2>3 DEF InHand
<1>7. Speaks' BY <1>1, <1>2, <1>3 DEF InSync, Speaks
<1> QED BY <1>4, <1>5, <1>6, <1>7 DEF InSync

LEMMA AdoptSync == ASSUME Shapes, InSync, Adopt PROVE InSync'
<1>1. /\ win = "saved" /\ win' = "open" /\ mem' = work /\ saved' = TRUE
      /\ UNCHANGED <<heap, lang, disk, work, at, held, data, reused, outdated, astray>>
  BY DEF Adopt, goroutines, flags
<1>2. ~astray => \A g \in Goroutines : at[g] = "idle" BY <1>1 DEF InSync, Exclusive
<1>3. Separate' BY <1>1 DEF Separate
<1>4. Exclusive' BY <1>1, <1>2 DEF Exclusive
<1>5. InHand'
  <2>1. ~astray /\ ~reused => disk' = Snapshot(mem)'
    BY <1>1 DEF InSync, InHand, Snapshot, List, ListIn
  <2> QED BY <1>1, <1>2, <2>1 DEF InHand
<1>6. Speaks' BY <1>1, <1>2 DEF InSync, Speaks
<1> QED BY <1>3, <1>4, <1>5, <1>6 DEF InSync

\* A step of another goroutine, as far as Separate goes.
LEMMA StillSeparate ==
  ASSUME Separate, UNCHANGED <<win, work, saved>>, mem'.arr = mem.arr \/ mem'.arr \notin Used
  PROVE  Separate'
  BY DEF Separate, Used

\* Who begins a change, unless it goes astray, is alone.
LEMMA BeginSync ==
  ASSUME Shapes, InSync, NEW g \in Goroutines, Begin(g),
         NEW label \in {"lang", "marshal", "apply"}, at' = [at EXCEPT ![g] = label]
  PROVE  /\ UNCHANGED <<win, work, saved, disk, reused>>
         /\ at'[g] = label /\ Saving'
         /\ ~astray' => ~astray /\ ~Saving /\ \A h \in Goroutines : h # g => at'[h] = "idle"
         /\ ~outdated' => ~outdated /\ win = "closed"
         /\ Exclusive'
<1>1. /\ UNCHANGED <<win, work, saved, disk, reused>>
      /\ outdated' = (outdated \/ win # "closed") /\ astray' = (astray \/ Saving)
      /\ at \in [Goroutines -> {"idle", "lang", "marshal", "write", "apply"}]
  BY BeginFacts, HeldFacts
<1>2. at'[g] = label /\ \A h \in Goroutines : h # g => at'[h] = at[h] BY <1>1
<1>3. ~astray' => ~astray /\ ~Saving BY <1>1, Flags
<1>4. ~astray' => win # "saved" /\ \A h \in Goroutines : h # g => at'[h] = "idle"
  BY <1>2, <1>3 DEF Saving
<1>5. ~outdated' => ~outdated /\ win = "closed" BY <1>1, Flags
<1>6. Saving'
  <2>1. at'[g] # "idle" BY <1>2
  <2> QED BY <2>1 DEF Saving
<1>7. Exclusive' BY <1>1, <1>4 DEF Exclusive
<1> QED BY <1>1, <1>2, <1>3, <1>4, <1>5, <1>6, <1>7

\* Who goes on has been alone, unless something is astray.
LEMMA AloneSync ==
  ASSUME Shapes, InSync, NEW g \in Goroutines, at[g] # "idle", UNCHANGED <<win, work>>,
         NEW label \in {"idle", "marshal", "write"}, at' = [at EXCEPT ![g] = label],
         ~astray' => ~astray
  PROVE  /\ at'[g] = label
         /\ ~astray => win # "saved" /\ Saving /\ \A h \in Goroutines : h # g => at'[h] = "idle"
         /\ ~astray => (Saving' <=> label # "idle")
         /\ Exclusive'
<1>1. at \in [Goroutines -> {"idle", "lang", "marshal", "write", "apply"}] BY HeldFacts
<1>2. at'[g] = label /\ \A h \in Goroutines : h # g => at'[h] = at[h] BY <1>1
<1>3. ~astray => win # "saved" /\ \A h \in Goroutines : h # g => at'[h] = "idle"
  BY <1>2 DEF InSync, Exclusive
<1>4. Saving BY DEF Saving
<1>5. ~astray => (Saving' <=> label # "idle") BY <1>2, <1>3 DEF Saving
<1>6. Exclusive' BY <1>3 DEF Exclusive
<1> QED BY <1>2, <1>3, <1>4, <1>5, <1>6

LEMMA SetLangSync ==
  ASSUME Shapes, InSync, NEW g \in Goroutines, NEW l \in Languages, SetLang(g, l) PROVE InSync'
<1>1. /\ UNCHANGED <<heap, mem, held>> /\ lang' = l /\ Begin(g)
      /\ data' = [data EXCEPT ![g].lang = l] /\ at' = [at EXCEPT ![g] = "lang"]
  BY DEF SetLang, Proceed
<1>2. /\ UNCHANGED <<win, work, saved, disk, reused>>
      /\ at'[g] = "lang" /\ Saving'
      /\ ~astray' => ~astray /\ \A h \in Goroutines : h # g => at'[h] = "idle"
      /\ ~outdated' => ~outdated /\ win = "closed"
      /\ Exclusive'
  BY <1>1, BeginSync
<1>3. Separate' BY <1>1, <1>2, StillSeparate DEF InSync
<1>4. win # "saved" \/ astray'
  BY <1>1, Flags DEF Begin, Saving
<1>5. InHand' BY <1>2, <1>4 DEF InHand
<1>6. data'[g].lang = l BY <1>1, HeldFacts DEF Files
<1>7. Speaks' BY <1>1, <1>2, <1>6 DEF Speaks
<1> QED BY <1>2, <1>3, <1>5, <1>7 DEF InSync

LEMMA SaveTokenSync ==
  ASSUME Shapes, InSync, NEW g \in Goroutines, SaveToken(g) PROVE InSync'
<1>1. /\ UNCHANGED <<mem, lang, data>> /\ held' = [held EXCEPT ![g] = mem]
      /\ at' = [at EXCEPT ![g] = "marshal"] /\ Begin(g)
  BY DEF SaveToken, Proceed
<1>2. /\ UNCHANGED <<win, work, saved, disk, reused>>
      /\ at'[g] = "marshal" /\ Saving'
      /\ ~astray' => ~astray /\ ~Saving /\ \A h \in Goroutines : h # g => at'[h] = "idle"
      /\ ~outdated' => ~outdated /\ win = "closed"
      /\ Exclusive'
  BY <1>1, BeginSync
<1>3. Separate' BY <1>1, <1>2, StillSeparate DEF InSync
<1>4. held'[g] = mem' BY <1>1, HeldFacts
<1>5. ~astray' => win # "saved" BY <1>2 DEF Saving
<1>6. InHand' BY <1>2, <1>4, <1>5 DEF InHand
<1>7. Speaks'
  <2>1. ~astray' => \A h \in Goroutines : at[h] = "idle" BY <1>2 DEF Saving
  <2> QED BY <1>1, <1>2, <2>1 DEF InSync, Speaks
<1> QED BY <1>2, <1>3, <1>6, <1>7 DEF InSync

LEMMA ReloadSync == ASSUME Shapes, InSync, NEW g \in Goroutines, Reload(g) PROVE InSync'
<1>1. /\ UNCHANGED <<heap, mem, held>> /\ lang' = disk.lang /\ Begin(g)
      /\ data' = [data EXCEPT ![g] = disk] /\ at' = [at EXCEPT ![g] = "apply"]
  BY DEF Reload, Proceed
<1>2. /\ UNCHANGED <<win, work, saved, disk, reused>>
      /\ at'[g] = "apply" /\ Saving'
      /\ ~astray' => ~astray /\ ~Saving /\ \A h \in Goroutines : h # g => at'[h] = "idle"
      /\ ~outdated' => ~outdated /\ win = "closed"
      /\ Exclusive'
  BY <1>1, BeginSync
<1>3. Separate' BY <1>1, <1>2, StillSeparate DEF InSync
<1>4. data'[g] = disk BY <1>1, HeldFacts
<1>5. ~astray' => win # "saved" BY <1>2 DEF Saving
<1>6. InHand' BY <1>2, <1>4, <1>5 DEF InHand
<1>7. Speaks' BY <1>1, <1>2, <1>4 DEF Speaks
<1> QED BY <1>2, <1>3, <1>6, <1>7 DEF InSync

LEMMA StoreLangSync == ASSUME Shapes, InSync, NEW g \in Goroutines, StoreLang(g) PROVE InSync'
<1>1. /\ UNCHANGED <<heap, lang, disk, win, work, saved, data, reused, astray>>
      /\ mem' = [mem EXCEPT !.lang = data[g].lang] /\ held' = [held EXCEPT ![g] = mem']
      /\ at[g] = "lang" /\ at' = [at EXCEPT ![g] = "marshal"]
      /\ outdated' = (outdated \/ win # "closed")
  BY DEF StoreLang, Proceed, editor
<1>2. /\ at'[g] = "marshal"
      /\ ~astray => win # "saved" /\ \A h \in Goroutines : h # g => at'[h] = "idle"
      /\ ~astray => Saving'
      /\ Exclusive'
  BY <1>1, AloneSync
<1>3. mem'.arr = mem.arr /\ mem'.lang = data[g].lang BY <1>1, MemFacts DEF Configs
<1>4. Separate' BY <1>1, <1>3, StillSeparate DEF InSync
<1>5. held'[g] = mem' BY <1>1, HeldFacts
<1>6. InHand' BY <1>1, <1>2, <1>5 DEF InHand
<1>7. Speaks'
  <2>1. ~outdated' => ~outdated /\ win = "closed" BY <1>1, Flags
  <2> QED BY <1>1, <1>2, <1>3, <2>1 DEF InSync, Speaks
<1> QED BY <1>2, <1>4, <1>6, <1>7 DEF InSync

LEMMA MarshalSync == ASSUME Shapes, InSync, NEW g \in Goroutines, Marshal(g) PROVE InSync'
<1>1. /\ UNCHANGED <<heap, mem, lang, disk, win, work, saved, reused, outdated, astray>>
      /\ data' = [data EXCEPT ![g] = [lang |-> held[g].lang, list |-> List(held[g])]]
      /\ at[g] = "marshal" /\ at' = [at EXCEPT ![g] = "write"]
  BY DEF Marshal, Proceed, editor, flags
<1>2. /\ at'[g] = "write"
      /\ ~astray => win # "saved" /\ \A h \in Goroutines : h # g => at'[h] = "idle"
      /\ ~astray => Saving'
      /\ Exclusive'
  BY <1>1, AloneSync
<1>3. Separate' BY <1>1, StillSeparate DEF InSync
<1>4. data'[g] = Snapshot(held[g]) BY <1>1, HeldFacts DEF Snapshot
<1>5. ~astray /\ ~reused => data'[g] = Snapshot(mem)'
  BY <1>1, <1>4 DEF InSync, InHand, Snapshot, List, ListIn
<1>6. InHand' BY <1>1, <1>2, <1>5 DEF InHand
<1>7. Speaks'
  <2>1. ~astray => \A h \in Goroutines : at[h] \notin {"lang", "apply"}
    BY <1>1 DEF InSync, Exclusive
  <2> QED BY <1>1, <1>2, <2>1 DEF InSync, Speaks
<1> QED BY <1>2, <1>3, <1>6, <1>7 DEF InSync

LEMMA WriteFileSync == ASSUME Shapes, InSync, NEW g \in Goroutines, WriteFile(g) PROVE InSync'
<1>1. /\ UNCHANGED <<heap, mem, lang, win, work, saved, held, data, reused, outdated>>
      /\ \/ disk' = data[g] /\ astray' = astray
         \/ astray' = TRUE /\ disk' = disk
      /\ at[g] = "write" /\ at' = [at EXCEPT ![g] = "idle"]
  BY DEF WriteFile, Proceed, editor
<1>2. ~astray' => ~astray /\ disk' = data[g] BY <1>1
<1>3. /\ at'[g] = "idle"
      /\ ~astray => win # "saved" /\ \A h \in Goroutines : h # g => at'[h] = "idle"
      /\ Exclusive'
  BY <1>1, <1>2, AloneSync
<1>4. Separate' BY <1>1, StillSeparate DEF InSync
<1>5. ~astray' /\ ~reused => disk' = Snapshot(mem)'
  BY <1>1, <1>2 DEF InSync, InHand, Snapshot, List, ListIn
<1>6. InHand' BY <1>1, <1>2, <1>3, <1>5 DEF InHand
<1>7. Speaks'
  <2>1. ~astray => \A h \in Goroutines : at[h] \notin {"lang", "apply"}
    BY <1>1 DEF InSync, Exclusive
  <2> QED BY <1>1, <1>2, <1>3, <2>1 DEF InSync, Speaks
<1> QED BY <1>3, <1>4, <1>6, <1>7 DEF InSync

LEMMA ApplyReloadSync ==
  ASSUME Shapes, InSync, NEW g \in Goroutines, ApplyReload(g) PROVE InSync'
<1>1. /\ UNCHANGED <<lang, disk, win, work, saved, held, data, reused, astray>>
      /\ at[g] = "apply" /\ at' = [at EXCEPT ![g] = "idle"]
      /\ outdated' = (outdated \/ win # "closed")
  BY DEF ApplyReload, Proceed, editor
<1>2. PICK a \in Arrays \ Used :
        /\ heap' = [heap EXCEPT ![a] = data[g].list]
        /\ mem' = [arr |-> a, len |-> Len(data[g].list), lang |-> data[g].lang]
  BY DEF ApplyReload
<1>3. data[g].list \in Lists /\ data[g].lang \in Languages /\ data[g] \in Files
  BY HeldFacts DEF Files
<1>4. Len(data[g].list) \in 0..MaxLen BY <1>3, ListsAre
<1>5. heap' \in Heaps /\ heap'[a] = data[g].list BY <1>2, <1>3, Fresh
<1>6. mem' \in Configs /\ mem'.arr = a /\ a # Nil /\ mem'.lang = data[g].lang
      /\ mem'.len = Len(heap'[mem'.arr])
  BY <1>2, <1>3, <1>4, <1>5, NilAssumption DEF Configs
<1>7. ListIn(heap', mem') = data[g].list BY <1>5, <1>6, WholeList
<1>8. Snapshot(mem)' = data[g]
  <2>1. Snapshot(mem)' = [lang |-> data[g].lang, list |-> data[g].list]
    BY <1>6, <1>7 DEF Snapshot, List
  <2> QED BY <1>3, <2>1 DEF Files
<1>9. /\ at'[g] = "idle"
      /\ ~astray => win # "saved" /\ \A h \in Goroutines : h # g => at'[h] = "idle"
      /\ Exclusive'
  BY <1>1, AloneSync
<1>10. Separate' BY <1>1, <1>2, <1>6, StillSeparate DEF InSync
<1>11. ~astray /\ ~reused => disk' = Snapshot(mem)' BY <1>1, <1>8 DEF InSync, InHand
<1>12. InHand' BY <1>1, <1>9, <1>11 DEF InHand
<1>13. Speaks'
  <2>1. ~outdated' => ~outdated /\ win = "closed" BY <1>1, Flags
  <2> QED BY <1>1, <1>6, <1>9, <2>1 DEF InSync, Speaks
<1> QED BY <1>9, <1>10, <1>12, <1>13 DEF InSync

----------------------------------------------------------------------------
\* The theorems.

EditInv == Shapes /\ EditsKept /\ InSync

LEMMA EditInitInv == EditInit => EditInv
<1> SUFFICES ASSUME EditInit PROVE EditInv OBVIOUS
<1>1. PICK a \in Arrays, l \in Languages, list \in BoundedSeq(Texts, MaxLen) :
        /\ heap = [b \in Arrays |-> IF b = a THEN list ELSE <<>>]
        /\ mem = [arr |-> a, len |-> Len(list), lang |-> l]
        /\ lang = l
        /\ disk = [lang |-> l, list |-> list]
        /\ win = "closed"
        /\ work = [arr |-> Nil, len |-> 0, lang |-> l]
        /\ sel = 0
        /\ form = Nil
        /\ at = [g \in Goroutines |-> "idle"]
        /\ held = [g \in Goroutines |-> [arr |-> Nil, len |-> 0, lang |-> l]]
        /\ data = [g \in Goroutines |-> [lang |-> l, list |-> <<>>]]
        /\ ops = 0
        /\ wanted = <<>>
        /\ saved = FALSE /\ reused = FALSE /\ outdated = FALSE /\ astray = FALSE
  BY DEF EditInit
<1>2. list \in Lists /\ Len(list) \in 0..MaxLen
  <2>1. list \in Seq(Texts) /\ Len(list) <= MaxLen
    BY BoundsAssumption DEF BoundedSeq, SeqOf
  <2>2. list \in Seq(Profiles) BY <2>1 DEF Profiles
  <2> QED BY <2>1, <2>2, ListsAre
<1>3. <<>> \in Lists /\ Len(<<>>) = 0
  <2>1. <<>> \in Seq(Profiles) /\ Len(<<>>) <= MaxLen BY BoundsAssumption
  <2> QED BY <2>1, ListsAre
<1>4. heap \in Heaps /\ heap[a] = list BY <1>1, <1>2, <1>3 DEF Heaps
<1>5. /\ mem \in Configs /\ mem.arr = a /\ mem.arr # Nil /\ mem.len = Len(heap[mem.arr])
      /\ mem.len <= Len(heap[mem.arr]) /\ mem.lang = l
  BY <1>1, <1>2, <1>4, NilAssumption DEF Configs
<1>6. /\ work \in Configs /\ work.arr = Nil /\ work.len = 0
      /\ held \in [Goroutines -> Configs] /\ \A g \in Goroutines : held[g].arr = Nil
  <2>1. [arr |-> Nil, len |-> 0, lang |-> l] \in Configs BY BoundsAssumption DEF Configs
  <2> QED BY <1>1, <2>1
<1>7. disk \in Files /\ data \in [Goroutines -> Files] BY <1>1, <1>2, <1>3 DEF Files
<1>8. ops \in 0..MaxOps BY <1>1, BoundsAssumption
<1>9. Shapes
  <2>1. /\ lang \in Languages /\ win \in {"closed", "open", "saved"}
        /\ sel \in 0 .. work.len /\ form \in Profiles \cup {Nil}
    BY <1>1, <1>6
  <2>2. {saved, reused, outdated, astray} \subseteq BOOLEAN BY <1>1
  <2>3. wanted \in Lists /\ Len(wanted) = work.len BY <1>1, <1>3, <1>6
  <2>4. at \in [Goroutines -> {"idle", "lang", "marshal", "write", "apply"}] BY <1>1
  <2>5. \A cfg \in {mem, work} : cfg.arr # Nil => cfg.len <= Len(heap[cfg.arr])
    BY <1>5, <1>6
  <2>6. EditTypeOK
    BY <1>4, <1>5, <1>6, <1>7, <1>8, <2>1, <2>2, <2>3, <2>4, <2>5 DEF EditTypeOK, Heaps
  <2> QED BY <1>1, <1>6, <2>3, <2>6 DEF Shapes
<1>10. disk = Snapshot(mem)
  <2>1. List(mem) = list BY <1>4, <1>5, WholeList DEF List
  <2> QED BY <1>1, <1>5, <2>1 DEF Snapshot
<1>11. InSync BY <1>1, <1>5, <1>10 DEF InSync, Separate, Exclusive, InHand, Speaks
<1> QED BY <1>1, <1>9, <1>11 DEF EditInv, EditsKept

LEMMA EditStepInv == EditInv /\ [EditNext]_editVars => EditInv'
<1> SUFFICES ASSUME Shapes, EditsKept, InSync, [EditNext]_editVars PROVE EditInv'
  BY DEF EditInv
<1>1. CASE UNCHANGED editVars
  BY <1>1 DEF editVars, editor, goroutines, flags, EditInv, Shapes, EditTypeOK, EditsKept,
              Commit, ListIn, InSync, Separate, Exclusive, InHand, Speaks, Saving, Snapshot, List
<1>2. CASE Open BY <1>2, OpenKeeps, QuietSync DEF EditInv, Quiet
<1>3. CASE Add BY <1>3, AddKeeps, QuietSync DEF EditInv, Quiet
<1>4. CASE RemoveTarget BY <1>4, RemoveTargetKeeps, QuietSync DEF EditInv, Quiet
<1>5. CASE SaveRefused BY <1>5, SaveRefusedKeeps, QuietSync DEF EditInv, Quiet
<1>6. CASE Save BY <1>6, SaveKeeps, SaveSync DEF EditInv
<1>7. CASE Adopt BY <1>7, AdoptKeeps, AdoptSync DEF EditInv
<1>8. CASE Close BY <1>8, CloseKeeps, QuietSync DEF EditInv, Quiet
<1>9. ASSUME NEW text \in Texts, Type(text) PROVE EditInv'
  BY <1>9, TypeKeeps, QuietSync DEF EditInv, Quiet
<1>10. ASSUME NEW i \in 1..MaxLen, Select(i) PROVE EditInv'
  BY <1>10, SelectKeeps, QuietSync DEF EditInv, Quiet
<1>11. ASSUME NEW g \in Goroutines, Other(g) PROVE EditInv'
  <2>1. ASSUME NEW l \in Languages, SetLang(g, l) PROVE EditInv'
    BY <2>1, SetLangKeeps, SetLangSync DEF EditInv
  <2>2. CASE StoreLang(g) BY <2>2, StoreLangKeeps, StoreLangSync DEF EditInv
  <2>3. CASE SaveToken(g) BY <2>3, SaveTokenKeeps, SaveTokenSync DEF EditInv
  <2>4. CASE Marshal(g) BY <2>4, MarshalKeeps, MarshalSync DEF EditInv
  <2>5. CASE WriteFile(g) BY <2>5, WriteFileKeeps, WriteFileSync DEF EditInv
  <2>6. CASE Reload(g) BY <2>6, ReloadKeeps, ReloadSync DEF EditInv
  <2>7. CASE ApplyReload(g) BY <2>7, ApplyReloadKeeps, ApplyReloadSync DEF EditInv
  <2> QED BY <1>11, <2>1, <2>2, <2>3, <2>4, <2>5, <2>6, <2>7 DEF Other
<1> QED
  BY <1>1, <1>2, <1>3, <1>4, <1>5, <1>6, <1>7, <1>8, <1>9, <1>10, <1>11
  DEF EditNext, Editor

\* What holds of the configuration, its copies and the file in every state.
THEOREM EditInvariance == EditSpec => []EditInv
  BY EditInitInv, EditStepInv, PTL DEF EditSpec

\* Every list fits the array that it is in, and the window has selected a
\* profile of its list, however many profiles there are and goroutines that
\* change them.
THEOREM EditTypes == EditSpec => []EditTypeOK
<1>1. EditInv => EditTypeOK BY DEF EditInv, Shapes
<1> QED BY <1>1, EditInvariance, PTL

\* What the user of the window has entered is in the list that it would save,
\* whatever was selected, added and removed, unless the configuration changed
\* behind the window.
THEOREM NoEditLost == EditSpec => []EditsKept
<1>1. EditInv => EditsKept BY DEF EditInv
<1> QED BY <1>1, EditInvariance, PTL

\* A restart finds in the file what the tray has and shows, when nothing is
\* being saved and no save went astray.
THEOREM Restarts == EditSpec => []RestartRestores
<1>1. EditInv => RestartRestores
  <2> SUFFICES ASSUME EditInv, ~Saving, ~astray, ~reused
               PROVE  /\ disk = [lang |-> mem.lang, list |-> List(mem)]
                      /\ ~outdated => mem.lang = lang
    BY DEF RestartRestores
  <2>1. disk = [lang |-> mem.lang, list |-> List(mem)]
    BY DEF EditInv, InSync, InHand, Snapshot
  <2>2. ~outdated => mem.lang = lang BY DEF EditInv, InSync, Speaks, Saving
  <2> QED BY <2>1, <2>2
<1> QED BY <1>1, EditInvariance, PTL

\* A step of the window that is no save, in a window that has not been used
\* after one, leaves the file and the tray's list as they are.
THEOREM SaveComesFirst == EditSpec => NothingBeforeSave
<1> DEFINE Silent == UNCHANGED at /\ "saved" \notin {win, win'} /\ ~reused'
                       => UNCHANGED disk /\ List(mem)' = List(mem)
<1>1. EditInv /\ [EditNext]_editVars => [Silent]_editVars
  <2> SUFFICES ASSUME EditInv, EditNext, UNCHANGED at, "saved" \notin {win, win'}, ~reused'
               PROVE  UNCHANGED disk /\ List(mem)' = List(mem)
    OBVIOUS
  <2>1. Shapes /\ Separate BY DEF EditInv, InSync
  <2>2. CASE Quiet
    <3>1. QuietLeaves BY <2>1, <2>2, QuietSteps
    <3> QED BY <3>1 DEF QuietLeaves, List, ListIn
  <2>3. CASE Save BY <2>3 DEF Save
  <2>4. CASE Adopt BY <2>4 DEF Adopt
  <2>5. ASSUME NEW g \in Goroutines, Other(g) PROVE FALSE
    <3>1. at \in [Goroutines -> {"idle", "lang", "marshal", "write", "apply"}]
      BY <2>1, HeldFacts
    <3>2. at'[g] = at[g] OBVIOUS
    <3> QED
      BY <2>5, <3>1, <3>2
      DEF Other, SetLang, StoreLang, SaveToken, Marshal, WriteFile, Reload, ApplyReload, Begin, Proceed
  <2> QED BY <2>2, <2>3, <2>4, <2>5 DEF EditNext, Editor, Quiet
<1> QED BY <1>1, EditInvariance, PTL DEF EditSpec, NothingBeforeSave

=============================================================================
