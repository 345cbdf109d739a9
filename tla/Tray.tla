-------------------------------- MODULE Tray --------------------------------
(***************************************************************************)
(* The tray's supervision of a program (cmd/tray/menu.go, process.go).     *)
(*                                                                         *)
(* The tray tracks the one target that it has started, and likewise the    *)
(* one controller, by the same code: this module is one of the two.  Menu  *)
(* items and the editor call startTarget and stopTarget from goroutines of *)
(* their own, and each process has two more, for its lines and its exit.   *)
(* All of them share the fields of "app" under a mutex that they release   *)
(* between their steps.                                                    *)
(*                                                                         *)
(* A process is named after the call that started it.                      *)
(***************************************************************************)
EXTENDS Integers, Sequences

CONSTANTS
  Calls,   \* calls of startTarget and stopTarget, in order
  Names,   \* names of profiles
  None,    \* no process or name
  MaxLines \* bound: lines that a process has printed and onLine not handled

ASSUME CallsAssumption == Calls \subseteq Int
ASSUME NoneAssumption == None \notin Calls \cup Names
ASSUME MaxLinesAssumption == MaxLines \in Nat

VARIABLES
  tracked, \* app.runningTarget
  name,    \* app.runningTargetName
  conn,    \* app.runningTargetConn
  tray,    \* "up", "leaving" in onExit of the application, or "gone"
  doomed,  \* the process that it has found to stop when leaving
  pc,      \* where each call is
  profile, \* the name of the profile that it starts
  prev,    \* the process that it has taken and must stop
  proc,    \* the process that it has started
  link,    \* whether that has a controller: what it would print
  said,    \* lines that it has printed and onLine has not yet handled
  overlap, \* history: two calls have been starting a process at once
  late,    \* history: an exit has untracked another process
  midway,  \* history: the tray has left in the middle of a call
  early,   \* history: a process was gone when it was tracked
  heard,   \* history: processes whose lines have been handled
  mixed    \* history: conn may be of another process than the tracked one

app == <<tracked, name, conn>>
calls == <<pc, profile, prev>>
process == <<proc, link, said>>
life == <<tray, doomed>>
history == <<overlap, late, midway, early, heard, mixed>>
vars == <<app, life, calls, process, history>>

Lines == {"udp enabled", "authenticated", "disconnected"}

TypeOK ==
  /\ tracked \in Calls \cup {None}
  /\ name \in Names \cup {None}
  /\ (tracked = None) = (name = None)
  /\ conn \in {"none", "waiting", "tcp", "udp"}
  /\ tray \in {"up", "leaving", "gone"}
  /\ doomed \in Calls \cup {None}
  /\ pc \in [Calls -> {"idle", "start", "kill", "spawn", "track", "stop", "killonly", "done"}]
  /\ profile \in [Calls -> Names \cup {None}]
  /\ prev \in [Calls -> Calls \cup {None}]
  /\ proc \in [Calls -> {"none", "running", "dead", "gone"}]
  /\ link \in [Calls -> {"waiting", "tcp", "udp"}]
  /\ said \in [Calls -> Seq(Lines)]
  /\ overlap \in BOOLEAN /\ late \in BOOLEAN /\ midway \in BOOLEAN
  /\ early \in BOOLEAN /\ mixed \in BOOLEAN
  /\ heard \subseteq Calls

Init ==
  /\ tracked = None
  /\ name = None
  /\ conn = "none"
  /\ tray = "up"
  /\ doomed = None
  /\ pc = [t \in Calls |-> "idle"]
  /\ profile = [t \in Calls |-> None]
  /\ prev = [t \in Calls |-> None]
  /\ proc = [t \in Calls |-> "none"]
  /\ link = [t \in Calls |-> "waiting"]
  /\ said = [t \in Calls |-> <<>>]
  /\ overlap = FALSE
  /\ late = FALSE
  /\ midway = FALSE
  /\ early = FALSE
  /\ heard = {}
  /\ mixed = FALSE

----------------------------------------------------------------------------
\* The calls.

\* Goroutines run until the program ends, also while onExit stops processes.
Up == tray # "gone"

GoTo(t, label) == pc' = [pc EXCEPT ![t] = label]

NextCall(t) ==
  /\ Up
  /\ pc[t] = "idle"
  /\ \A u \in Calls : u < t => pc[u] # "idle"

\* A click on a profile stops it if it is the one that runs, or starts it.
Toggle(t, n) ==
  /\ NextCall(t)
  /\ GoTo(t, IF name = n THEN "stop" ELSE "start")
  /\ profile' = [profile EXCEPT ![t] = IF name = n THEN None ELSE n]
  /\ UNCHANGED <<app, life, prev, process, history>>

\* doSaveAndRestart starts again what is running.
RestartRunning(t) ==
  /\ NextCall(t)
  /\ name # None
  /\ GoTo(t, "start")
  /\ profile' = [profile EXCEPT ![t] = name]
  /\ UNCHANGED <<app, life, prev, process, history>>

\* A click on "Stop target".
ClickStop(t) ==
  /\ NextCall(t)
  /\ GoTo(t, "stop")
  /\ UNCHANGED <<app, life, profile, prev, process, history>>

Starting(t) == pc[t] \in {"kill", "spawn", "track"}

\* In the middle of startTarget or stopTarget, between two uses of the mutex.
Busy(t) == Starting(t) \/ pc[t] = "killonly"

\* Mutant of Take: the previous process is not remembered.
TakeForgetting(t) ==
  /\ prev' = [prev EXCEPT ![t] = None]
  /\ tracked' = None
  /\ name' = None
  /\ midway' = (midway \/ tray = "leaving")

\* What startTarget and stopTarget do first.
Take(t) ==
  /\ prev' = [prev EXCEPT ![t] = tracked]
  /\ tracked' = None
  /\ name' = None
  /\ midway' = (midway \/ tray = "leaving")

Start(t) ==
  /\ Up
  /\ pc[t] = "start"
  /\ Take(t)
  /\ GoTo(t, "kill")
  /\ overlap' = (overlap \/ \E u \in Calls : Starting(u))
  /\ UNCHANGED <<conn, life, profile, process, late, early, heard, mixed>>

Stop(t) ==
  /\ Up
  /\ pc[t] = "stop"
  /\ Take(t)
  /\ conn' = "none"
  /\ GoTo(t, "killonly")
  /\ UNCHANGED <<life, profile, process, overlap, late, early, heard, mixed>>

\* runningProc.Stop, of a process that may have ended already.
Killed(victim) ==
  [t \in Calls |-> IF t = victim /\ proc[t] = "running" THEN "dead" ELSE proc[t]]

Kill(t) ==
  /\ Up
  /\ pc[t] \in {"kill", "killonly"}
  /\ proc' = Killed(prev[t])
  /\ prev' = [prev EXCEPT ![t] = None]
  /\ GoTo(t, IF pc[t] = "kill" THEN "spawn" ELSE "done")
  /\ UNCHANGED <<app, life, profile, link, said, history>>

\* startProcess succeeds ...
Spawn(t) ==
  /\ Up
  /\ pc[t] = "spawn"
  /\ proc' = [proc EXCEPT ![t] = "running"]
  /\ GoTo(t, "track")
  /\ UNCHANGED <<app, life, profile, prev, link, said, history>>

\* ... or fails.
SpawnFails(t) ==
  /\ Up
  /\ pc[t] = "spawn"
  /\ GoTo(t, "done")
  /\ UNCHANGED <<app, life, profile, prev, process, history>>

Track(t) ==
  /\ Up
  /\ pc[t] = "track"
  /\ tracked' = t
  /\ name' = profile[t]
  /\ conn' = "waiting"
  /\ GoTo(t, "done")
  /\ early' = (early \/ proc[t] = "gone")
  /\ mixed' = (t \in heard)
  /\ UNCHANGED <<life, profile, prev, process, overlap, late, midway, heard>>

\* Quitting: the application's onExit finds out what is tracked, ...
Quit ==
  /\ tray = "up"
  /\ tray' = "leaving"
  /\ doomed' = tracked
  /\ midway' = (\E t \in Calls : Busy(t))
  /\ UNCHANGED <<app, calls, process, overlap, late, early, heard, mixed>>

\* ... and stops it with the mutex released; then the program ends, and all
\* goroutines with it, wherever they are.
StopTracked ==
  /\ tray = "leaving"
  /\ tray' = "gone"
  /\ proc' = Killed(doomed)
  /\ UNCHANGED <<app, doomed, calls, link, said, history>>

----------------------------------------------------------------------------
\* The processes, and their goroutines in the tray.

Prints(t, lines) ==
  /\ Len(said[t]) + Len(lines) <= MaxLines
  /\ said' = [said EXCEPT ![t] = @ \o lines]

\* handleConn of the target logs that a controller is there, with the UDP
\* channel before or without it, ...
Connected(t) ==
  /\ proc[t] = "running"
  /\ link[t] = "waiting"
  /\ \/ /\ link' = [link EXCEPT ![t] = "tcp"]
        /\ Prints(t, <<"authenticated">>)
     \/ /\ link' = [link EXCEPT ![t] = "udp"]
        /\ Prints(t, <<"udp enabled", "authenticated">>)
  /\ UNCHANGED <<app, life, calls, proc, history>>

\* ... and that it is gone.
Disconnected(t) ==
  /\ proc[t] = "running"
  /\ link[t] # "waiting"
  /\ link' = [link EXCEPT ![t] = "waiting"]
  /\ Prints(t, <<"disconnected">>)
  /\ UNCHANGED <<app, life, calls, proc, history>>

\* The process ends by itself: the port is taken, or it fails.
Dies(t) ==
  /\ proc[t] = "running"
  /\ proc' = [proc EXCEPT ![t] = "dead"]
  /\ UNCHANGED <<app, life, calls, link, said, history>>

\* Mutant of upgradeAtLeastTCP: it downgrades.
upgradeAtLeastTCPAlways(s) == "tcp"

upgradeAtLeastTCP(s) == IF s \in {"waiting", "none"} THEN "tcp" ELSE s

\* onLine, for whatever process it was made.
OnLine(t) ==
  /\ Up
  /\ said[t] # <<>>
  /\ said' = [said EXCEPT ![t] = Tail(@)]
  /\ conn' = CASE Head(said[t]) = "udp enabled" -> "udp"
               [] Head(said[t]) = "authenticated" -> upgradeAtLeastTCP(conn)
               [] Head(said[t]) = "disconnected" -> "waiting"
  /\ heard' = heard \cup {t}
  /\ mixed' = (mixed \/ tracked # t)
  /\ UNCHANGED <<tracked, name, life, calls, proc, link, overlap, late, midway, early>>

\* Mutant of OnExit: the tray is told, but does not untrack the process.
OnExitUnseen(t) ==
  /\ Up
  /\ proc[t] = "dead"
  /\ proc' = [proc EXCEPT ![t] = "gone"]
  /\ UNCHANGED <<app, life, calls, link, said, history>>

\* onExit untracks by the name of the profile.
OnExit(t) ==
  /\ Up
  /\ proc[t] = "dead"
  /\ proc' = [proc EXCEPT ![t] = "gone"]
  /\ \/ /\ name = profile[t]
        /\ tracked' = None
        /\ name' = None
        /\ conn' = "none"
        /\ late' = (late \/ tracked # t)
     \/ name # profile[t] /\ UNCHANGED <<app, late>>
  /\ UNCHANGED <<life, calls, link, said, overlap, midway, early, heard, mixed>>

----------------------------------------------------------------------------

Call(t) == Start(t) \/ Stop(t) \/ Kill(t) \/ Spawn(t) \/ SpawnFails(t) \/ Track(t)

Next ==
  \/ \E t \in Calls :
       \/ \E n \in Names : Toggle(t, n)
       \/ RestartRunning(t) \/ ClickStop(t)
       \/ Call(t)
       \/ Connected(t) \/ Disconnected(t) \/ Dies(t)
       \/ OnLine(t) \/ OnExit(t)
  \/ Quit \/ StopTracked

Spec == Init /\ [][Next]_vars

\* The goroutine that waits for a process runs; nothing is asked of the others.
FairSpec == Spec /\ \A t \in Calls : WF_vars(OnExit(t))

----------------------------------------------------------------------------
Running(t) == proc[t] = "running"

\* A call has taken a process and is about to stop it.
Stopping(t) == \E u \in Calls : prev[u] = t

\* Somebody knows of the process: it is tracked, or a call is about to track it
\* or to stop it.
Claimed(t) == tracked = t \/ pc[t] = "track" \/ Stopping(t)

\* What runs is known to a tray that is there to stop it.
Supervised == \A t \in Calls : Running(t) => Up /\ Claimed(t)

AtMostOne ==
  \A t, u \in Calls :
    Running(t) /\ Running(u) /\ ~Stopping(t) /\ ~Stopping(u) => t = u

\* The tray is gone, and has left in the middle of a call.
Abandoned == ~Up /\ midway

\* "At most one of each at a time" (menu.go:29-30), none that nobody stops, and
\* none that outlives the tray.  The code keeps this unless two calls have been
\* starting processes at once, or the exit of a stopped process came when one of
\* the same profile had taken its place: either way a process can go on running
\* unseen.  And a call that the end of the program cuts off leaves behind what it
\* has taken and not stopped, or started and not tracked.
OneAtATime == ~overlap /\ ~late /\ ~Abandoned => Supervised /\ AtMostOne

\* What the menu shows as running has not gone, unless it was gone before the
\* call that started it could track it (menu.go:391-401).
ShowsRunning == ~early => \A t \in Calls : tracked = t => proc[t] # "gone"

\* The menu shows the state of the tracked process's connection once its lines
\* are handled, and never a downgrade (menu.go:74-79), unless lines of another
\* process or from before it was tracked came in between.
ConnShown ==
  ~mixed => \A t \in Calls :
    tracked = t /\ said[t] = <<>> => conn = link[t]

\* The menu notices the end of a process.
DeathNoticed ==
  \A t \in Calls : tracked = t /\ proc[t] = "dead" ~> tracked # t \/ ~Up

=============================================================================
