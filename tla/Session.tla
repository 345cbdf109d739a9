------------------------------ MODULE Session ------------------------------
(***************************************************************************)
(* Connecting to a target: the two listeners, each with one slot, and the  *)
(* controllers that dial them.                                             *)
(*                                                                         *)
(* A controller (main in cmd/controller/main.go) verifies the target's     *)
(* certificate, authenticates, dials the clipboard connection, and reads   *)
(* the screen size and, in performance mode, the UDP key before it runs.   *)
(* The target (main and handleConn in cmd/target/main.go, serveClipboard   *)
(* and handleClipConn in clipboard_windows.go) gives each slot to the      *)
(* first connection that it accepts, before it has authenticated, and      *)
(* closes the others.                                                      *)
(*                                                                         *)
(* Each attempt to connect is a process of its own on a controller.  It    *)
(* can be stopped or its machine can vanish, its connection can break, and *)
(* the target can be restarted, all at any time.  Whether the token is the *)
(* right one is left open: the target may have generated another.          *)
(***************************************************************************)
EXTENDS Integers, Sequences

CONSTANTS
  Conns, \* attempts to connect, in order
  Modes, \* the flags that a controller may have: see ModesAssumption
  None   \* no connection

ASSUME ConnsAssumption == Conns \subseteq Int /\ None \notin Conns
\* No -edge, -edge, or -edge with -udp-mouse.
ASSUME ModesAssumption == Modes \subseteq {"legacy", "edge", "performance"}

VARIABLES
  mode,     \* the controller's flags
  ctl,      \* where the controller of each attempt is
  auth,     \* attempts whose MsgAuth is on its way
  down,     \* what the target has written to each attempt
  cut,      \* attempts whose connection no longer leads to the controller
  slot,     \* main's "active"
  handler,  \* where handleConn is for each attempt
  clip,     \* controllers that have a clipboard connection
  clipCut,  \* attempts whose clipboard connection no longer leads there
  clipSlot, \* serveClipboard's "active"
  clipper,  \* where handleClipConn is for each attempt
  served    \* history: attempts that the target has served

controller == <<mode, ctl, auth, clip>>
mainConn == <<slot, handler, down, served>>
clipConn == <<clipSlot, clipper>>
vars == <<controller, cut, clipCut, mainConn, clipConn>>

Answers == {"auth_ok", "auth_fail", "screen_info", "udp_key"}

HandlerStates == {"none", "queued", "auth", "serve", "closed", "done"}

TypeOK ==
  /\ mode \in [Conns -> Modes \cup {"legacy"}]
  /\ ctl \in [Conns -> {"idle", "verify", "prompt", "auth", "clip", "cliphello", "screen", "key",
                        "run", "exited", "vanished"}]
  /\ auth \subseteq Conns
  /\ down \in [Conns -> Seq(Answers)]
  /\ cut \subseteq Conns
  /\ slot \in Conns \cup {None}
  /\ handler \in [Conns -> HandlerStates]
  /\ clip \subseteq Conns
  /\ clipCut \subseteq Conns
  /\ clipSlot \in Conns \cup {None}
  /\ clipper \in [Conns -> HandlerStates]
  /\ served \subseteq Conns

Init ==
  /\ mode = [c \in Conns |-> "legacy"]
  /\ ctl = [c \in Conns |-> "idle"]
  /\ auth = {}
  /\ down = [c \in Conns |-> <<>>]
  /\ cut = {}
  /\ slot = None
  /\ handler = [c \in Conns |-> "none"]
  /\ clip = {}
  /\ clipCut = {}
  /\ clipSlot = None
  /\ clipper = [c \in Conns |-> "none"]
  /\ served = {}

----------------------------------------------------------------------------
\* The target's main listener.

\* The target has not closed a connection in this state.
Open == {"queued", "auth", "serve"}

\* Mutant of Accept: the slot is not looked at.
AcceptAny(c) ==
  /\ handler[c] = "queued"
  /\ slot' = c
  /\ handler' = [handler EXCEPT ![c] = "auth"]
  /\ UNCHANGED <<controller, cut, clipCut, down, served, clipConn>>

\* The accept loop gives the slot away, or closes the connection.
Accept(c) ==
  /\ handler[c] = "queued"
  /\ \/ /\ slot = None
        /\ slot' = c
        /\ handler' = [handler EXCEPT ![c] = "auth"]
     \/ /\ slot # None
        /\ handler' = [handler EXCEPT ![c] = "done"]
        /\ UNCHANGED slot
  /\ UNCHANGED <<controller, cut, clipCut, down, served, clipConn>>

\* Mutant of Welcome: the key is not sent.
WelcomeNoKey(c) == <<"auth_ok", "screen_info">>

\* Mutant of Welcome: the key is sent before the screen's size.
WelcomeKeyFirst(c) ==
  <<"auth_ok">> \o (IF mode[c] = "performance" THEN <<"udp_key">> ELSE <<>>) \o <<"screen_info">>

\* What handleConn writes to a controller that has authenticated.  Making the key
\* cannot fail (crypto/rand since Go 1.24), and a write fails only when the
\* connection is broken.
Welcome(c) ==
  <<"auth_ok", "screen_info">> \o (IF mode[c] = "performance" THEN <<"udp_key">> ELSE <<>>)

\* handleConn reads MsgAuth with the right token ...
Authenticate(c) ==
  /\ handler[c] = "auth"
  /\ c \in auth
  /\ auth' = auth \ {c}
  /\ down' = [down EXCEPT ![c] = Welcome(c)]
  /\ handler' = [handler EXCEPT ![c] = "serve"]
  /\ served' = served \cup {c}
  /\ UNCHANGED <<mode, ctl, clip, cut, clipCut, slot, clipConn>>

\* ... or another one, or nothing for ten seconds, or an error.
RejectAuth(c) ==
  /\ handler[c] = "auth"
  /\ auth' = auth \ {c}
  /\ down' = [down EXCEPT ![c] = <<"auth_fail">>]
  /\ handler' = [handler EXCEPT ![c] = "closed"]
  /\ UNCHANGED <<mode, ctl, clip, cut, clipCut, slot, served, clipConn>>

\* Mutant of HandlerReturns: the slot is freed before the connection is closed.
HandlerReturnsFreeing(c) ==
  /\ handler[c] = "serve"
  /\ c \in cut
  /\ slot' = None
  /\ handler' = [handler EXCEPT ![c] = "closed"]
  /\ UNCHANGED <<controller, cut, clipCut, down, served, clipConn>>

\* The read of the next message fails.
HandlerReturns(c) ==
  /\ handler[c] = "serve"
  /\ c \in cut
  /\ handler' = [handler EXCEPT ![c] = "closed"]
  /\ UNCHANGED <<controller, cut, clipCut, slot, down, served, clipConn>>

\* The goroutine around handleConn.
FreeSlot(c) ==
  /\ handler[c] = "closed"
  /\ slot' = None
  /\ handler' = [handler EXCEPT ![c] = "done"]
  /\ UNCHANGED <<controller, cut, clipCut, down, served, clipConn>>

----------------------------------------------------------------------------
\* The target's clipboard listener.

ClipAccept(c) ==
  /\ clipper[c] = "queued"
  /\ \/ /\ clipSlot = None
        /\ clipSlot' = c
        /\ clipper' = [clipper EXCEPT ![c] = "auth"]
     \/ /\ clipSlot # None
        /\ clipper' = [clipper EXCEPT ![c] = "done"]
        /\ UNCHANGED clipSlot
  /\ UNCHANGED <<controller, cut, clipCut, mainConn>>

\* The token is read, and is the one that the main connection had.
ClipAuthenticate(c) ==
  /\ clipper[c] = "auth"
  /\ clipper' = [clipper EXCEPT ![c] = "serve"]
  /\ UNCHANGED <<controller, cut, clipCut, mainConn, clipSlot>>

\* A read fails, the first one also after ten seconds.
ClipHandlerReturns(c) ==
  /\ \/ clipper[c] = "auth"
     \/ clipper[c] = "serve" /\ c \in clipCut
  /\ clipper' = [clipper EXCEPT ![c] = "closed"]
  /\ UNCHANGED <<controller, cut, clipCut, mainConn, clipSlot>>

\* Mutant of FreeClipSlot: nothing is freed.
FreeClipSlotKeeping(c) ==
  /\ clipper[c] = "closed"
  /\ clipper' = [clipper EXCEPT ![c] = "done"]
  /\ UNCHANGED <<controller, cut, clipCut, mainConn, clipSlot>>

FreeClipSlot(c) ==
  /\ clipper[c] = "closed"
  /\ clipSlot' = None
  /\ clipper' = [clipper EXCEPT ![c] = "done"]
  /\ UNCHANGED <<controller, cut, clipCut, mainConn>>

\* The target is stopped and started again.
Restart ==
  /\ handler' = [c \in Conns |-> IF handler[c] = "none" THEN "none" ELSE "done"]
  /\ clipper' = [c \in Conns |-> IF clipper[c] = "none" THEN "none" ELSE "done"]
  /\ slot' = None
  /\ clipSlot' = None
  /\ UNCHANGED <<controller, cut, clipCut, down, served>>

----------------------------------------------------------------------------
\* The controller.

GoTo(c, label) == ctl' = [ctl EXCEPT ![c] = label]

\* A controller is started and dials: the connection waits to be accepted.
Dial(c) ==
  /\ ctl[c] = "idle"
  /\ \A d \in Conns : d < c => ctl[d] # "idle"
  /\ GoTo(c, "verify")
  /\ \E m \in Modes : mode' = [mode EXCEPT ![c] = m]
  /\ handler' = [handler EXCEPT ![c] = "queued"]
  /\ UNCHANGED <<auth, clip, cut, clipCut, slot, down, served, clipConn>>

\* VerifyConnection accepts a fingerprint that is known or was given, and
\* MsgAuth goes out; or it asks the user.  It needs the target's certificate,
\* so the target's handler is in its first read, which runs the handshake.
Verify(c) ==
  /\ ctl[c] = "verify"
  /\ handler[c] = "auth"
  /\ c \notin cut
  /\ \/ GoTo(c, "auth") /\ auth' = auth \cup {c}
     \/ GoTo(c, "prompt") /\ UNCHANGED auth
  /\ UNCHANGED <<mode, clip, cut, clipCut, mainConn, clipConn>>

\* The user trusts the target, at any time: it may have closed the connection
\* meanwhile, which the next read will tell.
Trust(c) ==
  /\ ctl[c] = "prompt"
  /\ auth' = IF handler[c] = "auth" /\ c \notin cut THEN auth \cup {c} ELSE auth
  /\ GoTo(c, "auth")
  /\ UNCHANGED <<mode, clip, cut, clipCut, mainConn, clipConn>>

\* The process ends, and closes what it has open.
Quit(c) ==
  /\ GoTo(c, "exited")
  /\ cut' = cut \cup {c}
  /\ clipCut' = clipCut \cup {c}
  /\ clip' = clip \ {c}
  /\ UNCHANGED <<mode, auth, mainConn, clipConn>>

Broken(c) == c \in cut \/ handler[c] \notin Open

\* A read fails where that is fatal; so does the controller's own deadline while
\* it waits for the answer to MsgAuth.
ReadFails(c) ==
  /\ \/ ctl[c] \in {"verify", "screen"} /\ Broken(c)
     \/ ctl[c] = "auth"
  /\ Quit(c)

\* Mutant of Accepts: any answer will do.
AcceptsAnything(answer) == TRUE

Accepts(answer) == answer = "auth_ok"

ReadAuthAnswer(c) ==
  /\ ctl[c] = "auth"
  /\ down[c] # <<>>
  /\ Accepts(Head(down[c]))
  /\ down' = [down EXCEPT ![c] = Tail(@)]
  /\ GoTo(c, IF mode[c] = "legacy" THEN "run" ELSE "clip")
  /\ UNCHANGED <<mode, auth, clip, cut, clipCut, slot, handler, served, clipConn>>

ReadAuthFail(c) ==
  /\ ctl[c] = "auth"
  /\ down[c] # <<>>
  /\ ~Accepts(Head(down[c]))
  /\ Quit(c)

\* dialClipboard dials, which may fail, ...
ClipDial(c) ==
  /\ ctl[c] = "clip"
  /\ \/ /\ GoTo(c, "cliphello")
        /\ clipper' = [clipper EXCEPT ![c] = "queued"]
     \/ /\ GoTo(c, "screen")
        /\ UNCHANGED clipper
  /\ UNCHANGED <<mode, auth, clip, cut, clipCut, mainConn, clipSlot>>

\* ... and is let in, or is refused or waits for ten seconds in vain.
ClipReady(c) ==
  /\ ctl[c] = "cliphello"
  /\ clipper[c] = "serve"
  /\ clip' = clip \cup {c}
  /\ GoTo(c, "screen")
  /\ UNCHANGED <<mode, auth, cut, clipCut, mainConn, clipConn>>

ClipUnavailable(c) ==
  /\ ctl[c] = "cliphello"
  /\ clipper[c] # "queued"
  /\ clipCut' = clipCut \cup {c}
  /\ GoTo(c, "screen")
  /\ UNCHANGED <<mode, auth, clip, cut, mainConn, clipConn>>

\* The screen's size is read; the one of a target that is not a Windows machine
\* is not valid, which is fatal.
ReadScreenInfo(c) ==
  /\ ctl[c] = "screen"
  /\ down[c] # <<>>
  /\ down' = [down EXCEPT ![c] = Tail(@)]
  /\ \/ /\ GoTo(c, IF mode[c] = "performance" THEN "key" ELSE "run")
        /\ UNCHANGED <<clip, cut, clipCut>>
     \/ /\ GoTo(c, "exited")
        /\ cut' = cut \cup {c}
        /\ clipCut' = clipCut \cup {c}
        /\ clip' = clip \ {c}
  /\ UNCHANGED <<mode, auth, slot, handler, served, clipConn>>

\* negotiateUDPMouse reads the key, or goes on without one.
NegotiateUDPMouse(c) ==
  /\ ctl[c] = "key"
  /\ \/ down[c] # <<>> /\ down' = [down EXCEPT ![c] = Tail(@)]
     \/ Broken(c) /\ UNCHANGED down
  /\ GoTo(c, "run")
  /\ UNCHANGED <<mode, auth, clip, cut, clipCut, slot, handler, served, clipConn>>

\* The user stops the controller or does not trust the target, or a write finds
\* that nobody reads.
Stop(c) ==
  /\ ctl[c] \notin {"idle", "exited", "vanished"}
  /\ Quit(c)

\* The controller's machine goes to sleep or loses its power.
Vanish(c) ==
  /\ ctl[c] \notin {"idle", "exited", "vanished"}
  /\ GoTo(c, "vanished")
  /\ cut' = cut \cup {c}
  /\ clipCut' = clipCut \cup {c}
  /\ clip' = clip \ {c}
  /\ UNCHANGED <<mode, auth, mainConn, clipConn>>

\* The connection breaks, and nothing but that.
Break(c) ==
  /\ ctl[c] \notin {"idle", "exited", "vanished"}
  /\ c \notin cut
  /\ cut' = cut \cup {c}
  /\ UNCHANGED <<controller, clipCut, mainConn, clipConn>>

----------------------------------------------------------------------------

Target(c) ==
  \/ Authenticate(c) \/ RejectAuth(c) \/ HandlerReturns(c) \/ FreeSlot(c)
  \/ ClipAuthenticate(c) \/ ClipHandlerReturns(c) \/ FreeClipSlot(c)

Connect(c) ==
  \/ Verify(c) \/ ReadFails(c) \/ ReadAuthAnswer(c) \/ ReadAuthFail(c)
  \/ ClipDial(c) \/ ClipReady(c) \/ ClipUnavailable(c)
  \/ ReadScreenInfo(c) \/ NegotiateUDPMouse(c)

Next ==
  \/ \E c \in Conns :
       \/ Accept(c) \/ ClipAccept(c) \/ Target(c)
       \/ Dial(c) \/ Trust(c) \/ Connect(c)
       \/ Stop(c) \/ Vanish(c) \/ Break(c)
  \/ Restart

Spec == Init /\ [][Next]_vars

\* The listeners and handlers run, and so do the controllers, except that their
\* users answer and stop them as they like.  TCP's keep-alive makes a read of a
\* connection that is cut fail at some time.
FairSpec ==
  /\ Spec
  /\ \A c \in Conns :
       /\ WF_vars(Accept(c)) /\ WF_vars(ClipAccept(c))
       /\ WF_vars(Authenticate(c) \/ RejectAuth(c) \/ HandlerReturns(c) \/ FreeSlot(c))
       /\ WF_vars(ClipAuthenticate(c) \/ ClipHandlerReturns(c) \/ FreeClipSlot(c))
       /\ WF_vars(Connect(c))

----------------------------------------------------------------------------
\* One controller at a time (README.md:176-177): the slots are held by exactly
\* the connections that have a handler, also while one is being closed.
OneController ==
  \A c \in Conns :
    /\ handler[c] \in {"auth", "serve", "closed"} <=> slot = c
    /\ clipper[c] \in {"auth", "serve", "closed"} <=> clipSlot = c

\* A controller that got past authentication was let in by the target, and the
\* target serves it for as long as its connection lasts.
RunsServed ==
  \A c \in Conns :
    ctl[c] \in {"clip", "cliphello", "screen", "key", "run"} =>
      c \in served /\ (Broken(c) \/ handler[c] = "serve")

\* The target can serve one controller's input and another's clipboard, because
\* the slots are freed by different goroutines.  But then the other's session
\* is over.
ClipboardOfSession ==
  \A c \in Conns :
    clipper[c] \in {"auth", "serve"} /\ slot \notin {c, None} => handler[c] = "done"

\* No read of the handshake waits for a message that will not be written: while
\* the connection lasts, the answer to MsgAuth is there or the target has yet to
\* read the token, and what a controller in this mode reads next is there and is
\* what it expects.  These later reads have no deadline (edge_windows.go:65 and
\* 92): a message too few leaves both sides waiting, and another than the screen's
\* size is fatal.
HandshakeInStep ==
  \A c \in Conns : ~Broken(c) =>
    /\ ctl[c] = "auth" => (c \in auth /\ handler[c] = "auth") \/ down[c] # <<>>
    /\ ctl[c] = "screen" => down[c] # <<>> /\ Head(down[c]) = "screen_info"
    /\ ctl[c] = "key" => down[c] # <<>> /\ Head(down[c]) = "udp_key"

\* A controller gets to run, or asks its user, or ends: it is never left waiting
\* for the target (the deadlines of main.go:79-87 and clipboard_windows.go:41-55).
HandshakeEnds ==
  \A c \in Conns :
    /\ ctl[c] = "verify" ~> ctl[c] \in {"prompt", "auth", "exited", "vanished"}
    /\ ctl[c] = "auth" ~> ctl[c] \in {"run", "exited", "vanished"}

\* A controller that is gone, and one that only connects and does not
\* authenticate, lose the slots at some time.
SlotsFreed ==
  \A c \in Conns :
    /\ c \in cut ~> slot # c
    /\ handler[c] = "auth" ~> handler[c] = "serve" \/ slot # c
    /\ c \in clipCut ~> clipSlot # c

=============================================================================
