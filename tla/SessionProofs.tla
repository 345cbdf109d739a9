--------------------------- MODULE SessionProofs ---------------------------
(***************************************************************************)
(* For any number of attempts to connect: type correctness, one controller *)
(* at a time on each listener, and that a controller which is past         *)
(* authentication is the one that the target serves.                       *)
(*                                                                         *)
(* And, from TrustStore, what those controllers rest their trust on: for   *)
(* any number of starts and runs, that a stored pin is kept, and that an   *)
(* alarm has a reason.                                                     *)
(***************************************************************************)
EXTENDS Session, TrustStore, TLAPS

\* An attempt that has not dialled has no connection, and one that was served has
\* left the queue.
HandlerFollows ==
  \A c \in Conns :
    /\ ctl[c] = "idle" => handler[c] = "none"
    /\ ctl[c] \in {"idle", "verify", "prompt", "auth", "clip"} => clipper[c] = "none"
    /\ c \in served => handler[c] \in {"serve", "closed", "done"}

\* What only the target's "auth_ok" leads to.
Admitted ==
  \A c \in Conns :
    /\ \A i \in DOMAIN down[c] : down[c][i] = "auth_ok" => c \in served
    /\ ctl[c] \in {"clip", "cliphello", "screen", "key", "run"} => c \in served
    /\ clipper[c] # "none" => c \in served

SInv == TypeOK /\ OneController /\ HandlerFollows /\ Admitted

USE ConnsAssumption

\* Answers, once and for all.
LEMMA TailFacts == ASSUME NEW q \in Seq(Answers), q # <<>>
                   PROVE  /\ Tail(q) \in Seq(Answers)
                          /\ 1 \in DOMAIN q /\ Head(q) = q[1]
                          /\ \A i \in DOMAIN Tail(q) : i + 1 \in DOMAIN q /\ Tail(q)[i] = q[i + 1]
  OBVIOUS

LEMMA ReadType == ASSUME NEW c \in Conns, down \in [Conns -> Seq(Answers)], down[c] # <<>>
                  PROVE  [down EXCEPT ![c] = Tail(@)] \in [Conns -> Seq(Answers)]
<1>1. Tail(down[c]) \in Seq(Answers) BY TailFacts
<1> QED BY <1>1

LEMMA AnswerFacts == /\ <<>> \in Seq(Answers) /\ DOMAIN <<>> = {}
                     /\ <<"auth_fail">> \in Seq(Answers)
                     /\ \A i \in DOMAIN <<"auth_fail">> : <<"auth_fail">>[i] # "auth_ok"
  BY DEF Answers

LEMMA WelcomeType == \A c \in Conns : Welcome(c) \in Seq(Answers)
<1> SUFFICES ASSUME NEW c \in Conns PROVE Welcome(c) \in Seq(Answers) OBVIOUS
<1>1. <<"auth_ok", "screen_info">> \in Seq(Answers) BY DEF Answers
<1>2. <<"udp_key">> \in Seq(Answers) /\ <<>> \in Seq(Answers) BY DEF Answers
<1>3. \A a, b \in Seq(Answers) : a \o b \in Seq(Answers) OBVIOUS
<1> QED BY <1>1, <1>2, <1>3 DEF Welcome

LEMMA InitInv == Init => SInv
<1> SUFFICES ASSUME Init PROVE SInv OBVIOUS
<1>1. TypeOK BY AnswerFacts DEF Init, TypeOK, HandlerStates
<1>2. OneController BY DEF Init, OneController
<1>3. HandlerFollows /\ Admitted BY AnswerFacts DEF Init, HandlerFollows, Admitted
<1> QED BY <1>1, <1>2, <1>3 DEF SInv

----------------------------------------------------------------------------
\* The steps.

LEMMA QuitKeeps == ASSUME SInv, NEW c \in Conns, Quit(c) PROVE SInv'
<1> USE DEF SInv, Quit, GoTo, mainConn, clipConn
<1>1. TypeOK' BY DEF TypeOK
<1>2. OneController' BY DEF OneController
<1>3. HandlerFollows' /\ Admitted' BY DEF HandlerFollows, Admitted, TypeOK
<1> QED BY <1>1, <1>2, <1>3

LEMMA StepInv == ASSUME SInv, [Next]_vars PROVE SInv'
<1> USE DEF SInv, GoTo, controller, mainConn, clipConn
<1>1. ASSUME NEW c \in Conns, Accept(c) PROVE SInv'
  <2> USE <1>1 DEF Accept
  <2>1. TypeOK' BY DEF TypeOK, HandlerStates
  <2>2. OneController' BY DEF OneController, TypeOK
  <2>3. HandlerFollows' BY DEF HandlerFollows, TypeOK
  <2>4. Admitted' BY DEF Admitted, TypeOK
  <2> QED BY <2>1, <2>2, <2>3, <2>4
<1>2. ASSUME NEW c \in Conns, Authenticate(c) PROVE SInv'
  <2> USE <1>2 DEF Authenticate
  <2>1. TypeOK' BY WelcomeType DEF TypeOK, HandlerStates
  <2>2. OneController' BY DEF OneController, TypeOK
  <2>3. HandlerFollows' BY DEF HandlerFollows, TypeOK
  <2>4. Admitted' BY WelcomeType DEF Admitted, TypeOK
  <2> QED BY <2>1, <2>2, <2>3, <2>4
<1>3. ASSUME NEW c \in Conns, RejectAuth(c) PROVE SInv'
  <2> USE <1>3 DEF RejectAuth
  <2>1. TypeOK' BY AnswerFacts DEF TypeOK, HandlerStates
  <2>2. OneController' BY DEF OneController, TypeOK
  <2>3. HandlerFollows' BY DEF HandlerFollows, TypeOK
  <2>4. Admitted' BY AnswerFacts DEF Admitted, TypeOK
  <2> QED BY <2>1, <2>2, <2>3, <2>4
<1>4. ASSUME NEW c \in Conns, HandlerReturns(c) PROVE SInv'
  <2> USE <1>4 DEF HandlerReturns
  <2>1. TypeOK' BY DEF TypeOK, HandlerStates
  <2>2. OneController' BY DEF OneController, TypeOK
  <2>3. HandlerFollows' BY DEF HandlerFollows, TypeOK
  <2>4. Admitted' BY DEF Admitted, TypeOK
  <2> QED BY <2>1, <2>2, <2>3, <2>4
<1>5. ASSUME NEW c \in Conns, FreeSlot(c) PROVE SInv'
  <2> USE <1>5 DEF FreeSlot
  <2>1. TypeOK' BY DEF TypeOK, HandlerStates
  <2>2. OneController' BY DEF OneController, TypeOK
  <2>3. HandlerFollows' BY DEF HandlerFollows, TypeOK
  <2>4. Admitted' BY DEF Admitted, TypeOK
  <2> QED BY <2>1, <2>2, <2>3, <2>4
<1>6. ASSUME NEW c \in Conns, ClipAccept(c) PROVE SInv'
  <2> USE <1>6 DEF ClipAccept
  <2>1. TypeOK' BY DEF TypeOK, HandlerStates
  <2>2. OneController' BY DEF OneController, TypeOK
  <2>3. HandlerFollows' BY DEF HandlerFollows, TypeOK
  <2>4. Admitted' BY DEF Admitted, TypeOK
  <2> QED BY <2>1, <2>2, <2>3, <2>4
<1>7. ASSUME NEW c \in Conns, ClipAuthenticate(c) PROVE SInv'
  <2> USE <1>7 DEF ClipAuthenticate
  <2>1. TypeOK' BY DEF TypeOK, HandlerStates
  <2>2. OneController' BY DEF OneController, TypeOK
  <2>3. HandlerFollows' BY DEF HandlerFollows, TypeOK
  <2>4. Admitted' BY DEF Admitted, TypeOK
  <2> QED BY <2>1, <2>2, <2>3, <2>4
<1>8. ASSUME NEW c \in Conns, ClipHandlerReturns(c) PROVE SInv'
  <2> USE <1>8 DEF ClipHandlerReturns
  <2>1. TypeOK' BY DEF TypeOK, HandlerStates
  <2>2. OneController' BY DEF OneController, TypeOK
  <2>3. HandlerFollows' BY DEF HandlerFollows, TypeOK
  <2>4. Admitted' BY DEF Admitted, TypeOK
  <2> QED BY <2>1, <2>2, <2>3, <2>4
<1>9. ASSUME NEW c \in Conns, FreeClipSlot(c) PROVE SInv'
  <2> USE <1>9 DEF FreeClipSlot
  <2>1. TypeOK' BY DEF TypeOK, HandlerStates
  <2>2. OneController' BY DEF OneController, TypeOK
  <2>3. HandlerFollows' BY DEF HandlerFollows, TypeOK
  <2>4. Admitted' BY DEF Admitted, TypeOK
  <2> QED BY <2>1, <2>2, <2>3, <2>4
<1>10. ASSUME NEW c \in Conns, Dial(c) PROVE SInv'
  <2> USE <1>10 DEF Dial
  <2>1. TypeOK' BY DEF TypeOK, HandlerStates
  <2>2. OneController' BY DEF OneController, HandlerFollows, TypeOK
  <2>3. HandlerFollows' BY DEF HandlerFollows, TypeOK
  <2>4. Admitted' BY DEF Admitted, TypeOK
  <2> QED BY <2>1, <2>2, <2>3, <2>4
<1>11. ASSUME NEW c \in Conns, Verify(c) PROVE SInv'
  <2> USE <1>11 DEF Verify
  <2>1. TypeOK' BY DEF TypeOK, HandlerStates
  <2>2. OneController' BY DEF OneController, TypeOK
  <2>3. HandlerFollows' BY DEF HandlerFollows, TypeOK
  <2>4. Admitted' BY DEF Admitted, TypeOK
  <2> QED BY <2>1, <2>2, <2>3, <2>4
<1>12. ASSUME NEW c \in Conns, Trust(c) PROVE SInv'
  <2> USE <1>12 DEF Trust
  <2>1. TypeOK' BY DEF TypeOK, HandlerStates
  <2>2. OneController' BY DEF OneController, TypeOK
  <2>3. HandlerFollows' BY DEF HandlerFollows, TypeOK
  <2>4. Admitted' BY DEF Admitted, TypeOK
  <2> QED BY <2>1, <2>2, <2>3, <2>4
<1>13. ASSUME NEW c \in Conns, ReadAuthAnswer(c) PROVE SInv'
  <2> USE <1>13 DEF ReadAuthAnswer, Accepts
  <2>1. TypeOK' BY TailFacts DEF TypeOK, HandlerStates
  <2>2. OneController' BY DEF OneController, TypeOK
  <2>3. HandlerFollows' BY DEF HandlerFollows, TypeOK
  <2>4. Admitted' BY TailFacts DEF Admitted, TypeOK
  <2> QED BY <2>1, <2>2, <2>3, <2>4
<1>14. ASSUME NEW c \in Conns, ClipDial(c) PROVE SInv'
  <2> USE <1>14 DEF ClipDial
  <2>1. TypeOK' BY DEF TypeOK, HandlerStates
  <2>2. OneController' BY DEF OneController, HandlerFollows, TypeOK
  <2>3. HandlerFollows' BY DEF HandlerFollows, TypeOK
  <2>4. Admitted' BY DEF Admitted, TypeOK
  <2> QED BY <2>1, <2>2, <2>3, <2>4
<1>15. ASSUME NEW c \in Conns, ClipReady(c) PROVE SInv'
  <2> USE <1>15 DEF ClipReady
  <2>1. TypeOK' BY DEF TypeOK, HandlerStates
  <2>2. OneController' BY DEF OneController, TypeOK
  <2>3. HandlerFollows' BY DEF HandlerFollows, TypeOK
  <2>4. Admitted' BY DEF Admitted, TypeOK
  <2> QED BY <2>1, <2>2, <2>3, <2>4
<1>16. ASSUME NEW c \in Conns, ClipUnavailable(c) PROVE SInv'
  <2> USE <1>16 DEF ClipUnavailable
  <2>1. TypeOK' BY DEF TypeOK, HandlerStates
  <2>2. OneController' BY DEF OneController, TypeOK
  <2>3. HandlerFollows' BY DEF HandlerFollows, TypeOK
  <2>4. Admitted' BY DEF Admitted, TypeOK
  <2> QED BY <2>1, <2>2, <2>3, <2>4
<1>17. ASSUME NEW c \in Conns, ReadScreenInfo(c) PROVE SInv'
  <2> USE <1>17 DEF ReadScreenInfo
  <2>1. TypeOK'
    <3>1. down' \in [Conns -> Seq(Answers)] BY ReadType DEF TypeOK
    <3> QED BY <3>1 DEF TypeOK, HandlerStates
  <2>2. OneController' BY DEF OneController, TypeOK
  <2>3. HandlerFollows' BY DEF HandlerFollows, TypeOK
  <2>4. Admitted' BY TailFacts DEF Admitted, TypeOK
  <2> QED BY <2>1, <2>2, <2>3, <2>4
<1>18. ASSUME NEW c \in Conns, NegotiateUDPMouse(c) PROVE SInv'
  <2> USE <1>18 DEF NegotiateUDPMouse
  <2>1. TypeOK'
    <3>1. down' \in [Conns -> Seq(Answers)] BY ReadType DEF TypeOK
    <3> QED BY <3>1 DEF TypeOK, HandlerStates
  <2>2. OneController' BY DEF OneController, TypeOK
  <2>3. HandlerFollows' BY DEF HandlerFollows, TypeOK
  <2>4. Admitted' BY TailFacts DEF Admitted, TypeOK
  <2> QED BY <2>1, <2>2, <2>3, <2>4
<1>19. ASSUME NEW c \in Conns, Vanish(c) PROVE SInv'
  <2> USE <1>19 DEF Vanish
  <2>1. TypeOK' BY DEF TypeOK, HandlerStates
  <2>2. OneController' BY DEF OneController, TypeOK
  <2>3. HandlerFollows' BY DEF HandlerFollows, TypeOK
  <2>4. Admitted' BY DEF Admitted, TypeOK
  <2> QED BY <2>1, <2>2, <2>3, <2>4
<1>20. ASSUME NEW c \in Conns, Break(c) PROVE SInv'
  <2> USE <1>20 DEF Break
  <2>1. TypeOK' BY DEF TypeOK, HandlerStates
  <2>2. OneController' BY DEF OneController, TypeOK
  <2>3. HandlerFollows' BY DEF HandlerFollows, TypeOK
  <2>4. Admitted' BY DEF Admitted, TypeOK
  <2> QED BY <2>1, <2>2, <2>3, <2>4
<1>21. ASSUME Restart PROVE SInv'
  <2> USE <1>21 DEF Restart
  <2>1. TypeOK' BY DEF TypeOK, HandlerStates
  <2>2. OneController' BY DEF OneController, TypeOK
  <2>3. HandlerFollows' BY DEF HandlerFollows, TypeOK
  <2>4. Admitted' BY DEF Admitted, TypeOK
  <2> QED BY <2>1, <2>2, <2>3, <2>4
<1>22. ASSUME NEW c \in Conns, ReadFails(c) \/ ReadAuthFail(c) \/ Stop(c) PROVE SInv'
  BY <1>22, QuitKeeps DEF ReadFails, ReadAuthFail, Stop
<1>23. CASE UNCHANGED vars
  BY <1>23 DEF vars, TypeOK, OneController, HandlerFollows, Admitted
<1> QED BY <1>1, <1>2, <1>3, <1>4, <1>5, <1>6, <1>7, <1>8, <1>9, <1>10, <1>11, <1>12, <1>13, <1>14, <1>15, <1>16, <1>17, <1>18, <1>19, <1>20, <1>21, <1>22, <1>23 DEF Next, Target, Connect

THEOREM Invariance == Spec => []SInv
BY InitInv, StepInv, PTL DEF Spec

----------------------------------------------------------------------------

\* The listeners, the handlers and the controllers keep their types
\* (handleConn, handleClipConn and the controller's main).
THEOREM TypeCorrect == Spec => []TypeOK
<1>1. SInv => TypeOK BY DEF SInv
<1> QED BY <1>1, Invariance, PTL

\* Each slot is held by exactly the connection that has a handler, whatever the
\* order of connections, deadlines, breaks and restarts: one controller at a
\* time (README.md:176-177).
THEOREM SlotsHeld == Spec => []OneController
<1>1. SInv => OneController BY DEF SInv
<1> QED BY <1>1, Invariance, PTL

\* A controller that is past authentication was let in, and is the one that the
\* target serves for as long as the connection lasts (main.go:76-107).
THEOREM Served == Spec => []RunsServed
<1>1. SInv => RunsServed
  BY DEF SInv, TypeOK, Admitted, HandlerFollows, RunsServed, Broken, Open
<1> QED BY <1>1, Invariance, PTL

\* If the target serves the clipboard of a controller while another has the main
\* slot, the first one's session is over (main.go:124-129 of the target and
\* clipboard_windows.go:59-64).
THEOREM ClipboardFollows == Spec => []ClipboardOfSession
<1>1. SInv => ClipboardOfSession
  BY DEF SInv, TypeOK, OneController, Admitted, HandlerFollows, ClipboardOfSession
<1> QED BY <1>1, Invariance, PTL

----------------------------------------------------------------------------
\* The messages of the handshake.

\* What a controller in mode m reads after "auth_ok", and what it is sent.
Rest(m) == <<"screen_info">> \o (IF m = "performance" THEN <<"udp_key">> ELSE <<>>)

Greeting(m) == <<"auth_ok">> \o Rest(m)

\* How far a controller and its handler are with the token, for each other.
TokenFollows ==
  \A c \in Conns :
    /\ c \in auth => ctl[c] \in {"auth", "exited", "vanished"} /\ c \notin served
    /\ handler[c] = "serve" => c \in served
    /\ handler[c] = "queued" => ctl[c] \in {"verify", "exited", "vanished"}
    /\ handler[c] = "serve" => ctl[c] \notin {"idle", "verify", "prompt"}

\* What is there to be read at each step of a controller.
InOrder ==
  \A c \in Conns :
    /\ ctl[c] = "idle" => down[c] = <<>>
    /\ ctl[c] \in {"verify", "prompt", "auth"} =>
         down[c] \in {<<>>, <<"auth_fail">>, Greeting(mode[c])}
    /\ ctl[c] = "auth" /\ down[c] = <<>> /\ ~Broken(c) => c \in auth
    /\ ctl[c] \in {"clip", "cliphello", "screen"} => down[c] = Rest(mode[c])
    /\ ctl[c] = "key" => down[c] = <<"udp_key">>

HInv == SInv /\ TokenFollows /\ InOrder

LEMMA ReadOff ==
  /\ \A c \in Conns : Welcome(c) = Greeting(mode[c])
  /\ \A m : /\ Greeting(m) # <<>> /\ Head(Greeting(m)) = "auth_ok" /\ Tail(Greeting(m)) = Rest(m)
            /\ Rest(m) # <<>> /\ Head(Rest(m)) = "screen_info"
            /\ m = "performance" => Tail(Rest(m)) = <<"udp_key">>
<1> DEFINE more(m) == IF m = "performance" THEN <<"udp_key">> ELSE <<>>
<1>0. <<"udp_key">> \in Seq(Answers) /\ <<>> \in Seq(Answers) BY DEF Answers
<1>1. \A m : more(m) \in Seq(Answers) BY <1>0
<1>2. <<"screen_info">> \in Seq(Answers) /\ <<"auth_ok">> \in Seq(Answers) BY DEF Answers
<1>3. ASSUME NEW q \in Seq(Answers), NEW x \in Answers
      PROVE  <<x>> \o q # <<>> /\ Head(<<x>> \o q) = x /\ Tail(<<x>> \o q) = q
             /\ <<x>> \o q \in Seq(Answers)
  OBVIOUS
<1>4. ASSUME NEW q \in Seq(Answers)
      PROVE  <<"auth_ok", "screen_info">> \o q = <<"auth_ok">> \o (<<"screen_info">> \o q)
  BY DEF Answers
<1>5. \A m : Rest(m) \in Seq(Answers) /\ Rest(m) # <<>> /\ Head(Rest(m)) = "screen_info"
             /\ Tail(Rest(m)) = more(m)
  BY <1>1, <1>3 DEF Rest, Answers
<1>6. \A m : Greeting(m) # <<>> /\ Head(Greeting(m)) = "auth_ok" /\ Tail(Greeting(m)) = Rest(m)
  BY <1>3, <1>5 DEF Greeting, Answers
<1>7. \A c \in Conns : Welcome(c) = Greeting(mode[c])
  BY <1>1, <1>4 DEF Welcome, Greeting, Rest
<1> QED BY <1>5, <1>6, <1>7

LEMMA InitHandshake == Init => HInv
<1>1. Init => TokenFollows /\ InOrder BY DEF Init, TokenFollows, InOrder
<1> QED BY <1>1, InitInv DEF HInv

LEMMA QuitInOrder == ASSUME HInv, NEW c \in Conns, Quit(c) PROVE TokenFollows' /\ InOrder'
<1> USE DEF HInv, SInv, TypeOK, Quit, GoTo, mainConn, clipConn
<1>1. TokenFollows' BY DEF TokenFollows
<1>2. InOrder' BY DEF InOrder, Broken
<1> QED BY <1>1, <1>2

LEMMA HandshakeStep == ASSUME HInv, [Next]_vars PROVE TokenFollows' /\ InOrder'
<1> USE DEF HInv, SInv, TypeOK, GoTo, controller, mainConn, clipConn
<1>1. ASSUME NEW c \in Conns, Accept(c) PROVE TokenFollows' /\ InOrder'
  <2> USE <1>1 DEF Accept
  <2>1. TokenFollows' BY DEF TokenFollows, HandlerFollows, Admitted
  <2>2. InOrder' BY DEF InOrder, TokenFollows, HandlerFollows, Admitted, Broken, Open
  <2> QED BY <2>1, <2>2
<1>2. ASSUME NEW c \in Conns, Authenticate(c) PROVE TokenFollows' /\ InOrder'
  <2> USE <1>2 DEF Authenticate
  <2>1. TokenFollows' BY DEF TokenFollows, HandlerFollows, Admitted
  <2>2. InOrder' BY ReadOff DEF InOrder, TokenFollows, HandlerFollows, Admitted, Broken, Open
  <2> QED BY <2>1, <2>2
<1>3. ASSUME NEW c \in Conns, RejectAuth(c) PROVE TokenFollows' /\ InOrder'
  <2> USE <1>3 DEF RejectAuth
  <2>1. TokenFollows' BY DEF TokenFollows, HandlerFollows, Admitted
  <2>2. InOrder' BY DEF InOrder, TokenFollows, HandlerFollows, Admitted, Broken, Open
  <2> QED BY <2>1, <2>2
<1>4. ASSUME NEW c \in Conns, HandlerReturns(c) PROVE TokenFollows' /\ InOrder'
  <2> USE <1>4 DEF HandlerReturns
  <2>1. TokenFollows' BY DEF TokenFollows, HandlerFollows, Admitted
  <2>2. InOrder' BY DEF InOrder, TokenFollows, HandlerFollows, Admitted, Broken, Open
  <2> QED BY <2>1, <2>2
<1>5. ASSUME NEW c \in Conns, FreeSlot(c) PROVE TokenFollows' /\ InOrder'
  <2> USE <1>5 DEF FreeSlot
  <2>1. TokenFollows' BY DEF TokenFollows, HandlerFollows, Admitted
  <2>2. InOrder' BY DEF InOrder, TokenFollows, HandlerFollows, Admitted, Broken, Open
  <2> QED BY <2>1, <2>2
<1>6. ASSUME NEW c \in Conns, ClipAccept(c) PROVE TokenFollows' /\ InOrder'
  <2> USE <1>6 DEF ClipAccept
  <2>1. TokenFollows' BY DEF TokenFollows, HandlerFollows, Admitted
  <2>2. InOrder' BY DEF InOrder, TokenFollows, HandlerFollows, Admitted, Broken, Open
  <2> QED BY <2>1, <2>2
<1>7. ASSUME NEW c \in Conns, ClipAuthenticate(c) PROVE TokenFollows' /\ InOrder'
  <2> USE <1>7 DEF ClipAuthenticate
  <2>1. TokenFollows' BY DEF TokenFollows, HandlerFollows, Admitted
  <2>2. InOrder' BY DEF InOrder, TokenFollows, HandlerFollows, Admitted, Broken, Open
  <2> QED BY <2>1, <2>2
<1>8. ASSUME NEW c \in Conns, ClipHandlerReturns(c) PROVE TokenFollows' /\ InOrder'
  <2> USE <1>8 DEF ClipHandlerReturns
  <2>1. TokenFollows' BY DEF TokenFollows, HandlerFollows, Admitted
  <2>2. InOrder' BY DEF InOrder, TokenFollows, HandlerFollows, Admitted, Broken, Open
  <2> QED BY <2>1, <2>2
<1>9. ASSUME NEW c \in Conns, FreeClipSlot(c) PROVE TokenFollows' /\ InOrder'
  <2> USE <1>9 DEF FreeClipSlot
  <2>1. TokenFollows' BY DEF TokenFollows, HandlerFollows, Admitted
  <2>2. InOrder' BY DEF InOrder, TokenFollows, HandlerFollows, Admitted, Broken, Open
  <2> QED BY <2>1, <2>2
<1>10. ASSUME NEW c \in Conns, Dial(c) PROVE TokenFollows' /\ InOrder'
  <2> USE <1>10 DEF Dial
  <2>1. TokenFollows' BY DEF TokenFollows, HandlerFollows, Admitted
  <2>2. InOrder' BY DEF InOrder, TokenFollows, HandlerFollows, Admitted, Broken, Open
  <2> QED BY <2>1, <2>2
<1>11. ASSUME NEW c \in Conns, Verify(c) PROVE TokenFollows' /\ InOrder'
  <2> USE <1>11 DEF Verify
  <2>1. TokenFollows' BY DEF TokenFollows, HandlerFollows, Admitted
  <2>2. InOrder' BY DEF InOrder, TokenFollows, HandlerFollows, Admitted, Broken, Open
  <2> QED BY <2>1, <2>2
<1>12. ASSUME NEW c \in Conns, Trust(c) PROVE TokenFollows' /\ InOrder'
  <2> USE <1>12 DEF Trust
  <2>1. TokenFollows' BY DEF TokenFollows, HandlerFollows, Admitted
  <2>2. InOrder' BY DEF InOrder, TokenFollows, HandlerFollows, Admitted, Broken, Open
  <2> QED BY <2>1, <2>2
<1>13. ASSUME NEW c \in Conns, ReadAuthAnswer(c) PROVE TokenFollows' /\ InOrder'
  <2> USE <1>13 DEF ReadAuthAnswer, Accepts
  <2>1. TokenFollows' BY TailFacts DEF TokenFollows, HandlerFollows, Admitted
  <2>2. InOrder' BY ReadOff DEF InOrder, TokenFollows, HandlerFollows, Admitted, Broken, Open
  <2> QED BY <2>1, <2>2
<1>14. ASSUME NEW c \in Conns, ClipDial(c) PROVE TokenFollows' /\ InOrder'
  <2> USE <1>14 DEF ClipDial
  <2>1. TokenFollows' BY DEF TokenFollows, HandlerFollows, Admitted
  <2>2. InOrder' BY DEF InOrder, TokenFollows, HandlerFollows, Admitted, Broken, Open
  <2> QED BY <2>1, <2>2
<1>15. ASSUME NEW c \in Conns, ClipReady(c) PROVE TokenFollows' /\ InOrder'
  <2> USE <1>15 DEF ClipReady
  <2>1. TokenFollows' BY DEF TokenFollows, HandlerFollows, Admitted
  <2>2. InOrder' BY DEF InOrder, TokenFollows, HandlerFollows, Admitted, Broken, Open
  <2> QED BY <2>1, <2>2
<1>16. ASSUME NEW c \in Conns, ClipUnavailable(c) PROVE TokenFollows' /\ InOrder'
  <2> USE <1>16 DEF ClipUnavailable
  <2>1. TokenFollows' BY DEF TokenFollows, HandlerFollows, Admitted
  <2>2. InOrder' BY DEF InOrder, TokenFollows, HandlerFollows, Admitted, Broken, Open
  <2> QED BY <2>1, <2>2
<1>17. ASSUME NEW c \in Conns, ReadScreenInfo(c) PROVE TokenFollows' /\ InOrder'
  <2> USE <1>17 DEF ReadScreenInfo
  <2>1. TokenFollows' BY DEF TokenFollows, HandlerFollows, Admitted
  <2>2. InOrder' BY ReadOff DEF InOrder, TokenFollows, HandlerFollows, Admitted, Broken, Open
  <2> QED BY <2>1, <2>2
<1>18. ASSUME NEW c \in Conns, NegotiateUDPMouse(c) PROVE TokenFollows' /\ InOrder'
  <2> USE <1>18 DEF NegotiateUDPMouse
  <2>1. TokenFollows' BY DEF TokenFollows, HandlerFollows, Admitted
  <2>2. InOrder' BY DEF InOrder, TokenFollows, HandlerFollows, Admitted, Broken, Open
  <2> QED BY <2>1, <2>2
<1>19. ASSUME NEW c \in Conns, Vanish(c) PROVE TokenFollows' /\ InOrder'
  <2> USE <1>19 DEF Vanish
  <2>1. TokenFollows' BY DEF TokenFollows, HandlerFollows, Admitted
  <2>2. InOrder' BY DEF InOrder, TokenFollows, HandlerFollows, Admitted, Broken, Open
  <2> QED BY <2>1, <2>2
<1>20. ASSUME NEW c \in Conns, Break(c) PROVE TokenFollows' /\ InOrder'
  <2> USE <1>20 DEF Break
  <2>1. TokenFollows' BY DEF TokenFollows, HandlerFollows, Admitted
  <2>2. InOrder' BY DEF InOrder, TokenFollows, HandlerFollows, Admitted, Broken, Open
  <2> QED BY <2>1, <2>2
<1>21. ASSUME Restart PROVE TokenFollows' /\ InOrder'
  <2> USE <1>21 DEF Restart
  <2>1. TokenFollows' BY DEF TokenFollows
  <2>2. InOrder' BY DEF InOrder, Broken, Open
  <2> QED BY <2>1, <2>2
<1>22. ASSUME NEW c \in Conns, ReadFails(c) \/ ReadAuthFail(c) \/ Stop(c)
       PROVE  TokenFollows' /\ InOrder'
  BY <1>22, QuitInOrder DEF ReadFails, ReadAuthFail, Stop
<1>23. CASE UNCHANGED vars
  BY <1>23 DEF vars, TokenFollows, InOrder, Broken
<1> HIDE DEF HInv, SInv, TypeOK, GoTo, controller, mainConn, clipConn
<1> QED BY <1>1, <1>2, <1>3, <1>4, <1>5, <1>6, <1>7, <1>8, <1>9, <1>10, <1>11, <1>12, <1>13, <1>14, <1>15, <1>16, <1>17, <1>18, <1>19, <1>20, <1>21, <1>22, <1>23 DEF Next, Target, Connect

\* While the connection lasts, no read of the handshake waits for a message that
\* was not and will not be written, in any mode and whatever the target, the
\* users and the network do (handleConn's answers, and the reads of main,
\* runEdgeAware and negotiateUDPMouse).
THEOREM HandshakeServed == Spec => []HandshakeInStep
<1>1. HInv /\ [Next]_vars => HInv' BY HandshakeStep, StepInv DEF HInv
<1>2. HInv => HandshakeInStep
  <2> SUFFICES ASSUME HInv, NEW c \in Conns, ~Broken(c)
               PROVE  /\ ctl[c] = "auth" => (c \in auth /\ handler[c] = "auth") \/ down[c] # <<>>
                      /\ ctl[c] = "screen" => down[c] # <<>> /\ Head(down[c]) = "screen_info"
                      /\ ctl[c] = "key" => down[c] # <<>> /\ Head(down[c]) = "udp_key"
    BY DEF HandshakeInStep
  <2>1. ctl[c] = "auth" => (c \in auth /\ handler[c] = "auth") \/ down[c] # <<>>
    BY DEF HInv, TokenFollows, InOrder, Broken, Open
  <2>2. ctl[c] = "screen" => down[c] # <<>> /\ Head(down[c]) = "screen_info"
    BY ReadOff DEF HInv, InOrder
  <2>3. ctl[c] = "key" => down[c] # <<>> /\ Head(down[c]) = "udp_key"
    BY DEF HInv, InOrder
  <2> QED BY <2>1, <2>2, <2>3
<1> QED BY InitHandshake, <1>1, <1>2, PTL DEF Spec

----------------------------------------------------------------------------
\* What is trusted: the certificate and the stores of fingerprints.

\* A start that stores a certificate stores its own.
Own == \A t \in Starts : tpc[t] \in Storing => pair[t] = t

TypeInv == TrustTypeOK /\ Own

\* The map has the pins that were stored, but for an address.
HasBut(map, but) == \A a \in Addrs \ but : trusted[a] # Absent => map[a] = trusted[a]

\* As long as nothing is cut short or written from an old copy: the file has what
\* was stored, unless it is being rewritten, and so has every copy that is not
\* older than the file.
Stored ==
  ~raced /\ ~cutShort =>
    /\ known # Torn
    /\ (\A c \in Runs : cpc[c] # "writing") => HasBut(known, {})
    /\ \A c \in Runs :
         /\ c \notin stale /\ cpc[c] \in {"dialling", "asking"} => HasBut(pins[c], {})
         /\ c \notin stale /\ cpc[c] = "writing" => HasBut(pins[c], {addr[c]})
         /\ cpc[c] = "writing" => pins[c][addr[c]] = got[c]

Orderly == ~overlap /\ ~unreadable

\* Someone holds the pin p for the target's address, or is about to.
Pinned(p) ==
  \/ known # Torn /\ known[Here] = p
  \/ \E c \in Runs : pins[c][Here] = p
  \/ \E c \in Runs : cpc[c] \in {"asking", "writing"} /\ addr[c] = Here /\ got[c] = p

\* A start that stores a certificate is alone with the files.
Apart == ~overlap => \A t \in At(Storing), u \in At(Loading \cup Storing) : t = u

\* In an orderly history, a start uses the pair in the files, and one generates
\* only when nobody has used or pinned another.
Settled ==
  Orderly => \A t \in Starts :
    /\ tpc[t] \in {"listen", "serving"} => cert = pair[t] /\ key = pair[t]
    /\ tpc[t] = "readKey" => pair[t] = cert
    /\ tpc[t] \in {"storeKey", "writeKey"} => cert = t
    /\ tpc[t] \in Storing => /\ \A u \in Starts : tpc[u] \notin {"listen", "serving"}
                             /\ \A p \in Prints : ~Pinned(p)

\* So the pins are of the pair in the files ...
PinnedRight == Orderly => \A p \in Prints : Pinned(p) => cert = p /\ key = p

\* ... and those of the other address of what is always there.
OtherRight ==
  /\ known # Torn => known[There] \in {Absent, Other}
  /\ \A c \in Runs : /\ pins[c][There] \in {Absent, Other}
                     /\ cpc[c] \in {"asking", "writing"} /\ addr[c] = There => got[c] = Other

NoAlarm == Orderly => \A c \in Runs : cpc[c] # "alarmed"

TrustInv == Apart /\ Settled /\ PinnedRight /\ OtherRight /\ NoAlarm

PinInv == TypeInv /\ Stored /\ TrustInv

----------------------------------------------------------------------------
LEMMA InitPins == TrustInit => PinInv
<1> SUFFICES ASSUME TrustInit PROVE PinInv OBVIOUS
<1> USE DEF TrustInit
<1>1. TypeInv
  <2>1. NoPins \in Pins BY DEF NoPins, Pins
  <2>2. Own BY DEF Own, Storing
  <2>3. TrustTypeOK BY <2>1 DEF TrustTypeOK, Loading, Storing, Addrs
  <2> QED BY <2>2, <2>3 DEF TypeInv
<1>2. Stored
  <2>1. NoPins # Torn BY NamesAssumption DEF NoPins, Pins
  <2> QED BY <2>1 DEF Stored, HasBut, NoPins, Addrs
<1>3. At(Storing) = {} /\ \A p \in Prints : ~Pinned(p)
  BY NamesAssumption DEF At, Storing, Pinned, NoPins, Addrs, Prints
<1>4. Apart /\ NoAlarm BY <1>3 DEF Apart, NoAlarm
<1>5. Settled BY DEF Settled, Storing
<1>6. PinnedRight BY <1>3 DEF PinnedRight
<1>7. OtherRight BY DEF OtherRight, NoPins, Addrs
<1> QED BY <1>1, <1>2, <1>4, <1>5, <1>6, <1>7 DEF PinInv, TrustInv

----------------------------------------------------------------------------
\* The target's steps.

\* Labels of a start.
Labels == {"idle", "listen", "serving", "gone"} \cup Loading \cup Storing

LEMMA LabelSets ==
  /\ Loading \subseteq Labels /\ Storing \subseteq Labels /\ Loading \cap Storing = {}
  /\ {"idle", "listen", "serving", "gone"} \cap (Loading \cup Storing) = {}
  BY DEF Labels, Loading, Storing

LEMMA TargetTypes == ASSUME TypeInv, NEW t \in Starts, TargetStep(t) PROVE TypeInv'
<1> USE NamesAssumption DEF TypeInv, Goto, stores, Loading, Storing
<1>1. CASE StartTarget(t) BY <1>1 DEF StartTarget, TrustTypeOK, Own
<1>2. CASE ReadCert(t) BY <1>2 DEF ReadCert, TrustTypeOK, Own
<1>3. CASE ReadKey(t) BY <1>3 DEF ReadKey, TrustTypeOK, Own
<1>4. CASE Generate(t) BY <1>4 DEF Generate, TrustTypeOK, Own
<1>5. CASE TruncateCert(t) BY <1>5 DEF TruncateCert, TrustTypeOK, Own
<1>6. CASE WriteCert(t) BY <1>6 DEF WriteCert, TrustTypeOK, Own
<1>7. CASE TruncateKey(t) BY <1>7 DEF TruncateKey, TrustTypeOK, Own
<1>8. CASE WriteKey(t) BY <1>8 DEF WriteKey, TrustTypeOK, Own
<1>9. CASE Listen(t) BY <1>9 DEF Listen, TrustTypeOK, Own
<1>10. CASE Die(t) BY <1>10 DEF Die, TrustTypeOK, Own
<1> QED
  BY <1>1, <1>2, <1>3, <1>4, <1>5, <1>6, <1>7, <1>8, <1>9, <1>10 DEF TargetStep

\* Who holds which pin is up to the controllers.
LEMMA TargetPins == ASSUME UNCHANGED stores
                    PROVE  /\ \A p \in Prints : Pinned(p)' <=> Pinned(p)
                           /\ Stored <=> Stored'
                           /\ OtherRight <=> OtherRight'
  BY DEF stores, Pinned, Stored, HasBut, OtherRight

LEMMA Alone == ASSUME Apart, ~overlap, NEW t \in Starts, tpc[t] \in Storing,
                      NEW u \in Starts, u # t
               PROVE  tpc[u] \notin Loading \cup Storing
  BY DEF Apart, At

LEMMA GotoFacts == ASSUME TypeInv, NEW t \in Starts, NEW state, Goto(t, state)
                   PROVE  /\ tpc'[t] = state /\ \A u \in Starts \ {t} : tpc'[u] = tpc[u]
                          /\ UNCHANGED stores
                          /\ ~overlap' => ~overlap
                          /\ Apart'
<1>1. overlap \in BOOLEAN BY DEF TypeInv, TrustTypeOK
<1>2. overlap' = (overlap \/ \E u \in At(Storing)', v \in At(Loading \cup Storing)' : u # v)
  BY DEF Goto
<1>3. Apart' BY <1>2 DEF Apart
<1>4. ~overlap' => ~overlap BY <1>1, <1>2
<1> QED BY <1>3, <1>4 DEF Goto, TypeInv, TrustTypeOK

\* In an orderly history, who finds the files whole may use them, and who does
\* not finds that nobody does.
LEMMA Reading ==
  ASSUME TypeInv, TrustInv, Orderly, NEW t \in Starts, tpc[t] = "readKey"
  PROVE  /\ pair[t] = cert
         /\ \A u \in Starts : tpc[u] \notin Storing
         /\ ~(pair[t] \in Starts /\ key = pair[t]) =>
              /\ \A u \in Starts : tpc[u] \notin {"listen", "serving"}
              /\ \A p \in Prints : ~Pinned(p)
<1>1. pair[t] = cert BY DEF TrustInv, Settled
<1>2. \A u \in Starts : tpc[u] \notin Storing
  BY Alone DEF TrustInv, Orderly, Loading, Storing
<1>3. ASSUME NEW u \in Starts, tpc[u] \in {"listen", "serving"}
      PROVE  pair[t] \in Starts /\ key = pair[t]
  BY <1>1, <1>3 DEF TrustInv, Settled, TypeInv, TrustTypeOK
<1>4. ASSUME NEW p \in Prints, Pinned(p)
      PROVE  pair[t] \in Starts /\ key = pair[t]
  <2>1. cert = p /\ key = p BY <1>4 DEF TrustInv, PinnedRight
  <2>2. cert \in Starts \cup {Absent, Torn} BY DEF TypeInv, TrustTypeOK
  <2>3. cert \in Starts BY <2>1, <2>2, NamesAssumption
  <2> QED BY <1>1, <2>1, <2>3
<1> QED BY <1>1, <1>2, <1>3, <1>4

\* What a start makes of the files.
LEMMA TargetSettled ==
  ASSUME TypeInv, TrustInv, NEW t \in Starts, TargetStep(t), Orderly'
  PROVE  Orderly /\ Settled' /\ PinnedRight'
<1> USE DEF Orderly
<1>1. /\ \A u \in Starts \ {t} : tpc'[u] = tpc[u]
      /\ UNCHANGED stores
      /\ ~overlap
  BY GotoFacts DEF TargetStep, StartTarget, ReadCert, ReadKey, Generate, TruncateCert, WriteCert,
     TruncateKey, WriteKey, Listen, Die
<1>2. ~Generate(t) => unreadable' = unreadable
  BY DEF TargetStep, StartTarget, ReadCert, ReadKey, TruncateCert, WriteCert,
     TruncateKey, WriteKey, Listen, Die
<1>3. Generate(t) => unreadable' = (unreadable \/ (pair[t] \in Starts /\ key = pair[t]))
  BY DEF Generate
<1>4. unreadable \in BOOLEAN BY DEF TypeInv, TrustTypeOK
<1>5. Orderly /\ (Generate(t) => ~(pair[t] \in Starts /\ key = pair[t]))
  <2>1. CASE Generate(t) BY <1>1, <1>3, <1>4, <2>1
  <2>2. CASE ~Generate(t) BY <1>1, <1>2, <2>2
  <2> QED BY <2>1, <2>2
<1>6. \A p \in Prints : Pinned(p)' <=> Pinned(p) BY <1>1, TargetPins
<1>7. \A u \in Starts : tpc[t] \in Storing /\ u # t => tpc[u] \notin Loading \cup Storing
  BY <1>5, Alone DEF TrustInv
<1>8. Settled /\ PinnedRight BY DEF TrustInv
<1> USE DEF Goto
<1>9. CASE StartTarget(t)
  <2>1. Settled' BY <1>1, <1>5, <1>6, <1>7, <1>8, <1>9 DEF StartTarget, Settled, TypeInv, TrustTypeOK, Own, Loading, Storing
  <2>2. PinnedRight' BY <1>5, <1>6, <1>8, <1>9 DEF StartTarget, PinnedRight
  <2> QED BY <1>5, <2>1, <2>2
<1>10. CASE ReadCert(t)
  <2>1. Settled' BY <1>1, <1>5, <1>6, <1>7, <1>8, <1>10 DEF ReadCert, Settled, TypeInv, TrustTypeOK, Own, Loading, Storing
  <2>2. PinnedRight' BY <1>5, <1>6, <1>8, <1>10 DEF ReadCert, PinnedRight
  <2> QED BY <1>5, <2>1, <2>2
<1>11. CASE ReadKey(t)
  <2>1. Settled' BY <1>1, <1>5, <1>6, <1>7, <1>8, <1>11, Reading DEF ReadKey, Settled, TypeInv, TrustTypeOK, Own, Loading, Storing
  <2>2. PinnedRight' BY <1>5, <1>6, <1>8, <1>11 DEF ReadKey, PinnedRight
  <2> QED BY <1>5, <2>1, <2>2
<1>12. CASE Generate(t)
  <2>1. Settled' BY <1>1, <1>5, <1>6, <1>7, <1>8, <1>12, Reading DEF Generate, Settled, TypeInv, TrustTypeOK, Own, Loading, Storing
  <2>2. PinnedRight' BY <1>5, <1>6, <1>8, <1>12 DEF Generate, PinnedRight
  <2> QED BY <1>5, <2>1, <2>2
<1>13. CASE TruncateCert(t)
  <2>1. Settled' BY <1>1, <1>5, <1>6, <1>7, <1>8, <1>13 DEF TruncateCert, Settled, TypeInv, TrustTypeOK, Own, Loading, Storing
  <2>2. PinnedRight' BY <1>5, <1>6, <1>8, <1>13 DEF TruncateCert, PinnedRight, Settled, Storing
  <2> QED BY <1>5, <2>1, <2>2
<1>14. CASE WriteCert(t)
  <2>1. Settled' BY <1>1, <1>5, <1>6, <1>7, <1>8, <1>14 DEF WriteCert, Settled, TypeInv, TrustTypeOK, Own, Loading, Storing
  <2>2. PinnedRight' BY <1>5, <1>6, <1>8, <1>14 DEF WriteCert, PinnedRight, Settled, Storing
  <2> QED BY <1>5, <2>1, <2>2
<1>15. CASE TruncateKey(t)
  <2>1. Settled' BY <1>1, <1>5, <1>6, <1>7, <1>8, <1>15 DEF TruncateKey, Settled, TypeInv, TrustTypeOK, Own, Loading, Storing
  <2>2. PinnedRight' BY <1>5, <1>6, <1>8, <1>15 DEF TruncateKey, PinnedRight, Settled, Storing
  <2> QED BY <1>5, <2>1, <2>2
<1>16. CASE WriteKey(t)
  <2>1. Settled' BY <1>1, <1>5, <1>6, <1>7, <1>8, <1>16 DEF WriteKey, Settled, TypeInv, TrustTypeOK, Own, Loading, Storing
  <2>2. PinnedRight' BY <1>5, <1>6, <1>8, <1>16 DEF WriteKey, PinnedRight, Settled, Storing
  <2> QED BY <1>5, <2>1, <2>2
<1>17. CASE Listen(t)
  <2>1. Settled' BY <1>1, <1>5, <1>6, <1>7, <1>8, <1>17 DEF Listen, Settled, TypeInv, TrustTypeOK, Own, Loading, Storing
  <2>2. PinnedRight' BY <1>5, <1>6, <1>8, <1>17 DEF Listen, PinnedRight
  <2> QED BY <1>5, <2>1, <2>2
<1>18. CASE Die(t)
  <2>1. Settled' BY <1>1, <1>5, <1>6, <1>7, <1>8, <1>18 DEF Die, Settled, TypeInv, TrustTypeOK, Own, Loading, Storing
  <2>2. PinnedRight' BY <1>5, <1>6, <1>8, <1>18 DEF Die, PinnedRight
  <2> QED BY <1>5, <2>1, <2>2
<1> QED BY <1>9, <1>10, <1>11, <1>12, <1>13, <1>14, <1>15, <1>16, <1>17, <1>18 DEF TargetStep

LEMMA TargetInv == ASSUME PinInv, NEW t \in Starts, TargetStep(t) PROVE PinInv'
<1> USE DEF PinInv
<1>1. TypeInv' BY TargetTypes
<1>2. Apart' /\ UNCHANGED stores /\ (~overlap' => ~overlap)
  BY GotoFacts DEF TargetStep, StartTarget, ReadCert, ReadKey, Generate, TruncateCert, WriteCert,
     TruncateKey, WriteKey, Listen, Die
<1>3. Orderly' => Orderly /\ Settled' /\ PinnedRight' BY TargetSettled
<1>4. Stored' /\ OtherRight' BY <1>2, TargetPins DEF TrustInv
<1>5. Settled' /\ PinnedRight' BY <1>3 DEF Settled, PinnedRight
<1>6. NoAlarm' BY <1>2, <1>3 DEF TrustInv, NoAlarm, stores
<1> QED BY <1>1, <1>2, <1>4, <1>5, <1>6 DEF TrustInv

----------------------------------------------------------------------------
\* The controllers' steps.

LEMMA ShownPrints == ASSUME TypeInv, NEW a \in Addrs
                     PROVE  /\ Shown(a) \subseteq Prints
                            /\ a = There => Shown(a) = {Other}
                            /\ a = Here => Shown(a) = {pair[t] : t \in At({"serving"})}
  BY NamesAssumption DEF Shown, At, Prints, Addrs, TypeInv, TrustTypeOK

LEMMA ControllerTypes == ASSUME TypeInv, NEW c \in Runs, ControllerStep(c) PROVE TypeInv'
<1> USE DEF TypeInv, Move
<1>1. UNCHANGED target => Own' /\ UNCHANGED <<cert, key, tpc, pair, overlap, unreadable>>
  BY DEF Own, target
<1>2. NoPins \in Pins BY DEF NoPins, Pins
<1>3. ASSUME NEW a \in Addrs, OpenKnownHosts(c, a) PROVE TypeInv'
  BY <1>1, <1>3 DEF OpenKnownHosts, TrustTypeOK
<1>4. CASE Recognise(c) BY <1>1, <1>4 DEF Recognise, TrustTypeOK
<1>5. CASE Ask(c)
  <2>1. PICK print \in Shown(addr[c]) : got' = [got EXCEPT ![c] = print] BY <1>5 DEF Ask
  <2>2. print \in Prints BY <2>1, ShownPrints DEF TrustTypeOK
  <2> QED BY <1>1, <1>5, <2>1, <2>2 DEF Ask, TrustTypeOK
<1>6. CASE TrustPin(c)
  <2>1. pins' = [pins EXCEPT ![c][addr[c]] = got[c]] BY <1>6 DEF TrustPin
  <2>2. [pins[c] EXCEPT ![addr[c]] = got[c]] \in Pins BY DEF TrustTypeOK, Pins
  <2>3. pins' \in [Runs -> Pins] BY <2>1, <2>2 DEF TrustTypeOK
  <2> QED BY <1>1, <1>2, <1>6, <2>3 DEF TrustPin, TrustTypeOK
<1>7. CASE Written(c)
  <2>1. trusted' \in Pins BY <1>7 DEF Written, TrustTypeOK, Pins
  <2>2. stale' \subseteq Runs BY <1>7 DEF Written, TrustTypeOK
  <2>3. raced' \in BOOLEAN BY <1>7 DEF Written, TrustTypeOK
  <2> QED BY <1>1, <1>7, <2>1, <2>2, <2>3 DEF Written, TrustTypeOK
<1>8. CASE CutShort(c) BY <1>1, <1>2, <1>8 DEF CutShort, TrustTypeOK
<1>9. CASE Leave(c) BY <1>1, <1>9 DEF Leave, TrustTypeOK
<1> QED BY <1>3, <1>4, <1>5, <1>6, <1>7, <1>8, <1>9 DEF ControllerStep

\* The copies and the file.
LEMMA ControllerStored == ASSUME TypeInv, Stored, NEW c \in Runs, ControllerStep(c) PROVE Stored'
<1> USE DEF Move
<1>1. ASSUME NEW a \in Addrs, OpenKnownHosts(c, a) PROVE Stored'
  BY <1>1 DEF OpenKnownHosts, Stored, HasBut, TypeInv, TrustTypeOK
<1>2. CASE Recognise(c) BY <1>2 DEF Recognise, Stored, HasBut, TypeInv, TrustTypeOK
<1>3. CASE Ask(c) BY <1>3 DEF Ask, Stored, HasBut, TypeInv, TrustTypeOK
<1>4. CASE TrustPin(c)
  <2>1. NoPins # Torn BY NamesAssumption DEF NoPins, Pins
  <2> QED BY <1>4, <2>1 DEF TrustPin, Stored, HasBut, TypeInv, TrustTypeOK, Pins
<1>5. CASE Written(c)
  <2>1. pins[c] # Torn BY NamesAssumption DEF TypeInv, TrustTypeOK
  <2> QED BY <1>5, <2>1 DEF Written, Stored, HasBut, TypeInv, TrustTypeOK, Pins
<1>6. CASE CutShort(c) BY <1>6 DEF CutShort, Stored
<1>7. CASE Leave(c) BY <1>7 DEF Leave, Stored, HasBut, TypeInv, TrustTypeOK
<1> QED BY <1>1, <1>2, <1>3, <1>4, <1>5, <1>6, <1>7 DEF ControllerStep

\* A new pin is of a target that serves.
LEMMA NewPins ==
  ASSUME TypeInv, OtherRight, NEW c \in Runs, ControllerStep(c), NEW p \in Prints, Pinned(p)'
  PROVE  Pinned(p) \/ \E t \in At({"serving"}) : pair[t] = p
<1> USE DEF Move
<1>1. ASSUME NEW a \in Addrs, OpenKnownHosts(c, a) PROVE Pinned(p)
  BY <1>1 DEF OpenKnownHosts, Pinned, TypeInv, TrustTypeOK
<1>2. CASE Recognise(c) BY <1>2 DEF Recognise, Pinned, TypeInv, TrustTypeOK
<1>3. CASE Ask(c) BY <1>3, ShownPrints DEF Ask, Pinned, TypeInv, TrustTypeOK
<1>4. CASE TrustPin(c)
  BY <1>4, NamesAssumption DEF TrustPin, Pinned, NoPins, TypeInv, TrustTypeOK, Pins, Addrs
<1>5. CASE Written(c) BY <1>5 DEF Written, Pinned, TypeInv, TrustTypeOK
<1>6. CASE CutShort(c)
  BY <1>6, NamesAssumption DEF CutShort, Pinned, NoPins, TypeInv, TrustTypeOK, Addrs
<1>7. CASE Leave(c) BY <1>7 DEF Leave, Pinned, TypeInv, TrustTypeOK
<1> QED BY <1>1, <1>2, <1>3, <1>4, <1>5, <1>6, <1>7 DEF ControllerStep

LEMMA ControllerOther == ASSUME TypeInv, OtherRight, NEW c \in Runs, ControllerStep(c)
                         PROVE  OtherRight'
<1> USE DEF Move
<1>1. ASSUME NEW a \in Addrs, OpenKnownHosts(c, a) PROVE OtherRight'
  BY <1>1 DEF OpenKnownHosts, OtherRight, TypeInv, TrustTypeOK
<1>2. CASE Recognise(c) BY <1>2 DEF Recognise, OtherRight, TypeInv, TrustTypeOK
<1>3. CASE Ask(c) BY <1>3, ShownPrints DEF Ask, OtherRight, TypeInv, TrustTypeOK
<1>4. CASE TrustPin(c)
  BY <1>4 DEF TrustPin, OtherRight, NoPins, TypeInv, TrustTypeOK, Pins, Addrs
<1>5. CASE Written(c) BY <1>5 DEF Written, OtherRight, TypeInv, TrustTypeOK
<1>6. CASE CutShort(c) BY <1>6 DEF CutShort, OtherRight, NoPins, TypeInv, TrustTypeOK, Addrs
<1>7. CASE Leave(c) BY <1>7 DEF Leave, OtherRight, TypeInv, TrustTypeOK
<1> QED BY <1>1, <1>2, <1>3, <1>4, <1>5, <1>6, <1>7 DEF ControllerStep

\* A pin decides rightly.
LEMMA NoNewAlarm ==
  ASSUME TypeInv, TrustInv, Orderly, NEW c \in Runs, Recognise(c)
  PROVE  cpc'[c] = "done"
<1>1. PICK print \in Shown(addr[c]) :
        cpc' = [cpc EXCEPT ![c] = IF print = pins[c][addr[c]] THEN "done" ELSE "alarmed"]
  BY DEF Recognise, Move
<1>2. addr[c] \in Addrs /\ pins[c][addr[c]] \in Prints
  BY DEF Recognise, TypeInv, TrustTypeOK, Pins
<1>3. print = pins[c][addr[c]]
  <2>1. CASE addr[c] = There
    BY <1>1, <1>2, <2>1, ShownPrints DEF Recognise, TrustInv, OtherRight
  <2>2. CASE addr[c] = Here
    <3>1. PICK t \in Starts : tpc[t] = "serving" /\ print = pair[t]
      BY <1>1, <1>2, <2>2, ShownPrints DEF At
    <3>2. Pinned(pins[c][Here]) BY DEF Pinned
    <3> QED BY <1>2, <2>2, <3>1, <3>2 DEF TrustInv, Settled, PinnedRight
  <2> QED BY <1>2, <2>1, <2>2 DEF Addrs
<1> QED BY <1>1, <1>3 DEF TypeInv, TrustTypeOK

LEMMA ControllerInv == ASSUME PinInv, NEW c \in Runs, ControllerStep(c) PROVE PinInv'
<1> USE DEF PinInv
<1>1. UNCHANGED <<cert, key, tpc, pair, overlap, unreadable>>
  BY DEF ControllerStep, OpenKnownHosts, Recognise, Ask, TrustPin, Written, CutShort, Leave, Move, target
<1>2. TypeInv' /\ Stored' /\ OtherRight'
  BY ControllerTypes, ControllerStored, ControllerOther DEF TrustInv
<1>3. \A p \in Prints : Pinned(p)' => Pinned(p) \/ \E t \in Starts : tpc[t] = "serving" /\ pair[t] = p
  BY NewPins DEF TrustInv, At
<1>4. Apart' BY <1>1 DEF TrustInv, Apart, At
<1>5. Settled' BY <1>1, <1>3 DEF TrustInv, Settled, Orderly
<1>6. PinnedRight' BY <1>1, <1>3 DEF TrustInv, PinnedRight, Settled, Orderly
<1>7. NoAlarm'
  <2>1. SUFFICES ASSUME Orderly, NEW d \in Runs PROVE cpc'[d] # "alarmed"
    BY <1>1 DEF NoAlarm, Orderly
  <2>2. cpc[d] # "alarmed" BY <2>1 DEF TrustInv, NoAlarm
  <2>3. CASE Recognise(c)
    BY <2>1, <2>2, <2>3, NoNewAlarm DEF Recognise, Move, TypeInv, TrustTypeOK
  <2>4. CASE ~Recognise(c)
    BY <2>2, <2>4 DEF ControllerStep, OpenKnownHosts, Ask, TrustPin, Written, CutShort, Leave, Move,
       TypeInv, TrustTypeOK
  <2> QED BY <2>3, <2>4
<1> QED BY <1>2, <1>4, <1>5, <1>6, <1>7 DEF TrustInv

----------------------------------------------------------------------------
LEMMA PinsHold == TrustSpec => []PinInv
<1>1. PinInv /\ [TrustNext]_trustVars => PinInv'
  <2> SUFFICES ASSUME PinInv, [TrustNext]_trustVars PROVE PinInv' OBVIOUS
  <2>1. CASE UNCHANGED trustVars
    BY <2>1 DEF trustVars, target, stores, PinInv, TypeInv, TrustTypeOK, Own, Stored, HasBut, TrustInv, Apart,
       Settled, PinnedRight, Pinned, OtherRight, NoAlarm, Orderly, At
  <2> QED BY <2>1, TargetInv, ControllerInv DEF TrustNext
<1> QED BY <1>1, InitPins, PTL DEF TrustSpec

\* The files hold what a start or a store may have written, and who listens has a
\* certificate.
THEOREM TrustTypes == TrustSpec => []TrustTypeOK
<1>1. PinInv => TrustTypeOK BY DEF PinInv, TypeInv
<1> QED BY <1>1, PinsHold, PTL

\* A stored pin is there until a run that had an older copy, or that was cut
\* short, has rewritten the file (tlsutil.go:131-143), for any number of runs.
THEOREM PinsAreKept == TrustSpec => []PinsKept
<1>1. PinInv => PinsKept BY DEF PinInv, Stored, HasBut, PinsKept
<1> QED BY <1>1, PinsHold, PTL

\* A controller warns only after two starts generated at a time, or one could not
\* read files that were whole (tlsutil.go:32-79, main.go:187-194), for any number
\* of starts, crashes between any two writes, and runs.
THEOREM AlarmsJustified == TrustSpec => []AlarmJustified
<1>1. PinInv => AlarmJustified BY DEF PinInv, TrustInv, NoAlarm, Orderly, AlarmJustified
<1> QED BY <1>1, PinsHold, PTL

=============================================================================
