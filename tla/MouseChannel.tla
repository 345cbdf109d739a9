---------------------------- MODULE MouseChannel ----------------------------
(***************************************************************************)
(* The UDP mouse channel (-udp-mouse): absolute cursor positions in        *)
(* datagrams beside the connection that carries everything else.           *)
(*                                                                         *)
(* A target (cmd/target/main.go) serves one connection at a time.  It      *)
(* makes a key for the session, arms the state it shares with the reader   *)
(* of the UDP socket, and sends the key.  The controller                   *)
(* (cmd/controller/edge_windows.go) numbers its positions; when a send     *)
(* fails it moves to the connection for the rest of the session.  A        *)
(* controller whose connection is gone may not know it yet and go on       *)
(* sending, and datagrams of any session may arrive late, twice, in any    *)
(* order or never.                                                         *)
(*                                                                         *)
(* A session stands for its key: a tag verifies only under the key it was  *)
(* made with (internal/mousesync).  A position is the number of the move   *)
(* it belongs to.  Sessions that do not ask for the channel do not appear. *)
(***************************************************************************)
EXTENDS Integers, Sequences

CONSTANTS
  Nothing,      \* no session, no key, no position
  Blocked,      \* the target's UDP port takes no datagrams
  MaxSessions,  \* bound on the number of sessions
  MaxMoves      \* bound on the moves of a session

ASSUME BlockedAssumption == Blocked \in BOOLEAN
ASSUME BoundsAssumption == MaxSessions \in Nat /\ MaxMoves \in Nat

Sessions == 1 .. MaxSessions

Position(s, n) == [session |-> s, seq |-> n]

Positions == [session : Sessions, seq : 1 .. MaxMoves]

ASSUME NothingAssumption == Nothing \notin Sessions \cup Positions

VARIABLES
  session,  \* history: the latest session whose key was made
  pc,       \* where the controller of each session is
  udp,      \* udpMouse # nil
  moves,    \* its moves so far; as long as udp holds, udpMouse.seq
  broken,   \* the connection is gone
  tcp,      \* moves under way on the connection
  net,      \* datagrams under way
  active,   \* the session whose connection has the target's slot
  phase,    \* where handleConn is with it
  key,      \* udpMouseSession's fields
  lastSeq,
  due,      \* the position that apply is about to warp the cursor to
  shown,    \* history: the latest position it did warp to
  arrived,  \* history: the newest move of each session the target acted on
  lost      \* history: datagrams that the network lost

controllers == <<pc, udp, moves>>
network == <<broken, tcp, net, lost>>
slot == <<active, phase>>
udpSess == <<key, lastSeq, due, shown>>
vars == <<session, controllers, network, slot, udpSess, arrived>>

TypeOK ==
  /\ session \in 0 .. MaxSessions
  /\ pc \in [Sessions -> {"off", "waiting", "keyed", "running", "gone"}]
  /\ udp \in [Sessions -> BOOLEAN]
  /\ moves \in [Sessions -> 0 .. MaxMoves]
  /\ broken \in [Sessions -> BOOLEAN]
  /\ tcp \in [Sessions -> Seq(1 .. MaxMoves)]
  /\ net \subseteq Positions
  /\ active \in Sessions \cup {Nothing}
  /\ phase \in {"free", "greeting", "serving", "closing"}
  /\ key \in Sessions \cup {Nothing}
  /\ lastSeq \in 0 .. MaxMoves
  /\ due \in Positions \cup {Nothing}
  /\ shown \in Positions \cup {Nothing}
  /\ arrived \in [Sessions -> 0 .. MaxMoves]
  /\ lost \subseteq Positions

Init ==
  /\ session = 0
  /\ pc = [s \in Sessions |-> "off"]
  /\ udp = [s \in Sessions |-> FALSE]
  /\ moves = [s \in Sessions |-> 0]
  /\ broken = [s \in Sessions |-> FALSE]
  /\ tcp = [s \in Sessions |-> <<>>]
  /\ net = {}
  /\ active = Nothing
  /\ phase = "free"
  /\ key = Nothing
  /\ lastSeq = 0
  /\ due = Nothing
  /\ shown = Nothing
  /\ arrived = [s \in Sessions |-> 0]
  /\ lost = {}

----------------------------------------------------------------------------
\* The target's connection goroutine.

\* A controller connects and gets the slot.
Accept ==
  /\ active = Nothing
  /\ \E s \in Sessions :
       /\ \A t \in Sessions : pc[t] = "off" <=> t >= s
       /\ active' = s
       /\ pc' = [pc EXCEPT ![s] = "waiting"]
  /\ phase' = "greeting"
  /\ UNCHANGED <<session, udp, moves, network, udpSess, arrived>>

\* Mutant of start: the sequence number of the previous session is kept.
startKeepingSeq(s) == key' = s /\ UNCHANGED lastSeq

start(s) == key' = s /\ lastSeq' = 0

stop == key' = Nothing /\ UNCHANGED lastSeq

\* enableUDPMouse: the session is armed, then the key is sent ...
EnableUDPMouse ==
  /\ phase = "greeting"
  /\ ~broken[active]
  /\ start(active)
  /\ session' = active
  /\ phase' = "serving"
  /\ pc' = [pc EXCEPT ![active] = IF @ = "waiting" THEN "keyed" ELSE @]
  /\ UNCHANGED <<udp, moves, network, active, due, shown, arrived>>

\* ... and disarmed if that fails, in which case nothing can be read either.
EnableUDPMouseFails ==
  /\ phase = "greeting"
  /\ broken[active]
  /\ phase' = "closing"
  /\ stop
  /\ UNCHANGED <<session, controllers, network, active, due, shown, arrived>>

Later(n, m) == IF n > m THEN n ELSE m

\* dispatch: a move that came over the connection.
Dispatch ==
  /\ phase = "serving"
  /\ tcp[active] # <<>>
  /\ tcp' = [tcp EXCEPT ![active] = Tail(@)]
  /\ arrived' = [arrived EXCEPT ![active] = Later(@, Head(tcp[active]))]
  /\ UNCHANGED <<session, controllers, broken, net, lost, slot, udpSess>>

\* There is nothing left to read, or nothing to read from.
Eof == broken[active] \/ (pc[active] = "gone" /\ tcp[active] = <<>>)

\* Mutant of Hangup: the channel stays armed.
HangupStillArmed ==
  /\ phase = "serving"
  /\ Eof
  /\ phase' = "closing"
  /\ UNCHANGED <<session, controllers, network, active, udpSess, arrived>>

\* handleConn returns, its deferred stop first ...
Hangup ==
  /\ phase = "serving"
  /\ Eof
  /\ phase' = "closing"
  /\ stop
  /\ UNCHANGED <<session, controllers, network, active, due, shown, arrived>>

\* ... and then the slot is freed.
FreeSlot ==
  /\ phase = "closing"
  /\ active' = Nothing
  /\ phase' = "free"
  /\ UNCHANGED <<session, controllers, network, udpSess, arrived>>

----------------------------------------------------------------------------
\* The reader of the UDP socket.

\* Mutant of Fresh: a position is not superseded by itself.
FreshOrSame(d) == d.session = key /\ d.seq >= lastSeq

\* The datagram verifies and is newer than any before it.
Fresh(d) == d.session = key /\ d.seq > lastSeq

\* apply up to the unlock.  A datagram that is not fresh is dropped.
Apply(d) ==
  IF Fresh(d)
  THEN /\ lastSeq' = d.seq
       /\ due' = d
       /\ arrived' = [arrived EXCEPT ![d.session] = Later(@, d.seq)]
  ELSE UNCHANGED <<lastSeq, due, arrived>>

\* Another copy of the datagram may be on its way.
Receive(d, last) ==
  /\ ~Blocked
  /\ due = Nothing
  /\ d \in net
  /\ net' = IF last THEN net \ {d} ELSE net
  /\ Apply(d)
  /\ UNCHANGED <<session, controllers, broken, tcp, lost, slot, key, shown>>

\* apply after the unlock: the cursor is warped, or refuses to be.
Warp ==
  /\ due # Nothing
  /\ shown' \in {due, shown}
  /\ due' = Nothing
  /\ UNCHANGED <<session, controllers, network, slot, key, lastSeq, arrived>>

----------------------------------------------------------------------------
\* The controllers.  One of an earlier session may still be running.

\* negotiateUDPMouse: the key arrives and the dial succeeds, or not; either
\* way the controller carries on.
NegotiateUDPMouse(s) ==
  /\ pc[s] = "keyed"
  /\ pc' = [pc EXCEPT ![s] = "running"]
  /\ \E up \in BOOLEAN : udp' = [udp EXCEPT ![s] = up]
  /\ UNCHANGED <<session, moves, network, slot, udpSess, arrived>>

\* The user moves the mouse while the controller is engaged.
Move(s) ==
  /\ pc[s] = "running"
  /\ moves[s] < MaxMoves
  /\ moves' = [moves EXCEPT ![s] = @ + 1]
  /\ UNCHANGED <<session, pc, broken, lost, slot, udpSess, arrived>>

\* The count goes up, then the position is sent.
sendPosition(s) == net' = net \cup {Position(s, moves[s] + 1)}

MoveOverUDP(s) ==
  /\ udp[s]
  /\ sendPosition(s)
  /\ Move(s)
  /\ UNCHANGED <<udp, tcp>>

\* Without the channel, or when its send fails and it is given up, the move
\* goes over the connection, which may be gone without the controller knowing.
MoveOverTCP(s) ==
  /\ udp' = [udp EXCEPT ![s] = FALSE]
  /\ tcp' = IF broken[s] THEN tcp ELSE [tcp EXCEPT ![s] = Append(@, moves[s] + 1)]
  /\ Move(s)
  /\ UNCHANGED net

\* The controller is interrupted, or gives up on its connection.
Quit(s) ==
  /\ pc[s] \in {"waiting", "keyed", "running"}
  /\ pc' = [pc EXCEPT ![s] = "gone"]
  /\ UNCHANGED <<session, udp, moves, network, slot, udpSess, arrived>>

----------------------------------------------------------------------------
\* The network.

\* The connection breaks, with what was under way on it.
Break(s) ==
  /\ pc[s] # "off"
  /\ ~broken[s]
  /\ broken' = [broken EXCEPT ![s] = TRUE]
  /\ tcp' = [tcp EXCEPT ![s] = <<>>]
  /\ UNCHANGED <<session, controllers, net, lost, slot, udpSess, arrived>>

Lose(d) ==
  /\ d \in net
  /\ net' = net \ {d}
  /\ lost' = lost \cup {d}
  /\ UNCHANGED <<session, controllers, broken, tcp, slot, udpSess, arrived>>

Next ==
  \/ Accept \/ EnableUDPMouse \/ EnableUDPMouseFails \/ Dispatch \/ Hangup \/ FreeSlot
  \/ \E d \in net : (\E last \in BOOLEAN : Receive(d, last)) \/ Lose(d)
  \/ Warp
  \/ \E s \in Sessions :
       NegotiateUDPMouse(s) \/ MoveOverUDP(s) \/ MoveOverTCP(s) \/ Quit(s) \/ Break(s)

Spec == Init /\ [][Next]_vars

\* Both goroutines of the target run, and what the network does not lose it
\* delivers.
Fairness ==
  /\ WF_vars(Dispatch)
  /\ WF_vars(Warp)
  /\ \A d \in Positions : WF_vars(Receive(d, TRUE))

FairSpec == Spec /\ Fairness

----------------------------------------------------------------------------
\* The state that the connection and the reader share is armed for the session
\* whose connection has the slot, from the moment its key is sent until its
\* handler is done: neither an earlier session's stop nor its datagrams touch
\* its successor's (cmd/target/main.go:246-249).
KeyFollowsSlot == key = IF phase = "serving" THEN active ELSE Nothing

\* Newest position wins, within a session and across them
\* (docs/architecture.md:95-105).
Latest == INSTANCE LatestPosition WITH
  open <- key # Nothing,
  sent <- IF session = 0 THEN 0 ELSE moves[session],
  taken <- lastSeq

ImplementsLatest == Latest!Spec

\* The controller and the connection of s are up, and the target serves it.
Serving(s) == phase = "serving" /\ active = s /\ pc[s] = "running" /\ ~broken[s]

\* A move gets to the target, or a newer one does, unless the network loses
\* its datagram or the session ends: a channel that cannot be set up or fails
\* does not stop the mouse (README.md:142-144, docs/architecture.md:112-115).
\* The code does not keep this when the target's UDP port is blocked.
MovesArrive ==
  \A s \in Sessions : \A n \in 1 .. MaxMoves :
    (Serving(s) /\ moves[s] = n)
      ~> (arrived[s] >= n \/ Position(s, n) \in lost \/ ~Serving(s))

=============================================================================
