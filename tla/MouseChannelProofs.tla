------------------------- MODULE MouseChannelProofs -------------------------
(***************************************************************************)
(* For every number of sessions and moves: the shared UDP session follows  *)
(* the slot, and the channel implements LatestPosition.                    *)
(***************************************************************************)
EXTENDS MouseChannel, TLAPS

\* Sessions are numbered in the order they connect, the one being greeted comes
\* after the latest that got a key, and the one being served is that one.
SlotOrder ==
  /\ phase = "free" <=> active = Nothing
  /\ phase = "greeting" => active > session
  /\ phase = "serving" => active = session
  /\ active # Nothing => pc[active] # "off"
  /\ \A s, t \in Sessions : pc[s] = "off" /\ t >= s => pc[t] = "off"
  /\ \A s \in Sessions : s <= session => pc[s] # "off"

\* Without a key there is no move, and a datagram carries one that was made.
MovesMade ==
  /\ \A s \in Sessions : s > session => pc[s] \notin {"keyed", "running"} /\ moves[s] = 0
  /\ \A d \in net : d.seq <= moves[d.session]

CInv == TypeOK /\ SlotOrder /\ MovesMade /\ KeyFollowsSlot

USE BoundsAssumption, NothingAssumption

LEMMA InitInv == Init => CInv
  BY DEF Init, CInv, TypeOK, SlotOrder, MovesMade, KeyFollowsSlot, Sessions, Positions

\* The arithmetic of Later, and what a position is.
LEMMA LaterType == ASSUME NEW n \in 0 .. MaxMoves, NEW m \in 0 .. MaxMoves
                   PROVE  Later(n, m) \in 0 .. MaxMoves
  BY DEF Later

\* What is left of a queue, and what is taken from it.
LEMMA HeadTail == ASSUME NEW S, NEW q \in Seq(S), q # <<>>
                  PROVE  Head(q) \in S /\ Tail(q) \in Seq(S)
  OBVIOUS

LEMMA PositionType ==
  /\ \A s \in Sessions, n \in 1 .. MaxMoves : Position(s, n) \in Positions
  /\ \A d \in Positions : /\ d.session \in Sessions
                          /\ d.seq \in 1 .. MaxMoves
                          /\ d = Position(d.session, d.seq)
  BY DEF Position, Positions

\* Every variable stays what it is meant to hold.
LEMMA TypeStep == ASSUME CInv, [Next]_vars PROVE TypeOK'
<1> USE DEF CInv, TypeOK, controllers, network, slot, udpSess
<1>1. CASE Accept BY <1>1 DEF Accept
<1>2. CASE EnableUDPMouse
  <2>1. active \in Sessions BY <1>2 DEF EnableUDPMouse, SlotOrder
  <2> QED BY <1>2, <2>1 DEF EnableUDPMouse, start, Sessions
<1>3. CASE EnableUDPMouseFails BY <1>3 DEF EnableUDPMouseFails, stop
<1>4. CASE Dispatch
  <2>1. active \in Sessions BY <1>4 DEF Dispatch, SlotOrder
  <2>2. tcp[active] \in Seq(1 .. MaxMoves) /\ tcp[active] # <<>>
    BY <1>4, <2>1 DEF Dispatch
  <2>3. Head(tcp[active]) \in 1 .. MaxMoves /\ Tail(tcp[active]) \in Seq(1 .. MaxMoves)
    BY <2>2, HeadTail
  <2>4. Later(arrived[active], Head(tcp[active])) \in 0 .. MaxMoves
    <3>1. arrived[active] \in 0 .. MaxMoves /\ Head(tcp[active]) \in 0 .. MaxMoves
      BY <2>1, <2>3
    <3> QED BY <3>1, LaterType
  <2>5. tcp' \in [Sessions -> Seq(1 .. MaxMoves)] BY <1>4, <2>3 DEF Dispatch
  <2>6. arrived' \in [Sessions -> 0 .. MaxMoves] BY <1>4, <2>4 DEF Dispatch
  <2> QED BY <1>4, <2>5, <2>6 DEF Dispatch
<1>5. CASE Hangup BY <1>5 DEF Hangup, stop
<1>6. CASE FreeSlot BY <1>6 DEF FreeSlot
<1>7. ASSUME NEW d \in net, NEW last \in BOOLEAN, Receive(d, last) PROVE TypeOK'
  <2>1. d \in Positions /\ net' \subseteq Positions BY <1>7 DEF Receive
  <2>2. d.session \in Sessions /\ d.seq \in 1 .. MaxMoves BY <2>1, PositionType
  <2>3. Later(arrived[d.session], d.seq) \in 0 .. MaxMoves
    <3>1. arrived[d.session] \in 0 .. MaxMoves /\ d.seq \in 0 .. MaxMoves BY <2>2
    <3> QED BY <3>1, LaterType
  <2>4. lastSeq' \in 0 .. MaxMoves /\ due' \in Positions \cup {Nothing}
    BY <1>7, <2>1, <2>2 DEF Receive, Apply
  <2>5. arrived' \in [Sessions -> 0 .. MaxMoves] BY <1>7, <2>3 DEF Receive, Apply
  <2> QED BY <1>7, <2>1, <2>4, <2>5 DEF Receive
<1>8. ASSUME NEW d \in net, Lose(d) PROVE TypeOK' BY <1>8 DEF Lose
<1>9. CASE Warp BY <1>9 DEF Warp
<1>10. ASSUME NEW s \in Sessions, NegotiateUDPMouse(s) PROVE TypeOK'
  BY <1>10 DEF NegotiateUDPMouse
<1>11. ASSUME NEW s \in Sessions, MoveOverUDP(s) PROVE TypeOK'
  <2>1. moves[s] + 1 \in 1 .. MaxMoves BY <1>11 DEF MoveOverUDP, Move
  <2>2. Position(s, moves[s] + 1) \in Positions BY <2>1, PositionType
  <2>3. net' \subseteq Positions BY <1>11, <2>2 DEF MoveOverUDP, sendPosition
  <2>4. moves' \in [Sessions -> 0 .. MaxMoves] BY <1>11, <2>1 DEF MoveOverUDP, Move
  <2> QED BY <1>11, <2>3, <2>4 DEF MoveOverUDP, Move
<1>12. ASSUME NEW s \in Sessions, MoveOverTCP(s) PROVE TypeOK'
  <2>1. moves[s] + 1 \in 1 .. MaxMoves BY <1>12 DEF MoveOverTCP, Move
  <2>2. Append(tcp[s], moves[s] + 1) \in Seq(1 .. MaxMoves) BY <2>1
  <2>3. tcp' \in [Sessions -> Seq(1 .. MaxMoves)] BY <1>12, <2>2 DEF MoveOverTCP
  <2>4. moves' \in [Sessions -> 0 .. MaxMoves] BY <1>12, <2>1 DEF MoveOverTCP, Move
  <2> QED BY <1>12, <2>3, <2>4 DEF MoveOverTCP, Move
<1>13. ASSUME NEW s \in Sessions, Quit(s) PROVE TypeOK' BY <1>13 DEF Quit
<1>14. ASSUME NEW s \in Sessions, Break(s) PROVE TypeOK' BY <1>14 DEF Break
<1>15. CASE UNCHANGED vars BY <1>15 DEF vars
<1> HIDE DEF CInv, TypeOK, controllers, network, slot, udpSess
<1> QED BY <1>1, <1>2, <1>3, <1>4, <1>5, <1>6, <1>7, <1>8, <1>9, <1>10, <1>11,
           <1>12, <1>13, <1>14, <1>15 DEF Next

\* The slot and the numbering of the sessions.  Only Accept, the two ends of the
\* greeting, Hangup, FreeSlot and the controllers' own steps touch them.
LEMMA OrderStep == ASSUME CInv, [Next]_vars PROVE SlotOrder'
<1> USE DEF CInv, TypeOK, SlotOrder, controllers, network, slot, udpSess, Sessions
<1>1. CASE Accept BY <1>1 DEF Accept
<1>2. CASE EnableUDPMouse BY <1>2 DEF EnableUDPMouse
<1>3. CASE EnableUDPMouseFails BY <1>3 DEF EnableUDPMouseFails
<1>4. CASE Dispatch BY <1>4 DEF Dispatch
<1>5. CASE Hangup BY <1>5 DEF Hangup
<1>6. CASE FreeSlot BY <1>6 DEF FreeSlot
<1>7. ASSUME NEW d \in net, NEW last \in BOOLEAN, Receive(d, last) PROVE SlotOrder'
  BY <1>7 DEF Receive
<1>8. ASSUME NEW d \in net, Lose(d) PROVE SlotOrder' BY <1>8 DEF Lose
<1>9. CASE Warp BY <1>9 DEF Warp
<1>10. ASSUME NEW s \in Sessions, NegotiateUDPMouse(s) PROVE SlotOrder'
  BY <1>10 DEF NegotiateUDPMouse
<1>11. ASSUME NEW s \in Sessions, MoveOverUDP(s) \/ MoveOverTCP(s) PROVE SlotOrder'
  BY <1>11 DEF MoveOverUDP, MoveOverTCP, Move
<1>13. ASSUME NEW s \in Sessions, Quit(s) PROVE SlotOrder' BY <1>13 DEF Quit
<1>14. ASSUME NEW s \in Sessions, Break(s) PROVE SlotOrder' BY <1>14 DEF Break
<1>15. CASE UNCHANGED vars BY <1>15 DEF vars
<1> QED BY <1>1, <1>2, <1>3, <1>4, <1>5, <1>6, <1>7, <1>8, <1>9, <1>10, <1>11,
           <1>13, <1>14, <1>15 DEF Next

LEMMA MovesStep == ASSUME CInv, [Next]_vars PROVE MovesMade'
<1> USE DEF CInv, TypeOK, MovesMade, controllers, network, slot, udpSess
<1>1. CASE Accept BY <1>1 DEF Accept
<1>2. CASE EnableUDPMouse
  <2>1. active \in Sessions /\ active > session BY <1>2 DEF EnableUDPMouse, SlotOrder
  <2> QED BY <1>2, <2>1 DEF EnableUDPMouse, Sessions
<1>3. CASE EnableUDPMouseFails BY <1>3 DEF EnableUDPMouseFails
<1>4. CASE Dispatch BY <1>4 DEF Dispatch
<1>5. CASE Hangup BY <1>5 DEF Hangup
<1>6. CASE FreeSlot BY <1>6 DEF FreeSlot
<1>7. ASSUME NEW d \in net, NEW last \in BOOLEAN, Receive(d, last) PROVE MovesMade'
  BY <1>7 DEF Receive
<1>8. ASSUME NEW d \in net, Lose(d) PROVE MovesMade' BY <1>8 DEF Lose
<1>9. CASE Warp BY <1>9 DEF Warp
<1>10. ASSUME NEW s \in Sessions, NegotiateUDPMouse(s) PROVE MovesMade'
  BY <1>10 DEF NegotiateUDPMouse
<1>11. ASSUME NEW s \in Sessions, Move(s), net' = net \/ sendPosition(s) PROVE MovesMade'
  <2>1. moves' = [moves EXCEPT ![s] = moves[s] + 1] /\ pc' = pc /\ session' = session
    BY <1>11 DEF Move
  <2>2. \A t \in Sessions : moves[t] \in Nat /\ moves'[t] \in Nat /\ moves[t] <= moves'[t]
    <3>1. \A t \in Sessions : moves[t] \in Nat OBVIOUS
    <3>2. moves \in [Sessions -> 0 .. MaxMoves] OBVIOUS
    <3>3. \A t \in Sessions : moves'[t] = IF t = s THEN moves[s] + 1 ELSE moves[t]
      BY <2>1, <3>2
    <3> HIDE DEF CInv, TypeOK, MovesMade, controllers, network, slot, udpSess
    <3> QED BY <3>1, <3>3
  <2>3. ~(s > session) BY <1>11 DEF Move
  <2>4. ASSUME NEW d \in net' PROVE d.seq <= moves'[d.session]
    <3>1. CASE d \in net
      <4>1. d.session \in Sessions /\ d.seq \in 1 .. MaxMoves BY <3>1, PositionType
      <4>2. d.seq <= moves[d.session] BY <3>1
      <4>3. d.seq \in Nat BY <4>1
      <4> HIDE DEF CInv, TypeOK, MovesMade, controllers, network, slot, udpSess
      <4> QED BY <4>1, <4>2, <4>3, <2>2
    <3>2. CASE d = Position(s, moves[s] + 1) BY <3>2, <2>1 DEF Position
    <3> QED BY <1>11, <3>1, <3>2 DEF sendPosition
  <2> QED BY <2>1, <2>3, <2>4 DEF Sessions
<1>12. ASSUME NEW s \in Sessions, MoveOverUDP(s) \/ MoveOverTCP(s) PROVE MovesMade'
  BY <1>11, <1>12 DEF MoveOverUDP, MoveOverTCP
<1>13. ASSUME NEW s \in Sessions, Quit(s) PROVE MovesMade' BY <1>13 DEF Quit
<1>14. ASSUME NEW s \in Sessions, Break(s) PROVE MovesMade' BY <1>14 DEF Break
<1>15. CASE UNCHANGED vars BY <1>15 DEF vars
<1> QED BY <1>1, <1>2, <1>3, <1>4, <1>5, <1>6, <1>7, <1>8, <1>9, <1>10, <1>12,
           <1>13, <1>14, <1>15 DEF Next

LEMMA KeyStep == ASSUME CInv, [Next]_vars PROVE KeyFollowsSlot'
<1> USE DEF CInv, KeyFollowsSlot, controllers, network, slot, udpSess
<1>1. CASE Accept BY <1>1 DEF Accept, SlotOrder
<1>2. CASE EnableUDPMouse BY <1>2 DEF EnableUDPMouse, start
<1>3. CASE EnableUDPMouseFails BY <1>3 DEF EnableUDPMouseFails, stop
<1>4. CASE Dispatch BY <1>4 DEF Dispatch
<1>5. CASE Hangup BY <1>5 DEF Hangup, stop
<1>6. CASE FreeSlot BY <1>6 DEF FreeSlot
<1>7. ASSUME NEW d \in net, NEW last \in BOOLEAN, Receive(d, last) PROVE KeyFollowsSlot'
  BY <1>7 DEF Receive
<1>8. ASSUME NEW d \in net, Lose(d) PROVE KeyFollowsSlot' BY <1>8 DEF Lose
<1>9. CASE Warp BY <1>9 DEF Warp
<1>10. ASSUME NEW s \in Sessions, NegotiateUDPMouse(s) PROVE KeyFollowsSlot'
  BY <1>10 DEF NegotiateUDPMouse
<1>11. ASSUME NEW s \in Sessions, MoveOverUDP(s) \/ MoveOverTCP(s) PROVE KeyFollowsSlot'
  BY <1>11 DEF MoveOverUDP, MoveOverTCP, Move
<1>13. ASSUME NEW s \in Sessions, Quit(s) PROVE KeyFollowsSlot' BY <1>13 DEF Quit
<1>14. ASSUME NEW s \in Sessions, Break(s) PROVE KeyFollowsSlot' BY <1>14 DEF Break
<1>15. CASE UNCHANGED vars BY <1>15 DEF vars
<1> QED BY <1>1, <1>2, <1>3, <1>4, <1>5, <1>6, <1>7, <1>8, <1>9, <1>10, <1>11,
           <1>13, <1>14, <1>15 DEF Next

\* The inductive invariant.
THEOREM ChannelInv == Spec => []CInv
<1>1. CInv /\ [Next]_vars => CInv' BY TypeStep, OrderStep, MovesStep, KeyStep DEF CInv
<1> QED BY InitInv, <1>1, PTL DEF Spec

\* Type correctness of both ends and the network between them.
THEOREM TypeCorrect == Spec => []TypeOK
<1>1. CInv => TypeOK BY DEF CInv
<1> QED BY ChannelInv, <1>1, PTL

\* The session the reader of the socket accepts datagrams for is always the one
\* whose connection the target serves, across hang-ups and reconnections.
THEOREM KeyWithSlot == Spec => []KeyFollowsSlot
<1>1. CInv => KeyFollowsSlot BY DEF CInv
<1> QED BY ChannelInv, <1>1, PTL

----------------------------------------------------------------------------
\* The refinement, action by action.

LEMMA RefineInit == Init => Latest!Init
  BY DEF Init, Latest!Init

LEMMA RefineStep == ASSUME CInv, [Next]_vars PROVE [Latest!Next]_(Latest!vars)
<1> DEFINE lsent == IF session = 0 THEN 0 ELSE moves[session]
           Same == UNCHANGED <<session, key, lastSeq, due, shown>>
<1> USE DEF CInv, TypeOK, controllers, network, slot, udpSess, Latest!vars
<1>0. ASSUME Same, UNCHANGED moves PROVE UNCHANGED Latest!vars BY <1>0
<1>1. CASE Accept BY <1>1, <1>0 DEF Accept
<1>2. CASE EnableUDPMouse
  <2>1. /\ active \in Sessions
        /\ active > session
        /\ key = Nothing
        /\ moves[active] = 0
    BY <1>2 DEF EnableUDPMouse, SlotOrder, KeyFollowsSlot, MovesMade
  <2>2. /\ session' = active
        /\ key' = active
        /\ lastSeq' = 0
        /\ UNCHANGED <<moves, due, shown>>
    BY <1>2 DEF EnableUDPMouse, start
  <2>3. active \in Nat /\ active # Nothing BY <2>1 DEF Sessions
  <2>4. lsent' = 0 BY <2>1, <2>2 DEF Sessions
  <2>5. Latest!Open BY <2>1, <2>2, <2>3, <2>4 DEF Latest!Open
  <2> QED BY <2>5 DEF Latest!Next
<1>3. CASE EnableUDPMouseFails
  <2>1. Same /\ UNCHANGED moves
    BY <1>3 DEF EnableUDPMouseFails, stop, KeyFollowsSlot
  <2> QED BY <2>1, <1>0
<1>4. CASE Dispatch BY <1>4, <1>0 DEF Dispatch
<1>5. CASE Hangup
  <2>1. key # Nothing BY <1>5 DEF Hangup, KeyFollowsSlot, SlotOrder
  <2>2. Latest!Close BY <1>5, <2>1 DEF Hangup, stop, Latest!Close
  <2> QED BY <2>2 DEF Latest!Next
<1>6. CASE FreeSlot BY <1>6, <1>0 DEF FreeSlot
<1>7. ASSUME NEW d \in net, NEW last \in BOOLEAN, Receive(d, last)
      PROVE  [Latest!Next]_(Latest!vars)
  <2>1. CASE ~Fresh(d) BY <1>7, <2>1, <1>0 DEF Receive, Apply
  <2>2. CASE Fresh(d)
    <3>1. d \in Positions /\ d.session \in Sessions /\ d.seq \in 1 .. MaxMoves
      BY PositionType
    <3>2. d.session = key /\ d.seq > lastSeq BY <2>2 DEF Fresh
    <3>3. key # Nothing /\ key = session
      BY <3>1, <3>2 DEF KeyFollowsSlot, SlotOrder, Sessions
    <3>4. session # 0 /\ lsent = moves[session] BY <3>1, <3>2, <3>3 DEF Sessions
    <3>5. d.seq \in lastSeq + 1 .. lsent
      BY <3>1, <3>2, <3>3, <3>4 DEF MovesMade
    <3>6. d = Latest!Position(session, d.seq)
      BY <3>1, <3>2, <3>3, PositionType DEF Position, Latest!Position
    <3>7. due = Nothing /\ lastSeq' = d.seq /\ due' = d
          /\ UNCHANGED <<session, key, moves, shown>>
      BY <1>7, <2>2 DEF Receive, Apply
    <3>8. Latest!Take BY <3>3, <3>5, <3>6, <3>7 DEF Latest!Take
    <3> QED BY <3>8 DEF Latest!Next
  <2> QED BY <2>1, <2>2
<1>8. ASSUME NEW d \in net, Lose(d) PROVE [Latest!Next]_(Latest!vars)
  BY <1>8, <1>0 DEF Lose
<1>9. CASE Warp
  <2>1. Latest!Show BY <1>9 DEF Warp, Latest!Show
  <2> QED BY <2>1 DEF Latest!Next
<1>10. ASSUME NEW s \in Sessions, NegotiateUDPMouse(s) PROVE [Latest!Next]_(Latest!vars)
  BY <1>10, <1>0 DEF NegotiateUDPMouse
<1>11. ASSUME NEW s \in Sessions, Move(s) PROVE [Latest!Next]_(Latest!vars)
  <2>1. Same /\ moves' = [moves EXCEPT ![s] = moves[s] + 1] BY <1>11 DEF Move
  <2>2. CASE s = session
    <3>1. lsent' = lsent + 1 BY <2>1, <2>2 DEF Sessions
    <3>2. Latest!Send BY <2>1, <3>1 DEF Latest!Send
    <3> QED BY <3>2 DEF Latest!Next
  <2>3. CASE s # session
    <3>1. lsent' = lsent BY <2>1, <2>3 DEF Sessions
    <3> QED BY <2>1, <3>1
  <2> QED BY <2>2, <2>3
<1>12. ASSUME NEW s \in Sessions, MoveOverUDP(s) \/ MoveOverTCP(s)
       PROVE  [Latest!Next]_(Latest!vars)
  BY <1>11, <1>12 DEF MoveOverUDP, MoveOverTCP
<1>13. ASSUME NEW s \in Sessions, Quit(s) PROVE [Latest!Next]_(Latest!vars)
  BY <1>13, <1>0 DEF Quit
<1>14. ASSUME NEW s \in Sessions, Break(s) PROVE [Latest!Next]_(Latest!vars)
  BY <1>14, <1>0 DEF Break
<1>15. CASE UNCHANGED vars BY <1>15, <1>0 DEF vars
<1> QED BY <1>1, <1>2, <1>3, <1>4, <1>5, <1>6, <1>7, <1>8, <1>9, <1>10, <1>12,
           <1>13, <1>14, <1>15 DEF Next

\* Whatever the network does with the datagrams and however sessions follow each
\* other, the channel shows positions of the open session, newest wins.
THEOREM NewestWins == Spec => ImplementsLatest
<1>1. CInv /\ [Next]_vars => [Latest!Next]_(Latest!vars) BY RefineStep
<1> QED BY RefineInit, ChannelInv, <1>1, PTL DEF Spec, ImplementsLatest, Latest!Spec

=============================================================================
