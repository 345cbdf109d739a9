--------------------------- MODULE LatestPosition ---------------------------
(***************************************************************************)
(* What the UDP mouse channel promises: the newest position wins.          *)
(*                                                                         *)
(* One session at a time is open.  Its positions are numbered as they are  *)
(* sent; some of them are taken, each newer than the one before, and each  *)
(* one taken is due on the screen before the next is.  A session that      *)
(* closes takes no more, and no position of an earlier session is ever     *)
(* taken in a later one; only the one already due may still appear.        *)
(***************************************************************************)
EXTENDS Integers

CONSTANT Nothing  \* no position

VARIABLES
  session,  \* the latest session
  open,
  sent,     \* number of positions sent in it
  taken,    \* the newest one taken
  due,      \* the position on its way to the screen, or Nothing
  shown     \* the position that got there last, or Nothing

vars == <<session, open, sent, taken, due, shown>>

Position(s, n) == [session |-> s, seq |-> n]

Init ==
  /\ session = 0
  /\ ~open
  /\ sent = 0
  /\ taken = 0
  /\ due = Nothing
  /\ shown = Nothing

Open ==
  /\ ~open
  /\ open' = TRUE
  /\ session' \in Nat
  /\ session' > session
  /\ sent' = 0
  /\ taken' = 0
  /\ UNCHANGED <<due, shown>>

\* Its sender may outlive the session.
Send ==
  /\ sent' = sent + 1
  /\ UNCHANGED <<session, open, taken, due, shown>>

Take ==
  /\ open
  /\ due = Nothing
  /\ \E n \in taken + 1 .. sent :
       /\ taken' = n
       /\ due' = Position(session, n)
  /\ UNCHANGED <<session, open, sent, shown>>

\* The screen may refuse it.
Show ==
  /\ due # Nothing
  /\ shown' \in {due, shown}
  /\ due' = Nothing
  /\ UNCHANGED <<session, open, sent, taken>>

Close ==
  /\ open
  /\ open' = FALSE
  /\ UNCHANGED <<session, sent, taken, due, shown>>

Next == Open \/ Send \/ Take \/ Show \/ Close

Spec == Init /\ [][Next]_vars

=============================================================================
