------------------------------ MODULE Handover ------------------------------
(***************************************************************************)
(* What edge switching promises of the controller's input, with no queue   *)
(* and no threads: at any time the input belongs to the controller's own   *)
(* machine or is on its way to, with, or on its way back from the target,  *)
(* and what reaches the target is announced by the crossing it belongs to. *)
(* EdgeSwitch implements it.                                               *)
(***************************************************************************)
EXTENDS Integers

VARIABLES
  mode,      \* who has the input
  crossing,  \* how many times the cursor has crossed the edge
  sent       \* the latest message for the target

vars == <<mode, crossing, sent>>

Modes == {"local", "entering", "remote", "leaving", "lost", "gone"}

Init ==
  /\ mode = "local"
  /\ crossing = 0
  /\ sent = [type |-> "none", epoch |-> 0]

\* The cursor reaches the edge: local input stops here, before the target
\* knows.  It may do so again while the last release is being completed.
Cross ==
  /\ mode \in {"local", "leaving"}
  /\ mode' = "entering"
  /\ crossing' = crossing + 1
  /\ UNCHANGED sent

\* The target is told that this crossing's input follows.
Enter ==
  /\ mode = "entering"
  /\ mode' = "remote"
  /\ sent' = [type |-> "engage", epoch |-> crossing]
  /\ UNCHANGED crossing

\* Only input of the crossing being served goes to the target, and only
\* while it is withheld from the controller's own machine.
Forward ==
  /\ mode = "remote"
  /\ \E type \in {"move", "key", "button", "wheel"} :
       sent' = [type |-> type, epoch |-> crossing]
  /\ UNCHANGED <<mode, crossing>>

\* The push back through the edge, and the warp that completes it.
Leave ==
  /\ mode = "remote"
  /\ mode' = "leaving"
  /\ UNCHANGED <<crossing, sent>>

Home ==
  /\ mode = "leaving"
  /\ mode' = "local"
  /\ UNCHANGED <<crossing, sent>>

\* A crossing whose announcement is dropped is never entered.
Lose ==
  /\ mode = "entering"
  /\ mode' = "lost"
  /\ UNCHANGED <<crossing, sent>>

\* The process ends, and with it the suppression of local input.
End ==
  /\ mode # "gone"
  /\ mode' = "gone"
  /\ UNCHANGED <<crossing, sent>>

Next == Cross \/ Enter \/ Forward \/ Leave \/ Home \/ Lose \/ End

Spec == Init /\ [][Next]_vars

=============================================================================
