---------------------------- MODULE ClipboardSync ----------------------------
(***************************************************************************)
(* The clipboard channel: one connection for all presses of Ctrl+Alt+V.    *)
(*                                                                         *)
(* Each press runs in a goroutine of its own on the controller             *)
(* (handlePasteHotkey in cmd/controller/clipboard_windows.go).  Engaged,   *)
(* it pushes the controller's clipboard; otherwise it asks the target for  *)
(* its clipboard, waits five seconds for the reply and pastes it.  A mutex *)
(* admits one at a time.  The target (handleClipConn in                    *)
(* cmd/target/clipboard_windows.go) handles one frame after the other and  *)
(* pastes or replies in between.                                           *)
(*                                                                         *)
(* Content is identified by the press it was sent for, and is small or     *)
(* large.  A small frame fits into the buffers of the connection, a large  *)
(* one does not: its write returns only when the other side reads it.      *)
(***************************************************************************)
EXTENDS Integers, Sequences

CONSTANTS
  Presses,  \* presses of the hotkey, in order
  Nobody,   \* no press
  Garbage   \* content read from the middle of a frame

ASSUME PressesAssumption == Presses \subseteq Int
ASSUME NobodyAssumption == Nobody \notin Presses /\ Garbage \notin Presses \cup {Nobody}

VARIABLES
  pc,      \* where the goroutine of each press is
  mu,      \* the press that holds clipClient.mu
  up,      \* frames from the controller to the target
  down,    \* frames from the target to the controller
  torn,    \* the controller stopped reading in the middle of a frame
  handler, \* where handleClipConn is
  reply,   \* the press whose reply it is writing
  broken,  \* the connection is gone
  got,     \* history: whose reply each pull pasted
  late     \* history: the pulls that gave up waiting

conn == <<up, down, torn, broken>>
target == <<handler, reply>>
vars == <<pc, mu, conn, target, got, late>>

Frame == [kind : {"request", "content", "empty"}, press : Presses, large : BOOLEAN]

FrameOf(kind, p, large) == [kind |-> kind, press |-> p, large |-> large]

TypeOK ==
  /\ pc \in [Presses -> {"idle", "push", "pull", "writing", "reading", "pasting", "done"}]
  /\ mu \in Presses \cup {Nobody}
  /\ up \in Seq(Frame)
  /\ down \in Seq(Frame)
  /\ torn \in BOOLEAN
  /\ handler \in {"reading", "replying", "pasting", "gone"}
  /\ reply \in Presses \cup {Nobody}
  /\ broken \in BOOLEAN
  /\ got \in [Presses -> Presses \cup {Nobody, Garbage}]
  /\ late \subseteq Presses

Init ==
  /\ pc = [p \in Presses |-> "idle"]
  /\ mu = Nobody
  /\ up = <<>>
  /\ down = <<>>
  /\ torn = FALSE
  /\ handler = "reading"
  /\ reply = Nobody
  /\ broken = FALSE
  /\ got = [p \in Presses |-> Nobody]
  /\ late = {}

----------------------------------------------------------------------------
\* The controller.

GoTo(p, label) == pc' = [pc EXCEPT ![p] = label]

\* The hotkey's event reaches the loop, which is engaged or not.
HotkeyPaste(p) ==
  /\ pc[p] = "idle"
  /\ \A q \in Presses : q < p => pc[q] # "idle"
  /\ \E op \in {"push", "pull"} : GoTo(p, op)
  /\ UNCHANGED <<mu, conn, target, got, late>>

\* Mutant of Lock: no mutex.
LockNothing(p) == UNCHANGED mu

Lock(p) == mu = Nobody /\ mu' = p

\* The method returns, its deferred Unlock with it.
Return(p) == GoTo(p, "done") /\ mu' = Nobody

\* pushLocalClipboard: nothing to send, a clipboard that cannot be read, or a
\* write that fails at once ...
PushNothing(p) ==
  /\ pc[p] = "push"
  /\ mu = Nobody
  /\ Return(p)
  /\ UNCHANGED <<conn, target, got, late>>

\* ... or content.
Push(p) ==
  /\ pc[p] = "push"
  /\ Lock(p)
  /\ ~broken
  /\ \E large \in BOOLEAN : up' = Append(up, FrameOf("content", p, large))
  /\ GoTo(p, "writing")
  /\ UNCHANGED <<down, torn, broken, target, got, late>>

\* The frame that press p sent to the other side is still being written.
Stalled(p, frames) ==
  \E i \in DOMAIN frames : frames[i].press = p /\ frames[i].large

\* The write returns when its frame fits, has been read, or never will be.
Pushed(p) ==
  /\ pc[p] = "writing"
  /\ ~Stalled(p, up) \/ broken
  /\ Return(p)
  /\ UNCHANGED <<conn, target, got, late>>

\* pullRemoteClipboard: ask, and start to wait.
Pull(p) ==
  /\ pc[p] = "pull"
  /\ Lock(p)
  /\ ~broken
  /\ up' = Append(up, FrameOf("request", p, FALSE))
  /\ GoTo(p, "reading")
  /\ UNCHANGED <<down, torn, broken, target, got, late>>

\* The request cannot be written, or no reply can be read.
PullFails(p) ==
  /\ broken
  /\ \/ pc[p] = "pull" /\ mu = Nobody
     \/ pc[p] = "reading"
  /\ Return(p)
  /\ UNCHANGED <<conn, target, got, late>>

\* A reply comes.  Content goes to the clipboard, which may refuse it, and is
\* then pasted; an empty reply means there is nothing to paste.
ReadReply(p) ==
  /\ pc[p] = "reading"
  /\ down # <<>>
  /\ ~torn
  /\ down' = Tail(down)
  /\ \/ /\ Head(down).kind = "content"
        /\ GoTo(p, "pasting")
        /\ got' = [got EXCEPT ![p] = Head(down).press]
        /\ UNCHANGED mu
     \/ Return(p) /\ UNCHANGED got
  /\ UNCHANGED <<up, torn, broken, target, late>>

\* After a frame was left in the middle, its payload is read as a frame: most
\* likely an error, but anything may come out of it, and any part may be left.
ReadGarbage(p) ==
  /\ pc[p] = "reading"
  /\ down # <<>>
  /\ torn
  /\ down' \in {down, Tail(down)}
  /\ \/ /\ GoTo(p, "pasting")
        /\ got' = [got EXCEPT ![p] = Garbage]
        /\ UNCHANGED mu
     \/ Return(p) /\ UNCHANGED got
  /\ UNCHANGED <<up, torn, broken, target, late>>

\* Mutant of Timeout: the method returns without unlocking.
TimeoutStillLocked(p) ==
  /\ pc[p] = "reading"
  /\ GoTo(p, "done")
  /\ late' = late \cup {p}
  /\ UNCHANGED <<mu, conn, target, got>>

\* Five seconds have passed.  The reader may have got into a large frame.
Timeout(p) ==
  /\ pc[p] = "reading"
  /\ Return(p)
  /\ late' = late \cup {p}
  /\ \/ UNCHANGED torn
     \/ down # <<>> /\ Head(down).large /\ torn' = TRUE
  /\ UNCHANGED <<up, down, broken, target, got>>

\* injectPaste, under both mutexes.
Paste(p) ==
  /\ pc[p] = "pasting"
  /\ Return(p)
  /\ UNCHANGED <<conn, target, got, late>>

----------------------------------------------------------------------------
\* The target.

ReadFrame(kind) ==
  /\ handler = "reading"
  /\ ~broken
  /\ up # <<>>
  /\ Head(up).kind = kind
  /\ up' = Tail(up)

\* replyWithLocalClipboard: text, an image, or an empty text.
Reply ==
  /\ ReadFrame("request")
  /\ \E f \in { FrameOf("content", Head(up).press, FALSE),
                FrameOf("content", Head(up).press, TRUE),
                FrameOf("empty", Head(up).press, FALSE) } :
       /\ down' = Append(down, f)
       /\ handler' = IF f.large THEN "replying" ELSE "reading"
       /\ reply' = IF f.large THEN f.press ELSE Nobody
  /\ UNCHANGED <<pc, mu, torn, broken, got, late>>

\* A clipboard that cannot be read is logged, and there is no reply.
ReplyFails ==
  /\ ReadFrame("request")
  /\ UNCHANGED <<pc, mu, down, torn, broken, target, got, late>>

\* The write of a large reply returns when it has been read.
Replied ==
  /\ handler = "replying"
  /\ ~Stalled(reply, down)
  /\ handler' = "reading"
  /\ reply' = Nobody
  /\ UNCHANGED <<pc, mu, conn, got, late>>

\* Content from the controller goes to the clipboard, which may refuse it, and
\* is pasted.
ReceiveContent ==
  /\ ReadFrame("content")
  /\ handler' \in {"pasting", "reading"}
  /\ UNCHANGED <<pc, mu, down, torn, broken, reply, got, late>>

Pasted ==
  /\ handler = "pasting"
  /\ handler' = "reading"
  /\ UNCHANGED <<pc, mu, conn, reply, got, late>>

\* The handler's read or write fails.
HandlerReturns ==
  /\ broken
  /\ handler \in {"reading", "replying"}
  /\ handler' = "gone"
  /\ reply' = Nobody
  /\ UNCHANGED <<pc, mu, conn, got, late>>

\* The connection breaks, with all that was under way.
Break ==
  /\ ~broken
  /\ broken' = TRUE
  /\ up' = <<>>
  /\ down' = <<>>
  /\ UNCHANGED <<pc, mu, torn, target, got, late>>

----------------------------------------------------------------------------

Goroutine(p) ==
  \/ PushNothing(p) \/ Push(p) \/ Pushed(p)
  \/ Pull(p) \/ PullFails(p) \/ ReadReply(p) \/ ReadGarbage(p) \/ Timeout(p) \/ Paste(p)

Handler ==
  Reply \/ ReplyFails \/ Replied \/ ReceiveContent \/ Pasted \/ HandlerReturns

Next ==
  \/ \E p \in Presses : HotkeyPaste(p) \/ Goroutine(p)
  \/ Handler
  \/ Break

Spec == Init /\ [][Next]_vars

\* All goroutines run, and the mutex of Go does not starve a waiter.
FairSpec == Spec /\ WF_vars(Handler) /\ \A p \in Presses : SF_vars(Goroutine(p))

----------------------------------------------------------------------------
\* A pull pastes what the target answered to it: the clipboard as it was after
\* the hotkey was pressed (clipboard_windows.go:83-85).  The code does not keep
\* this: the reply to a pull that gave up is read by the next.
PastesOwnReply == \A p \in Presses : got[p] \in {p, Nobody}

\* It does as long as no pull has given up, however pushes and pulls overlap.
OwnReplyUnlessLate == late = {} => PastesOwnReply

\* Both sides are writing a large frame and neither is reading: a pull has given
\* up, which leaves a reply that nobody waits for, and then a press pushes.
CrossedWrites ==
  /\ late # {}
  /\ handler = "replying"
  /\ pc[reply] = "done"
  /\ \E p \in Presses : pc[p] = "writing" /\ Stalled(p, up)

\* The two sides never wait in their writes for each other as long as no pull has
\* given up: the target writes a large reply only while its pull reads, under the
\* mutex that keeps every push from writing.
NoCrossingUnlessLate ==
  late = {} /\ handler = "replying" /\ Stalled(reply, down) =>
    \A p \in Presses : ~(pc[p] = "writing" /\ Stalled(p, up))

\* A press is done with at some time, so that the next can have the connection
\* (clipboard_windows.go:19-21), unless the two sides' writes have crossed.
TransfersEnd ==
  \A p \in Presses : pc[p] \in {"push", "pull"} ~> pc[p] = "done" \/ CrossedWrites

=============================================================================
