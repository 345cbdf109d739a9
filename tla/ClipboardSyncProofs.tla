------------------------- MODULE ClipboardSyncProofs -------------------------
(***************************************************************************)
(* For any presses: type correctness, the mutex, and that a pull pastes    *)
(* the reply to its own request as long as no pull has given up.           *)
(***************************************************************************)
EXTENDS ClipboardSync, TLAPS

\* The press that holds the mutex is the one that is past locking it.
Holder == \A p \in Presses : mu = p <=> pc[p] \in {"writing", "reading", "pasting"}

\* One request or reply at most is under way, and its pull is waiting for it.
OneOutstanding ==
  /\ \A i \in DOMAIN up : up[i].kind = "request" =>
       /\ pc[up[i].press] = "reading"
       /\ down = <<>>
       /\ \A j \in DOMAIN up : up[j].kind = "request" => i = j
  /\ \A i \in DOMAIN down : pc[down[i].press] = "reading" /\ i = 1

\* As long as nobody has given up, the connection is in step.
InStep == late = {} => ~torn /\ OneOutstanding /\ PastesOwnReply

CInv == TypeOK /\ Holder /\ (broken => up = <<>> /\ down = <<>>) /\ InStep

USE NobodyAssumption

LEMMA FrameType == \A kind \in {"request", "content", "empty"}, p \in Presses, large \in BOOLEAN :
                     /\ FrameOf(kind, p, large) \in Frame
                     /\ FrameOf(kind, p, large).kind = kind
                     /\ FrameOf(kind, p, large).press = p
  BY DEF FrameOf, Frame

LEMMA ReplyType == ASSUME NEW p \in Presses,
                          NEW f \in { FrameOf("content", p, FALSE),
                                       FrameOf("content", p, TRUE),
                                       FrameOf("empty", p, FALSE) }
                   PROVE  f \in Frame /\ f.press = p
<1>1. CASE f = FrameOf("content", p, FALSE) BY <1>1, FrameType
<1>2. CASE f = FrameOf("content", p, TRUE) BY <1>2, FrameType
<1>3. CASE f = FrameOf("empty", p, FALSE) BY <1>3, FrameType
<1> QED BY <1>1, <1>2, <1>3

\* Queues, once and for all.
LEMMA TailFacts == ASSUME NEW S, NEW q \in Seq(S), q # <<>>
                   PROVE  /\ Head(q) \in S /\ Tail(q) \in Seq(S)
                          /\ 1 \in DOMAIN q /\ Head(q) = q[1]
                          /\ \A i \in DOMAIN Tail(q) : /\ i + 1 \in DOMAIN q
                                                       /\ i \in Nat \ {0}
                                                       /\ Tail(q)[i] = q[i + 1]
  OBVIOUS

LEMMA AppendFacts == ASSUME NEW S, NEW q \in Seq(S), NEW x \in S
                     PROVE  /\ Append(q, x) \in Seq(S)
                            /\ Append(q, x) # <<>>
                            /\ \A i \in DOMAIN Append(q, x) :
                                 \/ i \in DOMAIN q /\ Append(q, x)[i] = q[i]
                                 \/ i = Len(q) + 1 /\ Append(q, x)[i] = x
                            /\ Len(q) \in Nat
  OBVIOUS

LEMMA ElementFacts == ASSUME NEW q \in Seq(Frame)
                      PROVE  \A i \in DOMAIN q : q[i] \in Frame /\ q[i].press \in Presses
<1>1. \A i \in DOMAIN q : q[i] \in Frame OBVIOUS
<1> QED BY <1>1 DEF Frame

LEMMA EmptyFacts == <<>> \in Seq(Frame) /\ DOMAIN <<>> = {}
  OBVIOUS

LEMMA InitInv == Init => CInv
<1> SUFFICES ASSUME Init PROVE CInv OBVIOUS
<1>1. TypeOK BY EmptyFacts DEF Init, TypeOK
<1>2. Holder BY DEF Init, Holder
<1>3. OneOutstanding BY EmptyFacts DEF Init, OneOutstanding
<1>4. ~torn /\ PastesOwnReply BY DEF Init, PastesOwnReply
<1> QED BY <1>1, <1>2, <1>3, <1>4 DEF Init, CInv, InStep

----------------------------------------------------------------------------
\* Type correctness, action by action.

LEMMA TypeStep == ASSUME CInv, [Next]_vars PROVE TypeOK'
<1> USE DEF CInv, TypeOK, conn, target, GoTo, Return, Lock
<1>1. ASSUME NEW p \in Presses, HotkeyPaste(p) PROVE TypeOK'
  BY <1>1 DEF HotkeyPaste
<1>2. ASSUME NEW p \in Presses, Goroutine(p) PROVE TypeOK'
  <2>1. CASE PushNothing(p) BY <2>1 DEF PushNothing
  <2>2. CASE Push(p)
    <3>1. up' \in Seq(Frame) BY <2>2, FrameType, AppendFacts DEF Push
    <3> QED BY <2>2, <3>1 DEF Push
  <2>3. CASE Pushed(p) BY <2>3 DEF Pushed
  <2>4. CASE Pull(p)
    <3>1. up' \in Seq(Frame) BY <2>4, FrameType, AppendFacts DEF Pull
    <3> QED BY <2>4, <3>1 DEF Pull
  <2>5. CASE PullFails(p) BY <2>5 DEF PullFails
  <2>6. CASE ReadReply(p)
    <3>1. Head(down) \in Frame /\ down' \in Seq(Frame)
      BY <2>6, TailFacts DEF ReadReply
    <3>2. Head(down).press \in Presses BY <3>1 DEF Frame
    <3> QED BY <2>6, <3>1, <3>2 DEF ReadReply
  <2>7. CASE ReadGarbage(p)
    <3>1. down # <<>> /\ down \in Seq(Frame) /\ down' \in {down, Tail(down)}
      BY <2>7 DEF ReadGarbage
    <3>2. down' \in Seq(Frame) BY <3>1, TailFacts
    <3> QED BY <2>7, <3>2 DEF ReadGarbage
  <2>8. CASE Timeout(p) BY <2>8 DEF Timeout
  <2>9. CASE Paste(p) BY <2>9 DEF Paste
  <2> QED BY <1>2, <2>1, <2>2, <2>3, <2>4, <2>5, <2>6, <2>7, <2>8, <2>9 DEF Goroutine
<1>3. CASE Handler
  <2>1. ASSUME NEW kind, ReadFrame(kind)
        PROVE  /\ Head(up) \in Frame /\ up' \in Seq(Frame)
               /\ Head(up).press \in Presses
    <3>1. Head(up) \in Frame /\ up' \in Seq(Frame)
      BY <2>1, TailFacts DEF ReadFrame
    <3> QED BY <3>1 DEF Frame
  <2>2. CASE Reply
    <3>1. PICK f \in { FrameOf("content", Head(up).press, FALSE),
                       FrameOf("content", Head(up).press, TRUE),
                       FrameOf("empty", Head(up).press, FALSE) } :
            /\ down' = Append(down, f)
            /\ reply' = IF f.large THEN f.press ELSE Nobody
      BY <2>2 DEF Reply
    <3>2. f \in Frame /\ f.press \in Presses
      <4>1. Head(up).press \in Presses BY <2>1, <2>2 DEF Reply
      <4> QED BY <4>1, ReplyType
    <3>3. down' \in Seq(Frame) BY <3>1, <3>2, AppendFacts
    <3>4. reply' \in Presses \cup {Nobody} BY <3>1, <3>2
    <3> QED BY <2>1, <2>2, <3>3, <3>4 DEF Reply
  <2>3. CASE ReplyFails BY <2>1, <2>3 DEF ReplyFails
  <2>4. CASE Replied BY <2>4 DEF Replied
  <2>5. CASE ReceiveContent BY <2>1, <2>5 DEF ReceiveContent
  <2>6. CASE Pasted BY <2>6 DEF Pasted
  <2>7. CASE HandlerReturns BY <2>7 DEF HandlerReturns
  <2> QED BY <1>3, <2>2, <2>3, <2>4, <2>5, <2>6, <2>7 DEF Handler
<1>4. CASE Break BY <1>4 DEF Break
<1>5. CASE UNCHANGED vars BY <1>5 DEF vars
<1> HIDE DEF CInv, TypeOK, conn, target, GoTo, Return, Lock
<1> QED BY <1>1, <1>2, <1>3, <1>4, <1>5 DEF Next

----------------------------------------------------------------------------
\* The mutex, and the buffers of a broken connection.

LEMMA HolderStep == ASSUME CInv, [Next]_vars PROVE Holder' /\ (broken => up = <<>> /\ down = <<>>)'
<1> USE DEF CInv, TypeOK, Holder, conn, target, GoTo, Return, Lock
<1>1. ASSUME NEW p \in Presses, HotkeyPaste(p)
      PROVE  Holder' /\ (broken => up = <<>> /\ down = <<>>)'
  BY <1>1 DEF HotkeyPaste
<1>2. ASSUME NEW p \in Presses, Goroutine(p)
      PROVE  Holder' /\ (broken => up = <<>> /\ down = <<>>)'
  <2>1. CASE PushNothing(p) BY <2>1 DEF PushNothing
  <2>2. CASE Push(p) BY <2>2 DEF Push
  <2>3. CASE Pushed(p) BY <2>3 DEF Pushed
  <2>4. CASE Pull(p) BY <2>4 DEF Pull
  <2>5. CASE PullFails(p) BY <2>5 DEF PullFails
  <2>6. CASE ReadReply(p) BY <2>6 DEF ReadReply
  <2>7. CASE ReadGarbage(p) BY <2>7 DEF ReadGarbage
  <2>8. CASE Timeout(p) BY <2>8 DEF Timeout
  <2>9. CASE Paste(p) BY <2>9 DEF Paste
  <2> QED BY <1>2, <2>1, <2>2, <2>3, <2>4, <2>5, <2>6, <2>7, <2>8, <2>9 DEF Goroutine
<1>3. ASSUME Handler PROVE Holder' /\ (broken => up = <<>> /\ down = <<>>)'
  <2>1. UNCHANGED <<pc, mu, broken>>
    BY <1>3 DEF Handler, Reply, ReplyFails, Replied, ReceiveContent, Pasted, HandlerReturns
  <2>2. ~broken \/ UNCHANGED <<up, down>>
    BY <1>3 DEF Handler, Reply, ReplyFails, Replied, ReceiveContent, Pasted, HandlerReturns,
                ReadFrame
  <2> QED BY <2>1, <2>2
<1>4. CASE Break BY <1>4 DEF Break
<1>5. CASE UNCHANGED vars BY <1>5 DEF vars
<1> HIDE DEF CInv, TypeOK, Holder, conn, target, GoTo, Return, Lock
<1> QED BY <1>1, <1>2, <1>3, <1>4, <1>5 DEF Next

----------------------------------------------------------------------------
\* A frame that is read comes off a connection that is in step.
LEMMA FrameOff == ASSUME CInv, late = {}, NEW kind, ReadFrame(kind)
                  PROVE  /\ \A i \in DOMAIN up' : up'[i].kind = "request" =>
                              /\ pc[up'[i].press] = "reading"
                              /\ down = <<>>
                              /\ kind # "request"
                              /\ \A j \in DOMAIN up' : up'[j].kind = "request" => i = j
                         /\ kind = "request" => pc[Head(up).press] = "reading" /\ down = <<>>
<1>1. /\ up \in Seq(Frame) /\ up # <<>> /\ up' = Tail(up) /\ up[1] = Head(up)
      /\ Head(up).kind = kind /\ 1 \in DOMAIN up
      /\ \A i \in DOMAIN up' : i + 1 \in DOMAIN up /\ i \in Nat \ {0} /\ up'[i] = up[i + 1]
  BY TailFacts DEF CInv, TypeOK, ReadFrame
<1> QED BY <1>1 DEF CInv, InStep, OneOutstanding

\* A pull reads its own reply or waits for it, whatever the others do.
LEMMA StepInStep == ASSUME CInv, [Next]_vars PROVE InStep'
<1> SUFFICES ASSUME late' = {} PROVE ~torn' /\ OneOutstanding' /\ PastesOwnReply'
  BY DEF InStep
<1>0. late = {} /\ ~torn /\ OneOutstanding /\ PastesOwnReply
  <2>1. late \subseteq late'
    BY DEF Next, vars, HotkeyPaste, Goroutine, PushNothing, Push, Pushed, Pull, PullFails,
           ReadReply, ReadGarbage, Timeout, Paste, Handler, Reply, ReplyFails, Replied,
           ReceiveContent, Pasted, HandlerReturns, Break
  <2> QED BY <2>1 DEF CInv, InStep
<1>a. TypeOK BY DEF CInv
\* A press that is not waiting may go anywhere: nothing under way is its own.
<1>b. ASSUME NEW p \in Presses, NEW label, GoTo(p, label), pc[p] # "reading",
             UNCHANGED <<up, down>>
      PROVE  OneOutstanding'
  <2>1. \A i \in DOMAIN up : up[i].press \in Presses BY <1>a, ElementFacts DEF TypeOK
  <2>2. \A i \in DOMAIN down : down[i].press \in Presses BY <1>a, ElementFacts DEF TypeOK
  <2>3. \A q \in Presses : pc[q] = "reading" => pc'[q] = "reading"
    BY <1>a, <1>b DEF TypeOK, GoTo
  <2> QED BY <1>0, <1>b, <2>1, <2>2, <2>3 DEF OneOutstanding
<1>1. ASSUME NEW p \in Presses, HotkeyPaste(p)
      PROVE  ~torn' /\ OneOutstanding' /\ PastesOwnReply'
  <2>1. OneOutstanding' BY <1>1, <1>b DEF HotkeyPaste, conn
  <2> QED BY <1>0, <1>1, <2>1 DEF HotkeyPaste, conn, PastesOwnReply
<1>2. ASSUME NEW p \in Presses, Goroutine(p)
      PROVE  ~torn' /\ OneOutstanding' /\ PastesOwnReply'
  <2>1. CASE PushNothing(p) \/ Pushed(p) \/ Paste(p)
    <3>1. OneOutstanding' BY <2>1, <1>b DEF PushNothing, Pushed, Paste, conn, Return
    <3> QED BY <1>0, <2>1, <3>1 DEF PushNothing, Pushed, Paste, conn, PastesOwnReply
  <2>2. CASE Push(p)
    <3>1. PICK large \in BOOLEAN : up' = Append(up, FrameOf("content", p, large))
      BY <2>2 DEF Push
    <3>2. \A i \in DOMAIN up' : up'[i].kind = "request" => i \in DOMAIN up /\ up'[i] = up[i]
      BY <1>a, <3>1, FrameType, AppendFacts DEF TypeOK
    <3>3. pc' = [pc EXCEPT ![p] = "writing"] /\ pc[p] = "push" /\ down' = down
      BY <2>2 DEF Push, GoTo
    <3>4. \A q \in Presses : pc[q] = "reading" => pc'[q] = "reading"
      BY <1>a, <3>3 DEF TypeOK
    <3>5. /\ \A i \in DOMAIN up : up[i].press \in Presses
          /\ \A i \in DOMAIN down : down[i].press \in Presses
      BY <1>a, ElementFacts DEF TypeOK
    <3>6. OneOutstanding' BY <1>0, <3>2, <3>3, <3>4, <3>5 DEF OneOutstanding
    <3> QED BY <1>0, <2>2, <3>6 DEF Push, PastesOwnReply
  <2>3. CASE Pull(p)
    <3>1. \A q \in Presses : pc[q] # "reading"
      BY <2>3 DEF Pull, Lock, CInv, Holder
    <3>2. /\ \A i \in DOMAIN up : up[i].press \in Presses
          /\ \A i \in DOMAIN down : down[i].press \in Presses
      BY <1>a, ElementFacts DEF TypeOK
    <3>3. \A i \in DOMAIN up : up[i].kind # "request"
      BY <1>0, <3>1, <3>2 DEF OneOutstanding
    <3>4. down = <<>> /\ down' = down
      BY <1>0, <1>a, <2>3, <3>1, <3>2 DEF OneOutstanding, TypeOK, Pull
    <3>5. up' = Append(up, FrameOf("request", p, FALSE)) /\ pc' = [pc EXCEPT ![p] = "reading"]
      BY <2>3 DEF Pull, GoTo
    <3>6. \A i \in DOMAIN up' : up'[i].kind = "request" => i = Len(up) + 1 /\ up'[i].press = p
      <4>1. FrameOf("request", p, FALSE) \in Frame /\ FrameOf("request", p, FALSE).press = p
        BY FrameType
      <4>2. up \in Seq(Frame) BY <1>a DEF TypeOK
      <4>3. \A i \in DOMAIN up' : \/ i \in DOMAIN up /\ up'[i] = up[i]
                                  \/ i = Len(up) + 1 /\ up'[i] = FrameOf("request", p, FALSE)
        BY <3>5, <4>1, <4>2, AppendFacts
      <4> QED BY <3>3, <4>1, <4>3
    <3>7. OneOutstanding'
      <4>1. pc'[p] = "reading" BY <1>a, <3>5 DEF TypeOK
      <4>2. DOMAIN down' = {} BY <3>4, EmptyFacts
      <4> QED BY <3>4, <3>6, <4>1, <4>2 DEF OneOutstanding
    <3> QED BY <1>0, <2>3, <3>7 DEF Pull, PastesOwnReply
  <2>4. CASE PullFails(p)
    <3>1. up = <<>> /\ down = <<>> /\ UNCHANGED <<up, down, torn, got>>
      BY <2>4 DEF PullFails, CInv, conn
    <3> QED BY <1>0, <3>1 DEF OneOutstanding, PastesOwnReply
  <2>5. CASE ReadReply(p)
    <3>1. /\ pc[p] = "reading" /\ down # <<>> /\ down' = Tail(down)
          /\ UNCHANGED <<up, torn>>
      BY <2>5 DEF ReadReply
    <3>2. Head(down).press = p
      <4>1. 1 \in DOMAIN down /\ Head(down) = down[1] /\ Head(down) \in Frame
        BY <1>a, <3>1, TailFacts DEF TypeOK
      <4>2. pc[Head(down).press] = "reading" /\ Head(down).press \in Presses
        BY <1>0, <4>1 DEF OneOutstanding, Frame
      <4> QED BY <3>1, <4>2 DEF CInv, Holder
    <3>3. \A i \in DOMAIN down' : FALSE
      BY <1>0, <1>a, <3>1, TailFacts DEF TypeOK, OneOutstanding
    <3>4. \A i \in DOMAIN up : up[i].kind # "request"
      BY <1>0, <3>1 DEF OneOutstanding
    <3>5. OneOutstanding' BY <3>1, <3>3, <3>4 DEF OneOutstanding
    <3>6. PastesOwnReply'
      BY <1>0, <1>a, <2>5, <3>2 DEF ReadReply, PastesOwnReply, TypeOK
    <3> QED BY <1>0, <3>1, <3>5, <3>6
  <2>6. CASE ReadGarbage(p) BY <1>0, <2>6 DEF ReadGarbage
  <2>7. CASE Timeout(p) BY <2>7 DEF Timeout
  <2> QED BY <1>2, <2>1, <2>2, <2>3, <2>4, <2>5, <2>6, <2>7 DEF Goroutine
<1>3. CASE Handler
  <2>0. UNCHANGED <<pc, torn, got>>
    BY <1>3 DEF Handler, Reply, ReplyFails, Replied, ReceiveContent, Pasted, HandlerReturns, conn
  <2>1. CASE Reply
    <3>1. PICK f \in { FrameOf("content", Head(up).press, FALSE),
                       FrameOf("content", Head(up).press, TRUE),
                       FrameOf("empty", Head(up).press, FALSE) } :
            down' = Append(down, f)
      BY <2>1 DEF Reply
    <3>2. Head(up) \in Frame BY <1>a, <2>1, TailFacts DEF TypeOK, Reply, ReadFrame
    <3>3. f.press = Head(up).press /\ f \in Frame
      <4>1. Head(up).press \in Presses BY <3>2 DEF Frame
      <4> QED BY <4>1, <3>1, ReplyType
    <3>4. /\ \A i \in DOMAIN up' : up'[i].kind # "request"
          /\ pc[Head(up).press] = "reading" /\ down = <<>>
      BY <1>0, <2>1, FrameOff DEF Reply
    <3>5. \A i \in DOMAIN down' : i = 1 /\ down'[i] = f
      BY <1>a, <3>1, <3>3, <3>4, AppendFacts DEF TypeOK
    <3>6. OneOutstanding' BY <2>0, <3>3, <3>4, <3>5 DEF OneOutstanding
    <3> QED BY <1>0, <2>0, <3>6 DEF PastesOwnReply
  <2>2. CASE ReplyFails
    <3>1. down' = down /\ down = <<>> BY <1>0, <2>2, FrameOff DEF ReplyFails
    <3>2. \A i \in DOMAIN up' : up'[i].kind # "request"
      BY <1>0, <2>2, FrameOff DEF ReplyFails
    <3>3. OneOutstanding' BY <3>1, <3>2 DEF OneOutstanding
    <3> QED BY <1>0, <2>0, <3>3 DEF PastesOwnReply
  <2>3. CASE ReceiveContent
    <3>1. down' = down BY <2>3 DEF ReceiveContent
    <3>2. OneOutstanding'
      BY <1>0, <2>0, <2>3, <3>1, FrameOff DEF ReceiveContent, OneOutstanding
    <3> QED BY <1>0, <2>0, <3>2 DEF PastesOwnReply
  <2>4. CASE Replied \/ Pasted \/ HandlerReturns
    BY <1>0, <2>0, <2>4 DEF Replied, Pasted, HandlerReturns, conn, OneOutstanding, PastesOwnReply
  <2> QED BY <1>3, <2>1, <2>2, <2>3, <2>4 DEF Handler
<1>4. CASE Break
  BY <1>0, <1>4 DEF Break, OneOutstanding, PastesOwnReply
<1>5. CASE UNCHANGED vars
  BY <1>0, <1>5 DEF vars, conn, OneOutstanding, PastesOwnReply
<1> QED BY <1>1, <1>2, <1>3, <1>4, <1>5 DEF Next

----------------------------------------------------------------------------

THEOREM ClipboardInv == Spec => []CInv
<1>1. CInv /\ [Next]_vars => CInv' BY TypeStep, HolderStep, StepInStep DEF CInv
<1> QED BY InitInv, <1>1, PTL DEF Spec

\* Type correctness of both ends and the frames between them.
THEOREM TypeCorrect == Spec => []TypeOK
<1>1. CInv => TypeOK BY DEF CInv
<1> QED BY ClipboardInv, <1>1, PTL

\* However pushes and pulls overlap, and wherever the connection breaks, a pull
\* pastes the reply to its own request unless some pull has given up.
THEOREM OwnReply == Spec => []OwnReplyUnlessLate
<1>1. CInv => OwnReplyUnlessLate BY DEF CInv, InStep, OwnReplyUnlessLate
<1> QED BY ClipboardInv, <1>1, PTL

\* Nor do the two sides wait in their writes for each other: the press that is
\* pushing has the mutex, and so has the one whose reply is being written.
THEOREM NoCrossing == Spec => []NoCrossingUnlessLate
<1>1. CInv => NoCrossingUnlessLate
  <2> SUFFICES ASSUME CInv, late = {}, Stalled(reply, down),
                      NEW p \in Presses, pc[p] = "writing"
               PROVE  FALSE
    BY DEF NoCrossingUnlessLate
  <2>1. PICK i \in DOMAIN down : down[i].press = reply BY DEF Stalled
  <2>2. reply \in Presses /\ pc[reply] = "reading"
    <3>1. down[i].press \in Presses BY ElementFacts DEF CInv, TypeOK
    <3> QED BY <2>1, <3>1 DEF CInv, InStep, OneOutstanding
  <2>3. mu = p /\ mu = reply BY <2>2 DEF CInv, Holder
  <2> QED BY <2>2, <2>3
<1> QED BY ClipboardInv, <1>1, PTL

=============================================================================
