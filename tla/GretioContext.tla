---------------------------- MODULE GretioContext ----------------------------
(***************************************************************************)
(* GretioWebContext with its window: the connections its constructor makes *)
(* between the socket, the login and the window, and the nested event      *)
(* loops that wait for an answer.                                          *)
(*                                                                         *)
(* Everything runs on the host's thread.  A call that waits runs a nested  *)
(* Qt event loop, and the events that loop dispatches may start further    *)
(* nested loops (a modal box, or a call of the host from its own           *)
(* handlers).  `stack` holds these loops, innermost last:                  *)
(*   "open"  the loop of waitForOpen                                       *)
(*   "req"   the loop of sendReceiveCseq                                   *)
(*   "box"   the modal loop of a QMessageBox                               *)
(* quit() only marks a loop.  A loop returns when it is marked AND         *)
(* innermost, and further events may be dispatched in between.             *)
(***************************************************************************)
EXTENDS AuthHandler, Sequences

CONSTANTS
    Ops,        \* the names of the operations that send a request
    NoReply,    \* `result` is still false
    MaxDepth,   \* BOUND on nested loops
    MaxCseq     \* BOUND on the requests of one context

ASSUME CtxAssumption ==
    /\ MaxDepth \in Nat \ {0}
    /\ MaxCseq \in Nat
    /\ NoReply \notin [op : Ops, complete : BOOLEAN]
    /\ "none" \notin Ops

VARIABLES
    context,  \* "null" or "live": the global pointer of J2534.cpp
    status,   \* connectionStatus
    page,     \* the page of the window: "discovery" or "auth"
    vis,      \* the window: "shown", "hidden" or "closed" by the user
    stack,    \* the nested event loops, innermost last
    cseq      \* the number of the next request

ctxVars == <<status, page, vis>>

Live == context = "live"

(***************************************************************************)
(* Nested loops                                                            *)
(***************************************************************************)
Frame(kind) == [kind |-> kind, op |-> "none", cseq |-> 0, quit |-> FALSE,
                reply |-> NoReply, resume |-> FALSE, timer |-> "none"]

OpenFrame == Frame("open")
BoxFrame == Frame("box")
\* The box inside a slot of `connected`: after it, a slot still sets WAIT_AUTH.
ResumingBoxFrame == [Frame("box") EXCEPT !.resume = TRUE]
ReqFrame(op, c, t) ==
    [Frame("req") EXCEPT !.op = op, !.cseq = c, !.timer = t]

\* Times are in units of 8 ms, so that a 32 bit long is one of 29 bits here.
HalfLong == 2^28
Long(x) == ((x + HalfLong) % (2 * HalfLong)) - HalfLong
ULong(x) == x % (2 * HalfLong)

\* timer.start(timeout + 1000L): QTimer does not start on a negative interval.
Timer(timeout) == IF Long(Long(timeout) + 125) >= 0 THEN "started" ELSE "none"

\* QEventLoop::quit; and a reply that ends sendReceiveCseq's loop.
Quit(f) == [f EXCEPT !.quit = TRUE]
Replied(f, op, complete) ==
    [f EXCEPT !.quit = TRUE, !.reply = [op |-> op, complete |-> complete]]

Room == Len(stack) < MaxDepth
Push(f) == stack' = Append(stack, f)
Top == stack[Len(stack)]
Rest == SubSeq(stack, 1, Len(stack) - 1)
TopReturns == stack # <<>> /\ Top.quit

\* A modal box is up: the window takes no input.
BoxUp == \E i \in DOMAIN stack : stack[i].kind = "box" /\ ~stack[i].quit

\* Mistake: the loop is ended only when it is the innermost.
QuitOpenInnermost ==
    [i \in DOMAIN stack |->
        IF stack[i].kind = "open" /\ i = Len(stack)
          THEN Quit(stack[i]) ELSE stack[i]]

\* quit() of waitForOpen's loop, connected to onAuthSuccess.
QuitOpen == [i \in DOMAIN stack |->
               IF stack[i].kind = "open" THEN Quit(stack[i]) ELSE stack[i]]

\* Mistake: the number of the answer is not compared.
AnswerAnyone(r, complete) ==
    [i \in DOMAIN stack |->
        IF stack[i].kind = "req"
          THEN Replied(stack[i], r.op, complete)
          ELSE stack[i]]

\* The lambdas of sendReceiveCseq: whoever waits for number r.cseq has it.
Answer(r, complete) ==
    [i \in DOMAIN stack |->
        IF stack[i].kind = "req" /\ stack[i].cseq = r.cseq
          THEN Replied(stack[i], r.op, complete)
          ELSE stack[i]]

(***************************************************************************)
(* The context                                                             *)
(***************************************************************************)
CtxInit ==
    /\ WsInit /\ AuthInit /\ ServerIdle
    /\ context = "null"
    /\ status = "NOT_CONNECTED"
    /\ page = "discovery"
    /\ vis = "hidden"
    /\ stack = <<>>
    /\ cseq = 0

\* The constructor and the first part of waitForOpen.
NewContext ==
    /\ context = "null"
    /\ context' = "live"
    /\ vis' = "shown"
    /\ Push(OpenFrame)
    /\ UNCHANGED <<wsVars, authVars, serverVars, store, status, page, cseq>>

\* `delete context`: its members go with it, the token file stays.
DeleteContext ==
    /\ context' = "null"
    /\ WsReset /\ AuthReset /\ ServerForgets
    /\ status' = "NOT_CONNECTED"
    /\ page' = "discovery"
    /\ vis' = "hidden"
    /\ cseq' = 0
    /\ UNCHANGED store

\* onAuthSuccess: status, window, and the loop of waitForOpen.
AuthSuccess ==
    /\ status' = "CONNECTED"
    /\ vis' = "hidden"
    /\ stack' = QuitOpen
    /\ UNCHANGED page

\* onAuthFail after a message: close the socket, then a modal box.
AuthFail ==
    /\ Room
    /\ close
    /\ Push(BoxFrame)
    /\ UNCHANGED ctxVars

\* A message that changes nothing here once the login is complete: it is
\* forwarded, and no waiting request has its number.
Forwarded == UNCHANGED <<wsVars, authVars, store, ctxVars, stack>>

(***************************************************************************)
(* Events of the socket                                                    *)
(***************************************************************************)
SslErrors ==
    /\ Live
    /\ onSslErrors
    /\ UNCHANGED <<authVars, serverVars, store, ctxVars, stack, cseq, context>>

SocketConnected ==
    /\ Live
    /\ onConnected
    /\ authOnConnected
    /\ status' = "WAIT_AUTH"
    /\ UNCHANGED <<page, vis, stack, cseq, context>>

\* No certificate: close, and a modal box inside the slot.  The slot that sets
\* WAIT_AUTH runs when the box has been dismissed.
SocketConnectedNoCert ==
    /\ Live
    /\ Room
    /\ onConnectedThenClose
    /\ authOnConnectedNoCert
    /\ Push(ResumingBoxFrame)
    /\ UNCHANGED <<serverVars, ctxVars, cseq, context>>

\* Mistake: closed() does not reset connectionStatus.
SocketDropsKeepsStatus ==
    /\ Live
    /\ disconnected
    /\ ServerForgets
    /\ page' = "discovery"
    /\ vis' = "shown"
    /\ UNCHANGED <<authVars, store, status, stack, cseq, context>>

\* GretioWebContext::closed.
SocketDrops ==
    /\ Live
    /\ disconnected
    /\ ServerForgets
    /\ status' = "NOT_CONNECTED"
    /\ page' = "discovery"
    /\ vis' = "shown"
    /\ UNCHANGED <<authVars, store, stack, cseq, context>>

(***************************************************************************)
(* Messages of the device                                                  *)
(***************************************************************************)
AuthChallenge ==
    /\ Live /\ Hears
    /\ authReq = "new"
    /\ ~authComplete
    /\ page' = "auth"
    /\ vis' = "shown"
    /\ UNCHANGED <<wsVars, authVars, serverVars, store, status, stack, cseq,
                   context>>

AuthGranted ==
    /\ Live /\ Hears
    /\ authReq = "new"
    /\ authReq' = "none"
    /\ ServerGrants("newToken")
    /\ \/ ~authComplete /\ newToken /\ AuthSuccess /\ UNCHANGED wsVars
       \/ authComplete /\ Forwarded
    /\ UNCHANGED <<beginReqs, ptReqs, cseq, context>>

AuthAccepted ==
    /\ Live /\ Hears
    /\ authReq = "token"
    /\ authReq' = "none"
    /\ ServerGrants("token")
    /\ \/ ~authComplete /\ authGood
       \/ authComplete /\ UNCHANGED <<beginReqs, authVars, store>>
    /\ UNCHANGED <<wsVars, ctxVars, stack, ptReqs, cseq, context>>

AuthRejected ==
    /\ Live /\ Hears
    /\ authReq # "none"
    /\ authReq' = "none"
    /\ \/ ~authComplete /\ authBad /\ AuthFail
       \/ authComplete /\ Forwarded
    /\ UNCHANGED <<beginReqs, ptReqs, accepted, cseq, context>>

BeginAccepted ==
    /\ Live /\ Hears
    /\ beginReqs > 0
    /\ beginReqs' = beginReqs - 1
    /\ ServerGrants("session")
    /\ \/ ~authComplete /\ sessionBegun /\ AuthSuccess /\ UNCHANGED wsVars
       \/ authComplete /\ Forwarded
    /\ UNCHANGED <<authReq, ptReqs, cseq, context>>

BeginRefused ==
    /\ Live /\ Hears
    /\ beginReqs > 0
    /\ beginReqs' = beginReqs - 1
    /\ \/ ~authComplete /\ authBad /\ AuthFail
       \/ authComplete /\ Forwarded
    /\ UNCHANGED <<authReq, ptReqs, accepted, cseq, context>>

\* The answer to a pass thru request, at any time and in any order.  An answer
\* without "id" or "t" closes the socket and is handled all the same.
PtReply(r, complete) ==
    /\ Live /\ Hears
    /\ r \in ptReqs
    /\ ptReqs' = ptReqs \ {r}
    /\ stack' = IF authComplete THEN Answer(r, complete) ELSE stack
    /\ IF complete THEN UNCHANGED wsVars ELSE abortSocket
    /\ UNCHANGED <<authVars, store, authReq, beginReqs, accepted, ctxVars, cseq,
                   context>>

\* A text that is not JSON.
NotJson ==
    /\ Live /\ Hears
    /\ abortSocket
    /\ UNCHANGED <<authVars, serverVars, store, ctxVars, stack, cseq, context>>

(***************************************************************************)
(* Events of the user                                                      *)
(***************************************************************************)
UserAtDiscovery == Live /\ page = "discovery" /\ vis = "shown" /\ ~BoxUp

\* checkUrl with a valid URL, and the slot of serviceSelected.
SelectService(url) ==
    /\ UserAtDiscovery
    /\ connectNow(url)
    /\ ServerForgets
    /\ status' = "CONNECTING"
    /\ UNCHANGED <<authVars, store, page, vis, stack, cseq, context>>

\* checkUrl with an invalid one.
EnterBadUrl ==
    /\ UserAtDiscovery
    /\ Room
    /\ Push(BoxFrame)
    /\ UNCHANGED <<wsVars, authVars, serverVars, store, ctxVars, cseq, context>>

CloseWindow ==
    /\ Live
    /\ vis = "shown"
    /\ ~BoxUp
    /\ vis' = "closed"
    /\ UNCHANGED <<wsVars, authVars, serverVars, store, status, page, stack,
                   cseq, context>>

\* The user answers the box on top of the others.
DismissBox ==
    /\ Live
    /\ \E i \in DOMAIN stack :
          /\ stack[i].kind = "box" /\ ~stack[i].quit
          /\ \A j \in DOMAIN stack :
                j > i => ~(stack[j].kind = "box" /\ ~stack[j].quit)
          /\ stack' = [stack EXCEPT ![i] = Quit(@)]
    /\ UNCHANGED <<wsVars, authVars, serverVars, store, ctxVars, cseq, context>>

(***************************************************************************)
(* Timers and returns                                                      *)
(***************************************************************************)
\* Mistake: without a connection the timer is not started.
TimerFiresIfConnected(i) ==
    /\ Live /\ sock = "connected"
    /\ i \in DOMAIN stack
    /\ stack[i].timer = "started" /\ ~stack[i].quit
    /\ stack' = [stack EXCEPT ![i] = Quit(@)]
    /\ UNCHANGED <<wsVars, authVars, serverVars, store, ctxVars, cseq, context>>

\* The timer of sendReceiveCseq, in whatever loop it is noticed.
TimerFires(i) ==
    /\ Live
    /\ i \in DOMAIN stack
    /\ stack[i].timer = "started" /\ ~stack[i].quit
    /\ stack' = [stack EXCEPT ![i] = Quit(@)]
    /\ UNCHANGED <<wsVars, authVars, serverVars, store, ctxVars, cseq, context>>

\* box.exec() returns to the slot that opened it.
ReturnBox ==
    /\ TopReturns
    /\ Top.kind = "box"
    /\ stack' = Rest
    /\ status' = IF Top.resume THEN "WAIT_AUTH" ELSE status
    /\ UNCHANGED <<wsVars, authVars, serverVars, store, page, vis, cseq,
                   context>>

\* sendReceiveCseq up to loop.exec(): writeMessage always reports success.
SendRequest(op, timeout) ==
    /\ Live
    /\ Room
    /\ cseq < MaxCseq
    /\ cseq' = cseq + 1
    /\ ptReqs' = IF Delivers THEN ptReqs \cup {[cseq |-> cseq, op |-> op]}
                             ELSE ptReqs
    /\ Push(ReqFrame(op, cseq, Timer(timeout)))
    /\ UNCHANGED <<wsVars, authVars, store, ctxVars, authReq, beginReqs,
                   accepted, context>>

=============================================================================
