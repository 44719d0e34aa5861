-------------------------------- MODULE J2534 --------------------------------
(***************************************************************************)
(* The pass thru functions the host calls (J2534.cpp), over the context.   *)
(*                                                                         *)
(* A function that waits is two steps: the call, which pushes its loop,    *)
(* and the return, when that loop is marked and innermost.                 *)
(*                                                                         *)
(* HostMayNest: the host calls a function from a handler that a nested     *)
(* loop dispatches.  One such call no host here makes: PassThruClose of    *)
(* the open device, which deletes the context whatever runs on it          *)
(* (ClosesIdle).                                                           *)
(***************************************************************************)
EXTENDS GretioContext

CONSTANTS
    HostOps,      \* BOUND: the operations this host calls
    Timeouts,     \* BOUND: the Timeout arguments it passes, in units of 8 ms
    HostMayNest   \* BOOLEAN

VARIABLES
    lastError,    \* the text of PassThruGetLastError
    code          \* what the last function to return has returned

apiVars == <<lastError, code>>
vars == <<wsVars, authVars, serverVars, store, ctxVars, stack, cseq, context,
          apiVars>>

ASSUME HostAssumption ==
    /\ HostOps \subseteq Ops
    /\ Timeouts \subseteq 0..(2 * HalfLong - 1)
    /\ HostMayNest \in BOOLEAN

Codes == {"none", "STATUS_NOERROR", "ERR_DEVICE_IN_USE",
          "ERR_DEVICE_NOT_CONNECTED", "ERR_INVALID_DEVICE_ID",
          "ERR_NULL_PARAMETER", "ERR_FAILED", "passThruResult"}

Init == CtxInit /\ store = [s \in Servers |-> NoToken]
                /\ lastError = "NoErrorYet" /\ code = "none"

HostCalls == HostMayNest \/ stack = <<>>

\* A return without any other effect.
Rejected(c) ==
    /\ code' = c
    /\ UNCHANGED <<wsVars, authVars, serverVars, store, ctxVars, stack, cseq,
                   context, lastError>>

(***************************************************************************)
(* PassThruOpen and PassThruClose                                          *)
(***************************************************************************)
PassThruOpen ==
    /\ HostCalls
    /\ \/ Live /\ Rejected("ERR_DEVICE_IN_USE")
       \/ NewContext /\ UNCHANGED apiVars

\* Mistake: the result of waitForOpen is not looked at.
OpenReturnsUnchecked ==
    /\ TopReturns
    /\ Top.kind = "open"
    /\ stack' = Rest
    /\ code' = "STATUS_NOERROR"
    /\ UNCHANGED <<wsVars, authVars, serverVars, store, ctxVars, cseq, context,
                   lastError>>

\* waitForOpen returns; without a login the context is deleted again.
PassThruOpenReturns ==
    /\ TopReturns
    /\ Top.kind = "open"
    /\ stack' = Rest
    /\ \/ /\ status = "CONNECTED"
          /\ code' = "STATUS_NOERROR"
          /\ UNCHANGED <<wsVars, authVars, serverVars, store, ctxVars, cseq,
                         context>>
       \/ /\ status # "CONNECTED"
          /\ code' = "ERR_DEVICE_NOT_CONNECTED"
          /\ DeleteContext
    /\ UNCHANGED lastError

PassThruClose(validId) ==
    /\ HostCalls
    /\ \/ ~Live /\ Rejected("STATUS_NOERROR")
       \/ Live /\ ~validId /\ Rejected("ERR_INVALID_DEVICE_ID")
       \/ /\ Live /\ validId
          /\ code' = "STATUS_NOERROR"
          /\ DeleteContext
          /\ UNCHANGED <<stack, lastError>>

(***************************************************************************)
(* The functions that send a request                                       *)
(***************************************************************************)
WsRequestTimeout == 1250   \* WS_REQUEST_TIMEOUT, 10000 ms

RequestWithin(op, timeout) == SendRequest(op, timeout) /\ UNCHANGED apiVars

Request(op) == RequestWithin(op, WsRequestTimeout)

\* Twice the usual time, for the two slow operations.
SlowRequest(op) == RequestWithin(op, 2 * WsRequestTimeout)

\* The time the host gave is added, in unsigned long.
TimedRequest(op, Timeout) ==
    RequestWithin(op, ULong(WsRequestTimeout + Timeout))

Calls(op) == HostCalls /\ op \in HostOps

WithoutContext == ~Live /\ Rejected("ERR_DEVICE_NOT_CONNECTED")

PassThruConnect(validId) ==
    /\ Calls("Connect")
    /\ \/ WithoutContext
       \/ Live /\ ~validId /\ Rejected("ERR_INVALID_DEVICE_ID")
       \/ validId /\ Request("Connect")

PassThruDisconnect ==
    Calls("Disconnect") /\ (WithoutContext \/ RequestWithin("Disconnect", 625))

PassThruReadMsgs(Timeout) ==
    Calls("ReadMsgs") /\ (WithoutContext \/ TimedRequest("ReadMsgs", Timeout))

PassThruWriteMsgs(Timeout) ==
    Calls("WriteMsgs") /\ (WithoutContext \/ TimedRequest("WriteMsgs", Timeout))

\* null: pMsg is a null pointer.
PassThruStartPeriodicMsg(null) ==
    /\ Calls("StartPeriodicMsg")
    /\ \/ WithoutContext
       \/ Live /\ null /\ Rejected("ERR_NULL_PARAMETER")
       \/ ~null /\ Request("StartPeriodicMsg")

PassThruStopPeriodicMsg ==
    Calls("StopPeriodicMsg") /\ (WithoutContext \/ Request("StopPeriodicMsg"))

\* null: a mandatory pointer is null, for a flow control filter the flow
\* control message too.
PassThruStartMsgFilter(null) ==
    /\ Calls("StartMsgFilter")
    /\ \/ WithoutContext
       \/ Live /\ null /\ Rejected("ERR_NULL_PARAMETER")
       \/ ~null /\ Request("StartMsgFilter")

PassThruStopMsgFilter ==
    Calls("StopMsgFilter") /\ (WithoutContext \/ SlowRequest("StopMsgFilter"))

PassThruSetProgrammingVoltage(validId) ==
    /\ Calls("SetProgrammingVoltage")
    /\ \/ WithoutContext
       \/ Live /\ ~validId /\ Rejected("ERR_INVALID_DEVICE_ID")
       \/ validId /\ SlowRequest("SetProgrammingVoltage")

\* null: the configuration list of GET_CONFIG or SET_CONFIG has no pointer.
\* Every other ioctl is simpleIotcl.
PassThruIoctl(null) ==
    /\ Calls("Ioctl")
    /\ \/ WithoutContext
       \/ Live /\ null /\ Rejected("ERR_NULL_PARAMETER")
       \/ ~null /\ Request("Ioctl")

\* These three return ERR_FAILED without a text.
SilentOps == {"Connect", "Disconnect", "Ioctl"}

\* Mistake: `result` starts as true.
RequestReturnsTrue ==
    /\ TopReturns
    /\ Top.kind = "req"
    /\ stack' = Rest
    /\ code' = "passThruResult"
    /\ UNCHANGED <<wsVars, authVars, serverVars, store, ctxVars, cseq, context,
                   lastError>>

\* loop.exec() returns in sendReceiveCseq, and the function with it.
RequestReturns ==
    /\ TopReturns
    /\ Top.kind = "req"
    /\ stack' = Rest
    /\ \/ /\ Top.reply # NoReply
          /\ code' = "passThruResult"
          /\ UNCHANGED lastError
       \/ /\ Top.reply = NoReply
          /\ code' = "ERR_FAILED"
          /\ lastError' = IF Top.op \in SilentOps THEN lastError
                          ELSE "CouldNotSend"
    /\ UNCHANGED <<wsVars, authVars, serverVars, store, ctxVars, cseq, context>>

\* What PassThruGetLastError copies to the host.
PassThruGetLastError ==
    IF Live THEN lastError ELSE "ContextIsNull"

(***************************************************************************)
(* The specification                                                       *)
(***************************************************************************)
\* The host, not the code: it does not have the context deleted under a loop
\* that runs on it, which has no defined behaviour.
ClosesIdle(validId) == Live /\ validId => stack = <<>>

Host ==
    \/ PassThruOpen
    \/ \E ok \in BOOLEAN : \/ PassThruClose(ok) /\ ClosesIdle(ok)
                           \/ PassThruConnect(ok)
                           \/ PassThruSetProgrammingVoltage(ok)
    \/ \E null \in BOOLEAN : \/ PassThruStartPeriodicMsg(null)
                             \/ PassThruStartMsgFilter(null)
                             \/ PassThruIoctl(null)
    \/ \E Timeout \in Timeouts : \/ PassThruReadMsgs(Timeout)
                                 \/ PassThruWriteMsgs(Timeout)
    \/ PassThruDisconnect
    \/ PassThruStopPeriodicMsg
    \/ PassThruStopMsgFilter

Server ==
    \/ AuthChallenge \/ AuthGranted \/ AuthAccepted \/ AuthRejected
    \/ BeginAccepted \/ BeginRefused
    \/ \E r \in ptReqs, complete \in BOOLEAN : PtReply(r, complete)
    \/ NotJson

Socket == SslErrors \/ SocketConnected \/ SocketConnectedNoCert \/ SocketDrops

User ==
    \/ \E url \in Urls : SelectService(url)
    \/ EnterBadUrl \/ CloseWindow \/ DismissBox

Events ==
    /\ \/ Socket \/ Server \/ User \/ ReturnBox
       \/ \E i \in DOMAIN stack : TimerFires(i)
    /\ UNCHANGED apiVars

Returns == PassThruOpenReturns \/ RequestReturns

Next == Host \/ Events \/ Returns

Spec == Init /\ [][Next]_vars

\* Each nested loop looks at its mark after every pass over the events, so once
\* marked it returns unless loops nested in it run for ever; a timer that was
\* started fires; the user answers a modal box.
Fairness ==
    /\ \A i \in 1..MaxDepth :
          /\ SF_vars(Len(stack) = i /\ Returns)
          /\ SF_vars(Len(stack) = i /\ ReturnBox /\ UNCHANGED apiVars)
          /\ WF_vars(TimerFires(i) /\ UNCHANGED apiVars)
    /\ WF_vars(DismissBox /\ UNCHANGED apiVars)

FairSpec == Spec /\ Fairness

(***************************************************************************)
(* Safety                                                                  *)
(***************************************************************************)
Frames == [kind : {"open", "req", "box"}, op : Ops \cup {"none"}, cseq : Nat,
           quit : BOOLEAN,
           reply : {NoReply} \cup [op : Ops, complete : BOOLEAN],
           resume : BOOLEAN, timer : {"started", "none"}]

\* Every variable has its type.
TypeOK ==
    /\ sock \in {"unconnected", "connecting", "connected", "closing"}
    /\ peer \in Peers \cup {NoPeer}
    /\ ssl \in {"unchecked", "ignored", "fatal"}
    /\ subs \in 0..MaxSubs
    /\ authComplete \in BOOLEAN
    /\ token \in Servers \cup {NoToken}
    /\ pubkey \in Servers \cup {NoPeer}
    /\ store \in [Servers -> Servers \cup {NoToken}]
    /\ authReq \in {"none", "new", "token"}
    /\ beginReqs \in Nat
    /\ ptReqs \subseteq [cseq : Nat, op : Ops]
    /\ accepted \in {"none", "newToken", "token", "session"}
    /\ context \in {"null", "live"}
    /\ status \in {"NOT_CONNECTED", "WAIT_AUTH", "CONNECTED", "CONNECTING"}
    /\ page \in {"discovery", "auth"}
    /\ vis \in {"shown", "hidden", "closed"}
    /\ stack \in Seq(Frames)
    /\ cseq \in Nat
    /\ lastError \in {"NoErrorYet", "CouldNotSend"}
    /\ code \in Codes

\* The context believes it is connected only on a socket that came up, whose
\* device granted THIS connection a new token or a session: a drop, a failed
\* login, a second selection or the slot that runs after a modal box never
\* leaves CONNECTED behind (gretiowebcontext.cpp:16-53, 125-131).
ConnectedMeansAccepted ==
    status = "CONNECTED" => /\ sock \in {"connected", "closing"}
                            /\ accepted \in {"newToken", "session"}

\* An open socket always has a slot for its messages: no path of
\* close(), reconnection or selection leaves a connection nobody reads
\* (gretiowebsocketclient.cpp:59-95).
ListenerAlive == sock = "connected" => subs >= 1

\* Without a socket the user can choose a device again: the window shows the
\* discovery page, unless the user closed it (gretiowebcontext.cpp:125-131).
DeviceListOffered ==
    Live /\ sock = "unconnected" => page = "discovery" /\ vis # "hidden"

\* A token is kept under the key of the server that issued it and presented to
\* that server only, over any sequence of reconnections and failed writes
\* (gretioauthhandler.cpp:73-113, 159-179).
TokenBelongsToServer ==
    /\ \A s \in Servers : store[s] \in {NoToken, s}
    /\ authReq = "token" => token = peer

\* A pass thru session is asked for only on a connection whose token the
\* device accepted (gretioauthhandler.cpp:37-48).
BeginOnlyAfterAuth == beginReqs > 0 => accepted \in {"token", "session"}

\* A call gets the answer to its own request, however late or out of order
\* the answers arrive and however the calls are nested
\* (gretiowebcontext.cpp:64-107).
ReplyMatchesRequest ==
    \A i \in DOMAIN stack :
        stack[i].reply # NoReply => /\ stack[i].kind = "req"
                                    /\ stack[i].reply.op = stack[i].op

\* A request waits without a timer only where the host's own time wraps the
\* sum: from 2^31 - 11000 ms on the sum is negative as a long, in the last
\* 11000 ms of an unsigned long it is positive again, and the two slow
\* operations and all others always have their timer (J2534.cpp:182, 228,
\* gretiowebcontext.cpp:93).
Wraps(Timeout) == Timeout \in (HalfLong - 1375)..(2 * HalfLong - 1376)

TimedUnlessWrapped ==
    \A i \in DOMAIN stack :
        stack[i].kind = "req" /\ stack[i].timer = "none"
            => /\ stack[i].op \in {"ReadMsgs", "WriteMsgs"}
               /\ \E Timeout \in Timeouts : Wraps(Timeout)

\* Two requests never wait under one number, a number not yet used is waited
\* for by nobody, and the request the device knows under a number is the one
\* waiting under it (gretiowebcontext.cpp:64-86).
CseqUnique ==
    /\ \A i, j \in DOMAIN stack :
          stack[i].kind = "req" /\ stack[j].kind = "req"
              => /\ stack[i].cseq < cseq
                 /\ stack[i].cseq = stack[j].cseq => i = j
    /\ \A r \in ptReqs :
          /\ r.cseq < cseq
          /\ \A i \in DOMAIN stack :
                stack[i].kind = "req" /\ stack[i].cseq = r.cseq
                    => stack[i].op = r.op

\* The steps of a login keep their order on each connection, across drops,
\* second selections and stale replies: a session is asked for when the login
\* is answered, a login is outstanding only on a socket that came up and before
\* CONNECTED, and the key in use is that of the server at the other end
\* (gretioauthhandler.cpp:14-113, gretiowebcontext.cpp:15-38).
HandshakeOrder ==
    /\ beginReqs > 0 => authReq = "none"
    /\ authReq # "none" => /\ status # "CONNECTED"
                           /\ sock \in {"connected", "closing"}
    /\ sock = "connected" => peer \in Servers /\ pubkey = peer

\* What the calls that run may rely on, together: their numbers differ, each is
\* given its own answer, and has a timer unless the host's time wraps it.
CallsSafe == CseqUnique /\ ReplyMatchesRequest /\ TimedUnlessWrapped

\* The state of a login is consistent: types, the order of its steps, a session
\* only for an accepted token, and a device to choose when there is no socket.
LoginSafe == TypeOK /\ HandshakeOrder /\ BeginOnlyAfterAuth /\ DeviceListOffered

(***************************************************************************)
(* Action properties                                                       *)
(***************************************************************************)
\* The host sees the device of PassThruDevice: a running call is a loop of
\* sendReceiveCseq, its answer the reply that loop holds.
waitingCalls ==
    {[id |-> stack[i].cseq, op |-> stack[i].op,
      answer |-> IF stack[i].reply = NoReply THEN "none"
                 ELSE stack[i].reply.op] :
         i \in {j \in DOMAIN stack : stack[j].kind = "req"}}

Device == INSTANCE PassThruDevice WITH
    Ids <- 0..MaxCseq,
    device <- IF ~Live THEN "closed"
              ELSE IF \E i \in DOMAIN stack : stack[i].kind = "open"
                   THEN "opening" ELSE "open",
    calls <- waitingCalls,
    result <- code

\* The functions keep every promise of PassThruDevice, whatever the websocket,
\* the user and the timers do (J2534.cpp:23-68, 424-440).
ImplementsDevice == Device!DSpec

\* PassThruOpen reports success only with a context that lives and a device
\* that granted the connection, although events are dispatched between the
\* login and the return (J2534.cpp:35-47, gretiowebcontext.cpp:109-123).
OpenReturnsAuthenticated ==
    [][PassThruOpenReturns /\ code' = "STATUS_NOERROR"
        => context' = "live" /\ accepted' \in {"newToken", "session"}]_vars

(***************************************************************************)
(* Liveness                                                                *)
(***************************************************************************)
Waiting(c) == \E i \in DOMAIN stack : stack[i].kind = "req" /\ stack[i].cseq = c
Opening == \E i \in DOMAIN stack : stack[i].kind = "open"

\* A request whose timer did not start waits for its answer alone.
Untimed == \E i \in DOMAIN stack :
              stack[i].kind = "req" /\ stack[i].timer = "none" /\ ~stack[i].quit

\* Every request returns, with an answer or by its timer, whatever the device
\* and the calls nested in it do, unless it waits under, or is, a request
\* whose timer did not start (gretiowebcontext.cpp:87-107).
RequestsReturn == \A c \in 0..MaxCseq : Waiting(c) ~> ~Waiting(c) \/ Untimed

\* A login that succeeds ends PassThruOpen, under the same condition
\* (gretiowebcontext.cpp:115, 118).
LoginEndsOpen == Opening /\ status = "CONNECTED" ~> ~Opening \/ Untimed

(***************************************************************************)
(* What comments and headers say and the code does not do.  Each of these  *)
(* is violated; the run that shows it is named after the property.         *)
(***************************************************************************)
\* gretioauthhandler.h:9-13, "It provides auth management before allowing
\* messages to be emitted further": an answer reaches a call only on a
\* connection that was granted.  authComplete survives a reconnection.
AuthBeforeMessages ==
    [][(\E r \in ptReqs, complete \in BOOLEAN : PtReply(r, complete))
        /\ stack' # stack => accepted \in {"newToken", "session"}]_vars

\* gretiowebcontext.cpp:114, "wait forever for auth to finish or some failure",
\* and line 116 ties the loop to the window's close: once the user has closed
\* the window, PassThruOpen returns or the window comes back.  The connected
\* member is a slot, not a signal, and never ends the loop.
CloseEndsOpen == Opening /\ vis = "closed" ~> ~Opening \/ vis # "closed"

\* gretiowebsocketclient.cpp:113-118, 'check if required "id" and "t" types
\* exist': a call never takes an answer without them.
RequiredFieldsChecked ==
    \A i \in DOMAIN stack : stack[i].reply # NoReply => stack[i].reply.complete

=============================================================================
