----------------------------- MODULE J2534_proofs -----------------------------
(***************************************************************************)
(* Proofs about the host's side of the pass thru functions, for every      *)
(* value of the constants: J2534 is safe and implements PassThruDevice;    *)
(* the file of tokens (TokenStore); the messages on their way between the  *)
(* host's arrays and the device (PassThruMsgs).                            *)
(***************************************************************************)
EXTENDS J2534, TokenStore, PassThruMsgs, SequenceTheorems, WellFoundedInduction, TLAPS


(***************************************************************************)
(* The stack of loops                                                      *)
(***************************************************************************)
\* Pushing a frame keeps the others at their places.
LEMMA PushFacts ==
    ASSUME NEW F, NEW s \in Seq(F), NEW f \in F
    PROVE  /\ Append(s, f) \in Seq(F)
           /\ Append(s, f) # <<>>
           /\ DOMAIN s = 1..Len(s) /\ Len(s) \in Nat
           /\ DOMAIN Append(s, f) = 1..(Len(s) + 1)
           /\ Len(Append(s, f)) = Len(s) + 1
           /\ \A i \in 1..Len(s) : Append(s, f)[i] = s[i]
           /\ Append(s, f)[Len(s) + 1] = f
<1>1. Append(s, f) \in Seq(F)
  BY AppendProperties
<1> QED
  BY <1>1, AppendProperties, LenProperties

\* Returning from the innermost loop keeps the others at their places.
LEMMA RestFacts ==
    ASSUME NEW F, NEW s \in Seq(F), s # <<>>
    PROVE  /\ SubSeq(s, 1, Len(s) - 1) \in Seq(F)
           /\ Len(s) \in Nat \ {0}
           /\ DOMAIN s = 1..Len(s)
           /\ DOMAIN SubSeq(s, 1, Len(s) - 1) = 1..(Len(s) - 1)
           /\ \A i \in 1..(Len(s) - 1) : SubSeq(s, 1, Len(s) - 1)[i] = s[i]
           /\ Len(s) = 1 => SubSeq(s, 1, Len(s) - 1) = <<>>
<1>1. /\ Len(s) \in Nat \ {0}
      /\ DOMAIN s = 1..Len(s)
      /\ \A i \in 1..Len(s) : s[i] \in F
  BY EmptySeq, LenProperties, ElementOfSeq
<1> DEFINE r == SubSeq(s, 1, Len(s) - 1)
<1>2. /\ r \in Seq(F)
      /\ Len(r) = Len(s) - 1
      /\ \A i \in 1..(Len(s) - 1) : r[i] = s[i]
  <2>1. \A i \in 1..(Len(s) - 1) : s[i] \in F
    BY <1>1
  <2> QED
    BY <1>1, <2>1, SubSeqProperties
<1>3. DOMAIN r = 1..(Len(s) - 1)
  BY <1>2, LenProperties
<1>4. Len(s) = 1 => r = <<>>
  BY <1>1, SubSeqEmpty
<1> QED
  BY <1>1, <1>2, <1>3, <1>4

\* Changing frames in place keeps the sequence.
LEMMA MapFacts ==
    ASSUME NEW F, NEW s \in Seq(F), NEW g \in [DOMAIN s -> F]
    PROVE  g \in Seq(F) /\ DOMAIN g = DOMAIN s
<1>1. DOMAIN s = 1..Len(s) /\ Len(s) \in Nat
  BY LenProperties
<1> QED
  BY <1>1, SeqDef

\* Every frame of the stack is a frame.
LEMMA FrameFacts ==
    ASSUME NEW F, NEW s \in Seq(F)
    PROVE  /\ DOMAIN s = 1..Len(s) /\ Len(s) \in Nat
           /\ \A i \in DOMAIN s : s[i] \in F
BY LenProperties, ElementOfSeq

(***************************************************************************)
(* Frames                                                                  *)
(***************************************************************************)
\* The frame of a request is a frame.
LEMMA FrameTypes ==
    ASSUME NEW op \in Ops, NEW c \in Nat, NEW t \in {"started", "none"}
    PROVE  ReqFrame(op, c, t) \in Frames
BY DEF ReqFrame, Frame, Frames

\* Marking a frame, or answering it, makes a frame.
LEMMA ChangedFrameTypes ==
    ASSUME NEW f \in Frames, NEW op \in Ops, NEW complete \in BOOLEAN
    PROVE  Replied(f, op, complete) \in Frames
BY DEF Replied, Frames

LEMMA QuitType ==
    ASSUME NEW f \in Frames
    PROVE  /\ Quit(f) \in Frames
           /\ Quit(f).kind = f.kind /\ Quit(f).op = f.op
           /\ Quit(f).cseq = f.cseq /\ Quit(f).reply = f.reply
BY DEF Quit, Frames

\* Marking one frame keeps the type of the stack.
LEMMA MarkType ==
    ASSUME NEW s \in Seq(Frames), NEW i \in DOMAIN s
    PROVE  /\ [s EXCEPT ![i] = Quit(@)] \in Seq(Frames)
           /\ DOMAIN [s EXCEPT ![i] = Quit(@)] = DOMAIN s
<1>1. \A j \in DOMAIN s : s[j] \in Frames
  BY FrameFacts
<1>2. Quit(s[i]) \in Frames
  BY <1>1, QuitType
<1>3. [s EXCEPT ![i] = Quit(@)] \in [DOMAIN s -> Frames]
  BY <1>1, <1>2, FrameFacts
<1> QED
  BY <1>3, MapFacts

\* The end of waitForOpen's loop keeps the type of the stack.
LEMMA QuitOpenType ==
    ASSUME stack \in Seq(Frames)
    PROVE  QuitOpen \in Seq(Frames) /\ DOMAIN QuitOpen = DOMAIN stack
<1>1. \A j \in DOMAIN stack : stack[j] \in Frames /\ Quit(stack[j]) \in Frames
  BY FrameFacts, QuitType
<1>2. QuitOpen \in [DOMAIN stack -> Frames]
  BY <1>1 DEF QuitOpen
<1> QED
  BY <1>2, MapFacts

\* So does the delivery of an answer.
LEMMA AnswerType ==
    ASSUME stack \in Seq(Frames),
           NEW r \in [cseq : Nat, op : Ops], NEW complete \in BOOLEAN
    PROVE  /\ Answer(r, complete) \in Seq(Frames)
           /\ DOMAIN Answer(r, complete) = DOMAIN stack
<1>1. \A j \in DOMAIN stack :
         stack[j] \in Frames /\ Replied(stack[j], r.op, complete) \in Frames
  BY FrameFacts, ChangedFrameTypes
<1>2. Answer(r, complete) \in [DOMAIN stack -> Frames]
  BY <1>1 DEF Answer
<1> QED
  BY <1>2, MapFacts

(***************************************************************************)
(* What the stack, the next number and the requests of the device satisfy  *)
(* together, as a predicate of their values.                               *)
(***************************************************************************)
StackOK(s, n, reqs) ==
    /\ \A i \in DOMAIN s : s[i].kind = "open" => i = 1
    /\ \A i \in DOMAIN s : s[i].kind = "req" => s[i].op \in Ops
    /\ \A i \in DOMAIN s :
          s[i].reply # NoReply => s[i].kind = "req" /\ s[i].reply.op = s[i].op
    /\ \A i, j \in DOMAIN s :
          s[i].kind = "req" /\ s[j].kind = "req"
              => s[i].cseq < n /\ (s[i].cseq = s[j].cseq => i = j)
    /\ \A r \in reqs :
          /\ r.cseq < n
          /\ \A i \in DOMAIN s :
                s[i].kind = "req" /\ s[i].cseq = r.cseq => s[i].op = r.op

LEMMA StackFewer ==
    ASSUME NEW s, NEW n, NEW R, NEW Q \in SUBSET R, StackOK(s, n, R)
    PROVE  StackOK(s, n, Q)
BY DEF StackOK

LEMMA StackEmpty ==
    ASSUME NEW n
    PROVE  StackOK(<<>>, n, {})
BY DEF StackOK

\* A box, or the loop of waitForOpen on an empty stack, is pushed.
LEMMA StackPush ==
    ASSUME NEW s \in Seq(Frames), NEW n, NEW R, StackOK(s, n, R),
           NEW f \in Frames, f.kind # "req", f.reply = NoReply,
           f.kind = "open" => s = <<>>
    PROVE  StackOK(Append(s, f), n, R)
<1> DEFINE t == Append(s, f)
<1>1. /\ DOMAIN s = 1..Len(s) /\ Len(s) \in Nat
      /\ DOMAIN t = 1..(Len(s) + 1)
      /\ \A i \in 1..Len(s) : t[i] = s[i]
      /\ t[Len(s) + 1] = f
  BY PushFacts
<1>2. s = <<>> => Len(s) = 0
  OBVIOUS
<1> HIDE DEF t
<1>3. \A i \in DOMAIN t : \/ i \in DOMAIN s /\ t[i] = s[i]
                          \/ i = Len(s) + 1 /\ t[i] = f
  BY <1>1
<1>4. \A i \in DOMAIN t : t[i].kind = "open" => i = 1
  BY <1>2, <1>3 DEF StackOK
<1> QED
  BY <1>3, <1>4 DEF StackOK, t

\* A new request takes the next number.
LEMMA StackPushReq ==
    ASSUME NEW s \in Seq(Frames), NEW n \in Nat, NEW R, StackOK(s, n, R),
           R \subseteq [cseq : Nat, op : Ops],
           NEW op \in Ops, NEW Q \in SUBSET (R \cup {[cseq |-> n, op |-> op]}),
           NEW timer \in {"started", "none"}
    PROVE  StackOK(Append(s, ReqFrame(op, n, timer)), n + 1, Q)
<1> DEFINE f == ReqFrame(op, n, timer)
           t == Append(s, f)
<1>1. f \in Frames
  BY FrameTypes
<1>2. f.kind = "req" /\ f.reply = NoReply /\ f.cseq = n /\ f.op = op
  BY DEF ReqFrame, Frame
<1>3. /\ DOMAIN s = 1..Len(s) /\ Len(s) \in Nat
      /\ DOMAIN t = 1..(Len(s) + 1)
      /\ \A i \in 1..Len(s) : t[i] = s[i]
      /\ t[Len(s) + 1] = f
  BY <1>1, PushFacts
<1>4. \A i \in DOMAIN s : s[i].cseq \in Nat
  <2>1. \A i \in DOMAIN s : s[i] \in Frames
    BY FrameFacts
  <2> QED
    BY <2>1 DEF Frames
<1> HIDE DEF f, t
<1>5. \A i \in DOMAIN t : t[i].kind = "open" => i = 1
  BY <1>2, <1>3 DEF StackOK
<1>6. \A i \in DOMAIN t :
         /\ t[i].reply # NoReply => t[i].kind = "req" /\ t[i].reply.op = t[i].op
         /\ t[i].kind = "req" => t[i].op \in Ops
  BY <1>2, <1>3 DEF StackOK
<1>7. \A i, j \in DOMAIN t :
         t[i].kind = "req" /\ t[j].kind = "req"
             => t[i].cseq < n + 1 /\ (t[i].cseq = t[j].cseq => i = j)
  BY <1>2, <1>3, <1>4 DEF StackOK
<1>8. ASSUME NEW r \in Q
      PROVE  /\ r.cseq < n + 1
             /\ \A i \in DOMAIN t :
                   t[i].kind = "req" /\ t[i].cseq = r.cseq => t[i].op = r.op
  <2>1. CASE r \in R
    BY <1>2, <1>3, <1>4, <2>1 DEF StackOK
  <2>2. CASE r = [cseq |-> n, op |-> op]
    BY <1>2, <1>3, <1>4, <2>2 DEF StackOK
  <2> QED
    BY <2>1, <2>2
<1> QED
  BY <1>5, <1>6, <1>7, <1>8 DEF StackOK, t, f

\* The innermost loop returns.
LEMMA StackRest ==
    ASSUME NEW s \in Seq(Frames), s # <<>>, NEW n, NEW R, StackOK(s, n, R)
    PROVE  StackOK(SubSeq(s, 1, Len(s) - 1), n, R)
<1> DEFINE t == SubSeq(s, 1, Len(s) - 1)
<1>1. /\ Len(s) \in Nat \ {0}
      /\ DOMAIN s = 1..Len(s)
      /\ DOMAIN t = 1..(Len(s) - 1)
      /\ \A i \in 1..(Len(s) - 1) : t[i] = s[i]
  BY RestFacts
<1> HIDE DEF t
<1>2. \A i \in DOMAIN t : i \in DOMAIN s /\ t[i] = s[i]
  BY <1>1
<1> QED
  BY <1>2 DEF StackOK, t

\* Loops are marked.
LEMMA StackMark ==
    ASSUME NEW s, NEW t, NEW n, NEW R, StackOK(s, n, R),
           DOMAIN t = DOMAIN s,
           \A i \in DOMAIN s : /\ t[i].kind = s[i].kind /\ t[i].op = s[i].op
                               /\ t[i].cseq = s[i].cseq
                               /\ t[i].reply = s[i].reply
    PROVE  StackOK(t, n, R)
BY DEF StackOK

\* An answer is delivered.
LEMMA StackAnswer ==
    ASSUME stack \in Seq(Frames), NEW n, NEW R, NEW r \in R,
           NEW complete \in BOOLEAN, StackOK(stack, n, R)
    PROVE  StackOK(Answer(r, complete), n, R \ {r})
<1> DEFINE t == Answer(r, complete)
<1>1. DOMAIN t = DOMAIN stack
  BY DEF Answer
<1>2. ASSUME NEW i \in DOMAIN stack
      PROVE  /\ t[i].kind = stack[i].kind /\ t[i].op = stack[i].op
             /\ t[i].cseq = stack[i].cseq
             /\ \/ t[i].reply = stack[i].reply
                \/ /\ stack[i].kind = "req" /\ stack[i].cseq = r.cseq
                   /\ t[i].reply.op = r.op
  <2>1. stack[i] \in Frames
    BY FrameFacts
  <2>2. CASE stack[i].kind = "req" /\ stack[i].cseq = r.cseq
    <3>1. t[i] = Replied(stack[i], r.op, complete)
      BY <2>2 DEF Answer
    <3> QED
      BY <2>1, <2>2, <3>1 DEF Replied, Frames
  <2>3. CASE ~(stack[i].kind = "req" /\ stack[i].cseq = r.cseq)
    BY <2>3 DEF Answer
  <2> QED
    BY <2>2, <2>3
<1> HIDE DEF t
<1>3. \A i \in DOMAIN stack : stack[i].kind = "req" /\ stack[i].cseq = r.cseq
                                   => stack[i].op = r.op
  BY DEF StackOK
<1>4. StackOK(t, n, R)
  BY <1>1, <1>2, <1>3 DEF StackOK
<1> QED
  BY <1>4, StackFewer DEF t

(***************************************************************************)
(* The inductive invariant                                                 *)
(***************************************************************************)
NoContext ==
    ~Live => /\ stack = <<>> /\ sock = "unconnected"
             /\ page = "discovery" /\ status = "NOT_CONNECTED"

StateInv ==
    /\ HandshakeOrder
    /\ ConnectedMeansAccepted
    /\ ListenerAlive
    /\ DeviceListOffered
    /\ TokenBelongsToServer
    /\ BeginOnlyAfterAuth
    /\ NoContext

Inv == TypeOK /\ StateInv /\ StackOK(stack, cseq, ptReqs)

\* What is known of a pushed frame.
LEMMA BoxFacts ==
    /\ BoxFrame \in Frames
    /\ BoxFrame.kind = "box" /\ BoxFrame.reply = NoReply
BY DEF BoxFrame, Frame, Frames

LEMMA ResumingBoxFacts ==
    /\ ResumingBoxFrame \in Frames
    /\ ResumingBoxFrame.kind = "box" /\ ResumingBoxFrame.reply = NoReply
BY DEF ResumingBoxFrame, Frame, Frames

LEMMA OpenFacts ==
    /\ OpenFrame \in Frames
    /\ OpenFrame.kind = "open" /\ OpenFrame.reply = NoReply
BY DEF OpenFrame, Frame, Frames

\* The initial state satisfies it.
LEMMA InvInit == Init => Inv
<1> SUFFICES ASSUME Init PROVE Inv
  OBVIOUS
<1> USE DEF Init, CtxInit, WsInit, AuthInit, ServerIdle
<1>0. stack \in Seq(Frames)
  <2>1. <<>> \in Seq(Frames)
    BY EmptySeq
  <2>2. stack = <<>>
    OBVIOUS
  <2> QED
    BY <2>1, <2>2, Zenon
<1>1. TypeOK
  <2>1. /\ sock \in {"unconnected", "connecting", "connected", "closing"}
        /\ peer \in Peers \cup {NoPeer}
        /\ ssl \in {"unchecked", "ignored", "fatal"}
        /\ subs \in 0..MaxSubs
        /\ store \in [Servers -> Servers \cup {NoToken}]
    BY WsAssumption
  <2>2. /\ authComplete \in BOOLEAN
        /\ token \in Servers \cup {NoToken}
        /\ pubkey \in Servers \cup {NoPeer}
    OBVIOUS
  <2>3. /\ authReq \in {"none", "new", "token"}
        /\ beginReqs \in Nat
        /\ ptReqs \subseteq [cseq : Nat, op : Ops]
        /\ accepted \in {"none", "newToken", "token", "session"}
    OBVIOUS
  <2>4. /\ context \in {"null", "live"}
        /\ status \in {"NOT_CONNECTED", "WAIT_AUTH", "CONNECTED", "CONNECTING"}
        /\ page \in {"discovery", "auth"}
        /\ vis \in {"shown", "hidden", "closed"}
        /\ cseq \in Nat
        /\ lastError \in {"NoErrorYet", "CouldNotSend"}
        /\ code \in Codes
    BY DEF Codes
  <2> QED
    BY <1>0, <2>1, <2>2, <2>3, <2>4, Zenon DEF TypeOK
<1>2. StateInv
  BY DEF StateInv, HandshakeOrder, ConnectedMeansAccepted, ListenerAlive,
         DeviceListOffered, TokenBelongsToServer, BeginOnlyAfterAuth, NoContext,
         Live
<1>3. StackOK(stack, cseq, ptReqs)
  BY StackEmpty
<1> QED
  BY <1>1, <1>2, <1>3 DEF Inv

\* The verdict on a certificate.
LEMMA SslErrorsInv ==
    ASSUME Inv, SslErrors, UNCHANGED apiVars
    PROVE  Inv'
<1> USE DEF SslErrors, onSslErrors, wsVars, authVars, serverVars, ctxVars,
           apiVars
<1>1. TypeOK'
  BY DEF Inv, TypeOK
<1>2. StateInv'
  BY DEF Inv, TypeOK, StateInv, HandshakeOrder, ConnectedMeansAccepted,
         ListenerAlive, DeviceListOffered, TokenBelongsToServer,
         BeginOnlyAfterAuth, NoContext, Live
<1>3. StackOK(stack, cseq, ptReqs)'
  BY DEF Inv
<1> QED
  BY <1>1, <1>2, <1>3 DEF Inv

\* A connection comes up: the login starts over.
LEMMA SocketConnectedInv ==
    ASSUME Inv, SocketConnected, UNCHANGED apiVars
    PROVE  Inv'
<1> USE DEF SocketConnected, onConnected, HandshakeDone, authOnConnected,
           peerCert, getTokenForKey, wsVars, authVars, serverVars, ctxVars,
           apiVars
<1>1. TypeOK'
  BY WsAssumption DEF Inv, TypeOK
<1>2. StateInv'
  BY WsAssumption DEF Inv, TypeOK, StateInv, HandshakeOrder,
         ConnectedMeansAccepted, ListenerAlive, DeviceListOffered,
         TokenBelongsToServer, BeginOnlyAfterAuth, NoContext, Live
<1>3. StackOK(stack, cseq, ptReqs)'
  BY StackFewer DEF Inv
<1> QED
  BY <1>1, <1>2, <1>3 DEF Inv

\* A connection without a certificate is closed under a modal box.
LEMMA SocketConnectedNoCertInv ==
    ASSUME Inv, SocketConnectedNoCert, UNCHANGED apiVars
    PROVE  Inv'
<1>a. /\ stack \in Seq(Frames)
      /\ ResumingBoxFrame \in Frames
      /\ ResumingBoxFrame.kind = "box" /\ ResumingBoxFrame.reply = NoReply
  BY ResumingBoxFacts DEF Inv, TypeOK
<1>0. /\ Append(stack, ResumingBoxFrame) \in Seq(Frames)
      /\ Append(stack, ResumingBoxFrame) # <<>>
  BY <1>a, PushFacts
<1> USE DEF SocketConnectedNoCert, onConnectedThenClose, HandshakeDone,
           authOnConnectedNoCert, Push, wsVars, authVars, serverVars, ctxVars,
           apiVars
<1>1. TypeOK'
  BY <1>0, WsAssumption DEF Inv, TypeOK
<1>2. StateInv'
  BY <1>0 DEF Inv, TypeOK, StateInv, HandshakeOrder, ConnectedMeansAccepted,
         ListenerAlive, DeviceListOffered, TokenBelongsToServer,
         BeginOnlyAfterAuth, NoContext, Live
<1>3. StackOK(stack, cseq, ptReqs)'
  BY <1>a, StackPush DEF Inv
<1> QED
  BY <1>1, <1>2, <1>3 DEF Inv

\* A connection ends, or fails to come up.
LEMMA SocketDropsInv ==
    ASSUME Inv, SocketDrops, UNCHANGED apiVars
    PROVE  Inv'
<1> USE DEF SocketDrops, disconnected, ServerForgets, wsVars, authVars,
           serverVars, ctxVars, apiVars
<1>1. TypeOK'
  BY DEF Inv, TypeOK
<1>2. StateInv'
  BY DEF Inv, TypeOK, StateInv, HandshakeOrder, ConnectedMeansAccepted,
         ListenerAlive, DeviceListOffered, TokenBelongsToServer,
         BeginOnlyAfterAuth, NoContext, Live
<1>3. StackOK(stack, cseq, ptReqs)'
  BY StackFewer DEF Inv
<1> QED
  BY <1>1, <1>2, <1>3 DEF Inv

\* The device shows a challenge.
LEMMA AuthChallengeInv ==
    ASSUME Inv, AuthChallenge, UNCHANGED apiVars
    PROVE  Inv'
<1> USE DEF AuthChallenge, Hears, wsVars, authVars, serverVars, ctxVars,
           apiVars
<1>1. TypeOK'
  BY DEF Inv, TypeOK
<1>2. StateInv'
  BY DEF Inv, TypeOK, StateInv, HandshakeOrder, ConnectedMeansAccepted,
         ListenerAlive, DeviceListOffered, TokenBelongsToServer,
         BeginOnlyAfterAuth, NoContext, Live
<1>3. StackOK(stack, cseq, ptReqs)'
  BY DEF Inv
<1> QED
  BY <1>1, <1>2, <1>3 DEF Inv

\* Ending waitForOpen's loop keeps what the stack satisfies.
LEMMA QuitOpenStack ==
    ASSUME stack \in Seq(Frames), NEW n, NEW R, StackOK(stack, n, R)
    PROVE  StackOK(QuitOpen, n, R)
<1>1. \A i \in DOMAIN stack : stack[i] \in Frames
  BY FrameFacts
<1>2. /\ DOMAIN QuitOpen = DOMAIN stack
      /\ \A i \in DOMAIN stack : /\ QuitOpen[i].kind = stack[i].kind
                                 /\ QuitOpen[i].op = stack[i].op
                                 /\ QuitOpen[i].cseq = stack[i].cseq
                                 /\ QuitOpen[i].reply = stack[i].reply
  BY <1>1, QuitType DEF QuitOpen
<1> QED
  BY <1>2, StackMark

\* So does marking one loop.
LEMMA MarkStack ==
    ASSUME NEW s \in Seq(Frames), NEW i \in DOMAIN s, NEW n, NEW R,
           StackOK(s, n, R)
    PROVE  StackOK([s EXCEPT ![i] = Quit(@)], n, R)
<1> DEFINE t == [s EXCEPT ![i] = Quit(@)]
<1>1. \A j \in DOMAIN s : s[j] \in Frames
  BY FrameFacts
<1>2. /\ DOMAIN t = DOMAIN s
      /\ \A j \in DOMAIN s : /\ t[j].kind = s[j].kind /\ t[j].op = s[j].op
                             /\ t[j].cseq = s[j].cseq /\ t[j].reply = s[j].reply
  BY <1>1, QuitType
<1> QED
  BY <1>2, StackMark

\* The device grants a new token.
LEMMA AuthGrantedInv ==
    ASSUME Inv, AuthGranted, UNCHANGED apiVars
    PROVE  Inv'
<1>a. stack \in Seq(Frames) /\ StackOK(stack, cseq, ptReqs)
  BY DEF Inv, TypeOK
<1>0. QuitOpen \in Seq(Frames) /\ StackOK(QuitOpen, cseq, ptReqs)
  BY <1>a, QuitOpenType, QuitOpenStack
<1>b. peer \in Servers /\ pubkey \in Servers
  BY DEF AuthGranted, Hears, Inv, StateInv, HandshakeOrder
<1> USE DEF AuthGranted, Hears, ServerGrants, newToken, addToken, AuthSuccess,
           Forwarded, wsVars, authVars, serverVars, ctxVars, apiVars
<1>1. TypeOK'
  <2>1. CASE ~authComplete /\ newToken /\ AuthSuccess /\ UNCHANGED wsVars
    BY <1>0, <1>b, <2>1 DEF Inv, TypeOK
  <2>2. CASE authComplete /\ Forwarded
    BY <1>0, <1>b, <2>2 DEF Inv, TypeOK
  <2> QED
    BY <2>1, <2>2
<1>2. StateInv'
  BY DEF Inv, TypeOK, StateInv, HandshakeOrder, ConnectedMeansAccepted,
         ListenerAlive, DeviceListOffered, TokenBelongsToServer,
         BeginOnlyAfterAuth, NoContext, Live
<1>3. StackOK(stack, cseq, ptReqs)'
  BY <1>a, <1>0
<1> QED
  BY <1>1, <1>2, <1>3 DEF Inv

\* The device accepts the token presented.
LEMMA AuthAcceptedInv ==
    ASSUME Inv, AuthAccepted, UNCHANGED apiVars
    PROVE  Inv'
<1> USE DEF AuthAccepted, Hears, ServerGrants, authGood, wsVars, authVars,
           serverVars, ctxVars, apiVars
<1>1. TypeOK'
  BY DEF Inv, TypeOK
<1>2. StateInv'
  BY DEF Inv, TypeOK, StateInv, HandshakeOrder, ConnectedMeansAccepted,
         ListenerAlive, DeviceListOffered, TokenBelongsToServer,
         BeginOnlyAfterAuth, NoContext, Live
<1>3. StackOK(stack, cseq, ptReqs)'
  BY DEF Inv
<1> QED
  BY <1>1, <1>2, <1>3 DEF Inv

\* The device refuses the login.
LEMMA AuthRejectedInv ==
    ASSUME Inv, AuthRejected, UNCHANGED apiVars
    PROVE  Inv'
<1>a. /\ stack \in Seq(Frames)
      /\ BoxFrame \in Frames
      /\ BoxFrame.kind = "box" /\ BoxFrame.reply = NoReply
  BY BoxFacts DEF Inv, TypeOK
<1>0. /\ Append(stack, BoxFrame) \in Seq(Frames)
      /\ Append(stack, BoxFrame) # <<>>
  BY <1>a, PushFacts
<1>b. 0 \in 0..MaxSubs
  BY WsAssumption
<1> USE DEF AuthRejected, Hears, authBad, AuthFail, close, Forwarded, Push,
           wsVars, authVars, serverVars, ctxVars, apiVars
<1>1. TypeOK'
  <2>1. CASE ~authComplete /\ authBad /\ AuthFail
    <3>1. authComplete' \in BOOLEAN
      BY <2>1
    <3>2. /\ subs' \in 0..MaxSubs
          /\ stack' \in Seq(Frames)
          /\ sock' = "closing"
          /\ UNCHANGED <<peer, ssl, token, pubkey, store, ctxVars, apiVars>>
      BY <1>0, <1>b, <2>1
    <3>3. /\ authReq' = "none"
          /\ UNCHANGED <<beginReqs, ptReqs, accepted, cseq, context>>
      BY DEF Inv, TypeOK
    <3> QED
      BY <3>1, <3>2, <3>3 DEF Inv, TypeOK
  <2>2. CASE authComplete /\ Forwarded
    BY <1>0, <1>b, <2>2 DEF Inv, TypeOK
  <2> QED
    BY <2>1, <2>2
<1>2. StateInv'
  BY DEF Inv, TypeOK, StateInv, HandshakeOrder, ConnectedMeansAccepted,
         ListenerAlive, DeviceListOffered, TokenBelongsToServer,
         BeginOnlyAfterAuth, NoContext, Live
<1>3. StackOK(stack, cseq, ptReqs)'
  BY <1>a, StackPush DEF Inv
<1> QED
  BY <1>1, <1>2, <1>3 DEF Inv

\* The device begins a session.
LEMMA BeginAcceptedInv ==
    ASSUME Inv, BeginAccepted, UNCHANGED apiVars
    PROVE  Inv'
<1>a. stack \in Seq(Frames) /\ StackOK(stack, cseq, ptReqs)
  BY DEF Inv, TypeOK
<1>0. QuitOpen \in Seq(Frames) /\ StackOK(QuitOpen, cseq, ptReqs)
  BY <1>a, QuitOpenType, QuitOpenStack
<1> USE DEF BeginAccepted, Hears, ServerGrants, sessionBegun, AuthSuccess,
           Forwarded, wsVars, authVars, serverVars, ctxVars, apiVars
<1>1. TypeOK'
  <2>1. CASE ~authComplete /\ sessionBegun /\ AuthSuccess /\ UNCHANGED wsVars
    BY <1>0, <2>1 DEF Inv, TypeOK
  <2>2. CASE authComplete /\ Forwarded
    BY <1>0, <2>2 DEF Inv, TypeOK
  <2> QED
    BY <2>1, <2>2
<1>2. StateInv'
  BY DEF Inv, TypeOK, StateInv, HandshakeOrder, ConnectedMeansAccepted,
         ListenerAlive, DeviceListOffered, TokenBelongsToServer,
         BeginOnlyAfterAuth, NoContext, Live
<1>3. StackOK(stack, cseq, ptReqs)'
  BY <1>a, <1>0
<1> QED
  BY <1>1, <1>2, <1>3 DEF Inv

\* The device refuses a session.
LEMMA BeginRefusedInv ==
    ASSUME Inv, BeginRefused, UNCHANGED apiVars
    PROVE  Inv'
<1>a. /\ stack \in Seq(Frames)
      /\ BoxFrame \in Frames
      /\ BoxFrame.kind = "box" /\ BoxFrame.reply = NoReply
  BY BoxFacts DEF Inv, TypeOK
<1>0. /\ Append(stack, BoxFrame) \in Seq(Frames)
      /\ Append(stack, BoxFrame) # <<>>
  BY <1>a, PushFacts
<1>b. 0 \in 0..MaxSubs
  BY WsAssumption
<1> USE DEF BeginRefused, Hears, authBad, AuthFail, close, Forwarded, Push,
           wsVars, authVars, serverVars, ctxVars, apiVars
<1>1. TypeOK'
  <2>1. CASE ~authComplete /\ authBad /\ AuthFail
    <3>1. authComplete' \in BOOLEAN
      BY <2>1
    <3>2. /\ subs' \in 0..MaxSubs
          /\ stack' \in Seq(Frames)
          /\ sock' = "closing"
          /\ UNCHANGED <<peer, ssl, token, pubkey, store, ctxVars, apiVars>>
      BY <1>0, <1>b, <2>1
    <3>3. /\ beginReqs' \in Nat
          /\ UNCHANGED <<authReq, ptReqs, accepted, cseq, context>>
      BY DEF Inv, TypeOK
    <3> QED
      BY <3>1, <3>2, <3>3 DEF Inv, TypeOK
  <2>2. CASE authComplete /\ Forwarded
    BY <1>0, <1>b, <2>2 DEF Inv, TypeOK
  <2> QED
    BY <2>1, <2>2
<1>2. StateInv'
  BY DEF Inv, TypeOK, StateInv, HandshakeOrder, ConnectedMeansAccepted,
         ListenerAlive, DeviceListOffered, TokenBelongsToServer,
         BeginOnlyAfterAuth, NoContext, Live
<1>3. StackOK(stack, cseq, ptReqs)'
  BY <1>a, StackPush DEF Inv
<1> QED
  BY <1>1, <1>2, <1>3 DEF Inv

\* An answer arrives.
LEMMA PtReplyInv ==
    ASSUME Inv, NEW r \in ptReqs, NEW complete \in BOOLEAN,
           PtReply(r, complete), UNCHANGED apiVars
    PROVE  Inv'
<1>a. /\ stack \in Seq(Frames) /\ StackOK(stack, cseq, ptReqs)
      /\ r \in [cseq : Nat, op : Ops]
  BY DEF Inv, TypeOK
<1>0. /\ Answer(r, complete) \in Seq(Frames)
      /\ StackOK(Answer(r, complete), cseq, ptReqs \ {r})
  BY <1>a, AnswerType, StackAnswer
<1>b. StackOK(stack, cseq, ptReqs \ {r})
  BY <1>a, StackFewer
<1> USE DEF PtReply, Hears, abortSocket, wsVars, authVars, serverVars,
           ctxVars, apiVars
<1>1. TypeOK'
  BY <1>0 DEF Inv, TypeOK
<1>2. StateInv'
  BY DEF Inv, TypeOK, StateInv, HandshakeOrder, ConnectedMeansAccepted,
         ListenerAlive, DeviceListOffered, TokenBelongsToServer,
         BeginOnlyAfterAuth, NoContext, Live
<1>3. StackOK(stack, cseq, ptReqs)'
  BY <1>0, <1>b
<1> QED
  BY <1>1, <1>2, <1>3 DEF Inv

\* A text that is not JSON.
LEMMA NotJsonInv ==
    ASSUME Inv, NotJson, UNCHANGED apiVars
    PROVE  Inv'
<1> USE DEF NotJson, Hears, abortSocket, wsVars, authVars, serverVars,
           ctxVars, apiVars
<1>1. TypeOK'
  BY DEF Inv, TypeOK
<1>2. StateInv'
  BY DEF Inv, TypeOK, StateInv, HandshakeOrder, ConnectedMeansAccepted,
         ListenerAlive, DeviceListOffered, TokenBelongsToServer,
         BeginOnlyAfterAuth, NoContext, Live
<1>3. StackOK(stack, cseq, ptReqs)'
  BY DEF Inv
<1> QED
  BY <1>1, <1>2, <1>3 DEF Inv

\* The user selects a device.
LEMMA SelectServiceInv ==
    ASSUME Inv, NEW url \in Urls, SelectService(url), UNCHANGED apiVars
    PROVE  Inv'
<1> USE DEF SelectService, UserAtDiscovery, connectNow, ServerForgets, wsVars,
           authVars, serverVars, ctxVars, apiVars
<1>1. TypeOK'
  BY WsAssumption DEF Inv, TypeOK
<1>2. StateInv'
  BY DEF Inv, TypeOK, StateInv, HandshakeOrder, ConnectedMeansAccepted,
         ListenerAlive, DeviceListOffered, TokenBelongsToServer,
         BeginOnlyAfterAuth, NoContext, Live
<1>3. StackOK(stack, cseq, ptReqs)'
  BY StackFewer DEF Inv
<1> QED
  BY <1>1, <1>2, <1>3 DEF Inv

\* The user enters what is no URL.
LEMMA EnterBadUrlInv ==
    ASSUME Inv, EnterBadUrl, UNCHANGED apiVars
    PROVE  Inv'
<1>a. /\ stack \in Seq(Frames)
      /\ BoxFrame \in Frames
      /\ BoxFrame.kind = "box" /\ BoxFrame.reply = NoReply
  BY BoxFacts DEF Inv, TypeOK
<1>0. /\ Append(stack, BoxFrame) \in Seq(Frames)
      /\ Append(stack, BoxFrame) # <<>>
  BY <1>a, PushFacts
<1> USE DEF EnterBadUrl, UserAtDiscovery, Push, wsVars, authVars, serverVars,
           ctxVars, apiVars
<1>1. TypeOK'
  BY <1>0 DEF Inv, TypeOK
<1>2. StateInv'
  BY DEF Inv, TypeOK, StateInv, HandshakeOrder, ConnectedMeansAccepted,
         ListenerAlive, DeviceListOffered, TokenBelongsToServer,
         BeginOnlyAfterAuth, NoContext, Live
<1>3. StackOK(stack, cseq, ptReqs)'
  BY <1>a, StackPush DEF Inv
<1> QED
  BY <1>1, <1>2, <1>3 DEF Inv

\* The user closes the window.
LEMMA CloseWindowInv ==
    ASSUME Inv, CloseWindow, UNCHANGED apiVars
    PROVE  Inv'
<1> USE DEF CloseWindow, wsVars, authVars, serverVars, ctxVars, apiVars
<1>1. TypeOK'
  BY DEF Inv, TypeOK
<1>2. StateInv'
  BY DEF Inv, TypeOK, StateInv, HandshakeOrder, ConnectedMeansAccepted,
         ListenerAlive, DeviceListOffered, TokenBelongsToServer,
         BeginOnlyAfterAuth, NoContext, Live
<1>3. StackOK(stack, cseq, ptReqs)'
  BY DEF Inv
<1> QED
  BY <1>1, <1>2, <1>3 DEF Inv

\* A timer fires.
LEMMA TimerFiresInv ==
    ASSUME Inv, NEW i \in DOMAIN stack, TimerFires(i), UNCHANGED apiVars
    PROVE  Inv'
<1>a. stack \in Seq(Frames) /\ StackOK(stack, cseq, ptReqs)
  BY DEF Inv, TypeOK
<1>0. /\ [stack EXCEPT ![i] = Quit(@)] \in Seq(Frames)
      /\ StackOK([stack EXCEPT ![i] = Quit(@)], cseq, ptReqs)
  BY <1>a, MarkType, MarkStack
<1> USE DEF TimerFires, wsVars, authVars, serverVars, ctxVars, apiVars
<1>1. TypeOK'
  BY <1>0 DEF Inv, TypeOK
<1>2. StateInv'
  BY DEF Inv, TypeOK, StateInv, HandshakeOrder, ConnectedMeansAccepted,
         ListenerAlive, DeviceListOffered, TokenBelongsToServer,
         BeginOnlyAfterAuth, NoContext, Live
<1>3. StackOK(stack, cseq, ptReqs)'
  BY <1>0
<1> QED
  BY <1>1, <1>2, <1>3 DEF Inv

\* The user answers a box.
LEMMA DismissBoxInv ==
    ASSUME Inv, DismissBox, UNCHANGED apiVars
    PROVE  Inv'
<1>a. stack \in Seq(Frames) /\ StackOK(stack, cseq, ptReqs)
  BY DEF Inv, TypeOK
<1>b. PICK i \in DOMAIN stack : stack' = [stack EXCEPT ![i] = Quit(@)]
  BY DEF DismissBox
<1>0. stack' \in Seq(Frames) /\ StackOK(stack', cseq, ptReqs)
  BY <1>a, <1>b, MarkType, MarkStack
<1>c. /\ UNCHANGED <<wsVars, authVars, serverVars, store, ctxVars, cseq,
                     context>>
      /\ Live
  BY DEF DismissBox
<1> USE DEF wsVars, authVars, serverVars, ctxVars, apiVars
<1>1. TypeOK'
  BY <1>0, <1>c DEF Inv, TypeOK
<1>2. StateInv'
  BY <1>c DEF Inv, TypeOK, StateInv, HandshakeOrder, ConnectedMeansAccepted,
         ListenerAlive, DeviceListOffered, TokenBelongsToServer,
         BeginOnlyAfterAuth, NoContext, Live
<1>3. StackOK(stack, cseq, ptReqs)'
  BY <1>0, <1>c
<1> QED
  BY <1>1, <1>2, <1>3 DEF Inv

\* A modal box returns.
LEMMA ReturnBoxInv ==
    ASSUME Inv, ReturnBox, UNCHANGED apiVars
    PROVE  Inv'
<1>a. stack \in Seq(Frames) /\ stack # <<>> /\ StackOK(stack, cseq, ptReqs)
  BY DEF Inv, TypeOK, ReturnBox, TopReturns
<1>0. Rest \in Seq(Frames) /\ StackOK(Rest, cseq, ptReqs)
  BY <1>a, RestFacts, StackRest DEF Rest
<1> USE DEF ReturnBox, TopReturns, wsVars, authVars, serverVars, ctxVars,
           apiVars
<1>1. TypeOK'
  BY <1>0 DEF Inv, TypeOK
<1>2. StateInv'
  BY <1>a DEF Inv, TypeOK, StateInv, HandshakeOrder, ConnectedMeansAccepted,
         ListenerAlive, DeviceListOffered, TokenBelongsToServer,
         BeginOnlyAfterAuth, NoContext, Live
<1>3. StackOK(stack, cseq, ptReqs)'
  BY <1>0
<1> QED
  BY <1>1, <1>2, <1>3 DEF Inv

\* A function of the host returns without any other effect.
LEMMA RejectedInv ==
    ASSUME Inv, NEW c \in Codes, Rejected(c)
    PROVE  Inv'
<1> USE DEF Rejected, wsVars, authVars, serverVars, ctxVars, apiVars
<1>1. TypeOK'
  BY DEF Inv, TypeOK
<1>2. StateInv'
  BY DEF Inv, TypeOK, StateInv, HandshakeOrder, ConnectedMeansAccepted,
         ListenerAlive, DeviceListOffered, TokenBelongsToServer,
         BeginOnlyAfterAuth, NoContext, Live
<1>3. StackOK(stack, cseq, ptReqs)'
  BY DEF Inv
<1> QED
  BY <1>1, <1>2, <1>3 DEF Inv

\* PassThruOpen makes a context.
LEMMA NewContextInv ==
    ASSUME Inv, NewContext, UNCHANGED apiVars
    PROVE  Inv'
<1>a. stack = <<>> /\ OpenFrame \in Frames
  BY OpenFacts DEF Inv, StateInv, NoContext, NewContext, Live
<1>0. /\ Append(stack, OpenFrame) \in Seq(Frames)
      /\ StackOK(Append(stack, OpenFrame), cseq, ptReqs)
  <2>1. stack \in Seq(Frames) /\ StackOK(stack, cseq, ptReqs)
    BY DEF Inv, TypeOK
  <2> QED
    BY <1>a, <2>1, PushFacts, OpenFacts, StackPush
<1> USE DEF NewContext, Push, wsVars, authVars, serverVars, ctxVars, apiVars
<1>1. TypeOK'
  BY <1>0 DEF Inv, TypeOK
<1>2. StateInv'
  BY <1>0 DEF Inv, TypeOK, StateInv, HandshakeOrder, ConnectedMeansAccepted,
         ListenerAlive, DeviceListOffered, TokenBelongsToServer,
         BeginOnlyAfterAuth, NoContext, Live
<1>3. StackOK(stack, cseq, ptReqs)'
  BY <1>0
<1> QED
  BY <1>1, <1>2, <1>3 DEF Inv

\* The context is deleted while no loop runs.
LEMMA DeleteContextInv ==
    ASSUME Inv, stack' = <<>>, UNCHANGED lastError, code' \in Codes,
           DeleteContext
    PROVE  Inv'
<1>0. stack' \in Seq(Frames)
  <2>1. <<>> \in Seq(Frames)
    BY EmptySeq
  <2> QED
    BY <2>1, Zenon
<1>b. /\ 0 \in 0..MaxSubs
      /\ NoPeer \in Peers \cup {NoPeer}
  BY WsAssumption
<1> USE DEF DeleteContext, WsReset, AuthReset, ServerForgets, wsVars,
           authVars, serverVars, ctxVars, apiVars
<1>1. TypeOK'
  BY <1>0, <1>b DEF Inv, TypeOK
<1>2. StateInv'
  BY DEF Inv, TypeOK, StateInv, HandshakeOrder, ConnectedMeansAccepted,
         ListenerAlive, DeviceListOffered, TokenBelongsToServer,
         BeginOnlyAfterAuth, NoContext, Live
<1>3. StackOK(stack, cseq, ptReqs)'
  BY StackEmpty
<1> QED
  BY <1>1, <1>2, <1>3 DEF Inv

\* The innermost loop returns to a function of the host.
LEMMA LoopReturnsInv ==
    ASSUME Inv, stack' = Rest, code' \in Codes,
           lastError' \in {"NoErrorYet", "CouldNotSend"},
           UNCHANGED <<wsVars, authVars, serverVars, store, ctxVars, cseq,
                       context>>,
           TopReturns
    PROVE  Inv'
<1>a. stack \in Seq(Frames) /\ stack # <<>> /\ StackOK(stack, cseq, ptReqs)
  BY DEF Inv, TypeOK, TopReturns
<1>0. Rest \in Seq(Frames) /\ StackOK(Rest, cseq, ptReqs)
  BY <1>a, RestFacts, StackRest DEF Rest
<1> USE DEF TopReturns, wsVars, authVars, serverVars, ctxVars, apiVars
<1>1. TypeOK'
  BY <1>0 DEF Inv, TypeOK
<1>2. StateInv'
  BY <1>a DEF Inv, TypeOK, StateInv, HandshakeOrder, ConnectedMeansAccepted,
         ListenerAlive, DeviceListOffered, TokenBelongsToServer,
         BeginOnlyAfterAuth, NoContext, Live
<1>3. StackOK(stack, cseq, ptReqs)'
  BY <1>0
<1> QED
  BY <1>1, <1>2, <1>3 DEF Inv

\* A request is sent, or lost by a socket that is not open.
LEMMA SendRequestInv ==
    ASSUME Inv, NEW op \in Ops, NEW timeout,
           SendRequest(op, timeout), UNCHANGED apiVars
    PROVE  Inv'
<1>a. /\ stack \in Seq(Frames) /\ StackOK(stack, cseq, ptReqs)
      /\ cseq \in Nat /\ ptReqs \subseteq [cseq : Nat, op : Ops]
  BY DEF Inv, TypeOK
<1>b. /\ ptReqs' \in SUBSET (ptReqs \cup {[cseq |-> cseq, op |-> op]})
      /\ [cseq |-> cseq, op |-> op] \in [cseq : Nat, op : Ops]
  BY <1>a DEF SendRequest
<1>c. Timer(timeout) \in {"started", "none"}
  BY DEF Timer
<1>0. /\ Append(stack, ReqFrame(op, cseq, Timer(timeout))) \in Seq(Frames)
      /\ StackOK(Append(stack, ReqFrame(op, cseq, Timer(timeout))),
                 cseq + 1, ptReqs')
      /\ ptReqs' \subseteq [cseq : Nat, op : Ops]
  BY <1>a, <1>b, <1>c, PushFacts, FrameTypes, StackPushReq
<1> USE DEF SendRequest, Delivers, Push, wsVars, authVars, serverVars,
           ctxVars, apiVars
<1>1. TypeOK'
  BY <1>0 DEF Inv, TypeOK
<1>2. StateInv'
  BY <1>0 DEF Inv, TypeOK, StateInv, HandshakeOrder, ConnectedMeansAccepted,
         ListenerAlive, DeviceListOffered, TokenBelongsToServer,
         BeginOnlyAfterAuth, NoContext, Live
<1>3. StackOK(stack, cseq, ptReqs)'
  BY <1>0
<1> QED
  BY <1>1, <1>2, <1>3 DEF Inv

(***************************************************************************)
(* The functions of the host                                               *)
(***************************************************************************)
\* The codes the functions return.
LEMMA CodeFacts ==
    {"STATUS_NOERROR", "ERR_DEVICE_IN_USE", "ERR_DEVICE_NOT_CONNECTED",
     "ERR_INVALID_DEVICE_ID", "ERR_NULL_PARAMETER", "ERR_FAILED",
     "passThruResult"} \subseteq Codes
BY DEF Codes

LEMMA PassThruOpenInv ==
    ASSUME Inv, PassThruOpen
    PROVE  Inv'
<1>1. CASE Rejected("ERR_DEVICE_IN_USE")
  BY <1>1, CodeFacts, RejectedInv
<1>2. CASE NewContext /\ UNCHANGED apiVars
  BY <1>2, NewContextInv
<1> QED
  BY <1>1, <1>2 DEF PassThruOpen

LEMMA PassThruCloseInv ==
    ASSUME Inv, NEW validId \in BOOLEAN, PassThruClose(validId),
           ClosesIdle(validId)
    PROVE  Inv'
<1>1. CASE Rejected("STATUS_NOERROR") \/ Rejected("ERR_INVALID_DEVICE_ID")
  BY <1>1, CodeFacts, RejectedInv
<1>2. CASE /\ Live /\ validId
           /\ code' = "STATUS_NOERROR"
           /\ DeleteContext
           /\ UNCHANGED <<stack, lastError>>
  <2>1. stack' = <<>> /\ code' \in Codes /\ UNCHANGED lastError
    BY <1>2, CodeFacts DEF ClosesIdle
  <2> QED
    BY <1>2, <2>1, DeleteContextInv
<1> QED
  BY <1>1, <1>2, Zenon DEF PassThruClose

\* Each function is rejected without a context, rejected for its arguments, or
\* sends a request.
LEMMA RequestsInv ==
    ASSUME Inv, NEW op \in HostOps,
           \/ WithoutContext
           \/ Rejected("ERR_INVALID_DEVICE_ID")
           \/ Rejected("ERR_NULL_PARAMETER")
           \/ \E timeout : RequestWithin(op, timeout)
    PROVE  Inv'
<1>1. CASE WithoutContext
  BY <1>1, CodeFacts, RejectedInv DEF WithoutContext
<1>2. CASE Rejected("ERR_INVALID_DEVICE_ID") \/ Rejected("ERR_NULL_PARAMETER")
  BY <1>2, CodeFacts, RejectedInv
<1>3. ASSUME NEW timeout, RequestWithin(op, timeout)
      PROVE  Inv'
  BY <1>3, HostAssumption, SendRequestInv DEF RequestWithin
<1> QED
  BY <1>1, <1>2, <1>3

LEMMA HostInv ==
    ASSUME Inv, Host
    PROVE  Inv'
<1>1. CASE PassThruOpen
  BY <1>1, PassThruOpenInv
<1>2. ASSUME NEW ok \in BOOLEAN, PassThruClose(ok), ClosesIdle(ok)
      PROVE  Inv'
  BY <1>2, PassThruCloseInv
<1>3. ASSUME NEW ok \in BOOLEAN, PassThruConnect(ok)
      PROVE  Inv'
  BY <1>3, RequestsInv, Zenon DEF PassThruConnect, Calls, Request
<1>4. ASSUME NEW ok \in BOOLEAN, PassThruSetProgrammingVoltage(ok)
      PROVE  Inv'
  BY <1>4, RequestsInv, Zenon DEF PassThruSetProgrammingVoltage, Calls,
       SlowRequest
<1>5. ASSUME NEW null \in BOOLEAN, PassThruStartPeriodicMsg(null)
      PROVE  Inv'
  BY <1>5, RequestsInv, Zenon DEF PassThruStartPeriodicMsg, Calls, Request
<1>6. ASSUME NEW null \in BOOLEAN, PassThruStartMsgFilter(null)
      PROVE  Inv'
  BY <1>6, RequestsInv, Zenon DEF PassThruStartMsgFilter, Calls, Request
<1>7. ASSUME NEW null \in BOOLEAN, PassThruIoctl(null)
      PROVE  Inv'
  BY <1>7, RequestsInv, Zenon DEF PassThruIoctl, Calls, Request
<1>8. CASE PassThruDisconnect
  BY <1>8, RequestsInv, Zenon DEF PassThruDisconnect, Calls
<1>9. ASSUME NEW Timeout \in Timeouts, PassThruReadMsgs(Timeout)
      PROVE  Inv'
  BY <1>9, RequestsInv, Zenon DEF PassThruReadMsgs, Calls, TimedRequest
<1>10. ASSUME NEW Timeout \in Timeouts, PassThruWriteMsgs(Timeout)
       PROVE  Inv'
  BY <1>10, RequestsInv, Zenon DEF PassThruWriteMsgs, Calls, TimedRequest
<1>11. CASE PassThruStopPeriodicMsg
  BY <1>11, RequestsInv, Zenon DEF PassThruStopPeriodicMsg, Calls, Request
<1>12. CASE PassThruStopMsgFilter
  BY <1>12, RequestsInv, Zenon DEF PassThruStopMsgFilter, Calls, SlowRequest
<1> QED
  BY <1>1, <1>2, <1>3, <1>4, <1>5, <1>6, <1>7, <1>8, <1>9, <1>10, <1>11,
     <1>12, Zenon DEF Host

(***************************************************************************)
(* Returns, events, and the whole step                                     *)
(***************************************************************************)
\* waitForOpen's loop is the outermost: where it returns, no loop is left.
LEMMA OpenIsLast ==
    ASSUME Inv, TopReturns, Top.kind = "open"
    PROVE  Rest = <<>>
<1>1. stack \in Seq(Frames) /\ stack # <<>> /\ StackOK(stack, cseq, ptReqs)
  BY DEF Inv, TypeOK, TopReturns
<1>2. /\ Len(stack) \in Nat \ {0} /\ DOMAIN stack = 1..Len(stack)
      /\ Len(stack) = 1 => SubSeq(stack, 1, Len(stack) - 1) = <<>>
  BY <1>1, RestFacts
<1>3. Len(stack) = 1
  BY <1>1, <1>2 DEF StackOK, Top
<1> QED
  BY <1>2, <1>3 DEF Rest

LEMMA PassThruOpenReturnsInv ==
    ASSUME Inv, PassThruOpenReturns
    PROVE  Inv'
<1>1. CASE /\ code' = "STATUS_NOERROR"
           /\ UNCHANGED <<wsVars, authVars, serverVars, store, ctxVars, cseq,
                          context>>
  <2>1. /\ TopReturns /\ stack' = Rest /\ code' \in Codes
        /\ lastError' \in {"NoErrorYet", "CouldNotSend"}
    BY <1>1, CodeFacts DEF PassThruOpenReturns, Inv, TypeOK
  <2> QED
    BY <1>1, <2>1, LoopReturnsInv
<1>2. CASE code' = "ERR_DEVICE_NOT_CONNECTED" /\ DeleteContext
  <2>1. /\ stack' = <<>> /\ code' \in Codes /\ UNCHANGED lastError
    BY <1>2, CodeFacts, OpenIsLast DEF PassThruOpenReturns
  <2> QED
    BY <1>2, <2>1, DeleteContextInv
<1> QED
  BY <1>1, <1>2, Zenon DEF PassThruOpenReturns

LEMMA RequestReturnsInv ==
    ASSUME Inv, RequestReturns
    PROVE  Inv'
<1>1. /\ TopReturns /\ stack' = Rest
      /\ UNCHANGED <<wsVars, authVars, serverVars, store, ctxVars, cseq,
                     context>>
  BY DEF RequestReturns
<1>2. code' \in Codes /\ lastError' \in {"NoErrorYet", "CouldNotSend"}
  BY CodeFacts DEF RequestReturns, Inv, TypeOK
<1> QED
  BY <1>1, <1>2, LoopReturnsInv

LEMMA EventsInv ==
    ASSUME Inv, Events
    PROVE  Inv'
<1>0. UNCHANGED apiVars
  BY DEF Events
<1>1. CASE Socket
  BY <1>0, <1>1, SslErrorsInv, SocketConnectedInv, SocketConnectedNoCertInv,
     SocketDropsInv, Zenon DEF Socket
<1>2. CASE Server
  <2>1. ASSUME NEW r \in ptReqs, NEW complete \in BOOLEAN, PtReply(r, complete)
        PROVE  Inv'
    BY <1>0, <2>1, PtReplyInv
  <2> QED
    BY <1>0, <1>2, <2>1, AuthChallengeInv, AuthGrantedInv, AuthAcceptedInv,
       AuthRejectedInv, BeginAcceptedInv, BeginRefusedInv, NotJsonInv, Zenon
       DEF Server
<1>3. CASE User
  <2>1. ASSUME NEW url \in Urls, SelectService(url)
        PROVE  Inv'
    BY <1>0, <2>1, SelectServiceInv
  <2> QED
    BY <1>0, <1>3, <2>1, EnterBadUrlInv, CloseWindowInv, DismissBoxInv, Zenon
       DEF User
<1>4. ASSUME NEW i \in DOMAIN stack, TimerFires(i)
      PROVE  Inv'
  BY <1>0, <1>4, TimerFiresInv
<1>5. CASE ReturnBox
  BY <1>0, <1>5, ReturnBoxInv
<1> QED
  BY <1>1, <1>2, <1>3, <1>4, <1>5, Zenon DEF Events

\* A step that changes nothing.
LEMMA StutterInv ==
    ASSUME Inv, UNCHANGED vars
    PROVE  Inv'
<1> USE DEF vars, wsVars, authVars, serverVars, ctxVars, apiVars
<1>1. TypeOK'
  BY DEF Inv, TypeOK
<1>2. StateInv'
  BY DEF Inv, TypeOK, StateInv, HandshakeOrder, ConnectedMeansAccepted,
         ListenerAlive, DeviceListOffered, TokenBelongsToServer,
         BeginOnlyAfterAuth, NoContext, Live
<1>3. StackOK(stack, cseq, ptReqs)'
  BY DEF Inv
<1> QED
  BY <1>1, <1>2, <1>3 DEF Inv

\* The invariant is inductive.
LEMMA InvNext == Inv /\ [Next]_vars => Inv'
<1> SUFFICES ASSUME Inv, [Next]_vars
             PROVE  Inv'
  OBVIOUS
<1>1. CASE Host
  BY <1>1, HostInv
<1>2. CASE Events
  BY <1>2, EventsInv
<1>3. CASE Returns
  BY <1>3, PassThruOpenReturnsInv, RequestReturnsInv DEF Returns
<1>4. CASE UNCHANGED vars
  BY <1>4, StutterInv
<1> QED
  BY <1>1, <1>2, <1>3, <1>4, Zenon DEF Next

LEMMA Invariance == Spec => []Inv
BY InvInit, InvNext, PTL DEF Spec

(***************************************************************************)
(* The theorems                                                            *)
(***************************************************************************)
\* Every variable keeps its type, for every set of devices and operations and
\* any depth of nesting.
THEOREM TypeCorrect == Spec => []TypeOK
<1>1. Inv => TypeOK
  BY DEF Inv
<1> QED
  BY Invariance, <1>1, PTL

\* CONNECTED is never left behind by a drop, a refusal, a second selection or
\* a slot that runs late (gretiowebcontext.cpp:16-53, 125-131).
THEOREM ConnectionGranted == Spec => []ConnectedMeansAccepted
<1>1. Inv => ConnectedMeansAccepted
  BY DEF Inv, StateInv
<1> QED
  BY Invariance, <1>1, PTL

\* No open socket is without a slot, and without a socket the device list is
\* offered again (gretiowebsocketclient.cpp:59-95,
\* gretiowebcontext.cpp:125-131).
THEOREM SocketServed == Spec => [](ListenerAlive /\ DeviceListOffered)
<1>1. Inv => ListenerAlive /\ DeviceListOffered
  BY DEF Inv, StateInv
<1> QED
  BY Invariance, <1>1, PTL

\* Without a socket the user can choose a device again, unless the window was
\* closed (gretiowebcontext.cpp:125-131).
THEOREM DeviceOffered == Spec => []DeviceListOffered
BY SocketServed, PTL

\* Tokens stay with the servers that issued them
\* (gretioauthhandler.cpp:73-113, 159-179).
THEOREM TokensKept == Spec => []TokenBelongsToServer
<1>1. Inv => TokenBelongsToServer
  BY DEF Inv, StateInv
<1> QED
  BY Invariance, <1>1, PTL

\* The login's steps keep their order (gretioauthhandler.cpp:14-113).
THEOREM LoginOrdered == Spec => [](HandshakeOrder /\ BeginOnlyAfterAuth)
<1>1. Inv => HandshakeOrder /\ BeginOnlyAfterAuth
  BY DEF Inv, StateInv
<1> QED
  BY Invariance, <1>1, PTL

\* A pass thru session is asked for only where the token was accepted
\* (gretioauthhandler.cpp:37-48).
THEOREM BeginAuthorised == Spec => []BeginOnlyAfterAuth
BY LoginOrdered, PTL

\* Every call gets the answer to its own request, for any nesting and any
\* order of the answers (gretiowebcontext.cpp:64-107).
THEOREM AnswersMatch == Spec => [](ReplyMatchesRequest /\ CseqUnique)
<1>1. Inv => ReplyMatchesRequest
  BY DEF Inv, StackOK, ReplyMatchesRequest
<1>2. Inv => CseqUnique
  BY DEF Inv, StackOK, CseqUnique
<1> QED
  BY Invariance, <1>1, <1>2, PTL

\* No two calls that wait share a sequence number
\* (gretiowebcontext.cpp:64-107).
THEOREM NumbersUnique == Spec => []CseqUnique
BY AnswersMatch, PTL

\* Whose sum does not wrap has a timer.
LEMMA TimerFacts ==
    /\ Timer(625) = "started"
    /\ Timer(WsRequestTimeout) = "started"
    /\ Timer(2 * WsRequestTimeout) = "started"
    /\ \A T \in Timeouts :
          ~Wraps(T) => Timer(ULong(WsRequestTimeout + T)) = "started"
<1> DEFINE H == HalfLong
<1>1. H \in Nat /\ H > 10000
  BY SMT DEF HalfLong
<1> HIDE DEF H
<1>2. ASSUME NEW x \in 0..(2 * H - 1), x \notin (H - 125)..(2 * H - 126)
      PROVE  Timer(x) = "started"
  <2>1. CASE x < H - 125
    <3>1. Long(x) = x
      BY <1>1, <2>1, SMT DEF Long, H
    <3>2. Long(x + 125) >= 0
      BY <1>1, <2>1, SMT DEF Long, H
    <3> QED
      BY <3>1, <3>2 DEF Timer
  <2>2. CASE x >= 2 * H - 125
    <3>1. Long(x) = x - 2 * H
      BY <1>1, <2>2, SMT DEF Long, H
    <3>2. Long(x - 2 * H + 125) >= 0
      BY <1>1, <1>2, <2>2, SMT DEF Long, H
    <3> QED
      BY <3>1, <3>2 DEF Timer
  <2> QED
    BY <1>1, <1>2, <2>1, <2>2, SMT
<1>3. ASSUME NEW T \in Timeouts, ~Wraps(T)
      PROVE  Timer(ULong(WsRequestTimeout + T)) = "started"
  <2>1. T \in 0..(2 * H - 1)
    BY HostAssumption DEF H
  <2>2. /\ ULong(1250 + T) \in 0..(2 * H - 1)
        /\ ULong(1250 + T) \notin (H - 125)..(2 * H - 126)
    BY <1>1, <1>3, <2>1, SMT DEF ULong, Wraps, H
  <2> QED
    BY <1>2, <2>2, SMT DEF WsRequestTimeout
<1> QED
  BY <1>1, <1>2, <1>3, SMT DEF WsRequestTimeout

\* Frames that are pushed without a request, or keep what they ask for, keep
\* the property.
LEMMA TimedKept ==
    ASSUME TimedUnlessWrapped,
           \A i \in DOMAIN stack' :
              \/ stack'[i].kind # "req"
              \/ /\ i \in DOMAIN stack /\ stack'[i].kind = stack[i].kind
                 /\ stack'[i].op = stack[i].op /\ stack'[i].timer = stack[i].timer
    PROVE  TimedUnlessWrapped'
BY DEF TimedUnlessWrapped

LEMMA PushedTimed ==
    ASSUME Inv, TimedUnlessWrapped, NEW f \in Frames, f.kind # "req",
           stack' = Append(stack, f)
    PROVE  TimedUnlessWrapped'
<1>1. stack \in Seq(Frames)
  BY DEF Inv, TypeOK
<1>2. \A i \in DOMAIN stack' : \/ i \in DOMAIN stack /\ stack'[i] = stack[i]
                               \/ stack'[i] = f
  BY <1>1, PushFacts
<1> QED
  BY <1>2, TimedKept

LEMMA MarkedTimed ==
    ASSUME Inv, TimedUnlessWrapped,
           \/ stack' = QuitOpen
           \/ \E i \in DOMAIN stack : stack' = [stack EXCEPT ![i] = Quit(@)]
    PROVE  TimedUnlessWrapped'
<1>1. \A j \in DOMAIN stack : stack[j] \in Frames
  BY FrameFacts DEF Inv, TypeOK
<1>2. /\ DOMAIN stack' = DOMAIN stack
      /\ \A j \in DOMAIN stack : \/ stack'[j] = stack[j]
                                 \/ stack'[j] = Quit(stack[j])
  BY DEF QuitOpen
<1>3. \A f \in Frames : /\ Quit(f).kind = f.kind /\ Quit(f).op = f.op
                        /\ Quit(f).timer = f.timer
  BY DEF Quit, Frames
<1> QED
  BY <1>1, <1>2, <1>3, TimedKept

LEMMA AnsweredTimed ==
    ASSUME Inv, TimedUnlessWrapped, NEW r, NEW complete,
           stack' = Answer(r, complete)
    PROVE  TimedUnlessWrapped'
<1>1. \A j \in DOMAIN stack : stack[j] \in Frames
  BY FrameFacts DEF Inv, TypeOK
<1>2. /\ DOMAIN stack' = DOMAIN stack
      /\ \A j \in DOMAIN stack : \/ stack'[j] = stack[j]
                                 \/ stack'[j] = Replied(stack[j], r.op, complete)
  BY DEF Answer
<1>3. \A f \in Frames : /\ Replied(f, r.op, complete).kind = f.kind
                        /\ Replied(f, r.op, complete).op = f.op
                        /\ Replied(f, r.op, complete).timer = f.timer
  BY DEF Replied, Frames
<1> QED
  BY <1>1, <1>2, <1>3, TimedKept

LEMMA ReturnedTimed ==
    ASSUME Inv, TimedUnlessWrapped,
           stack' = <<>> \/ (TopReturns /\ stack' = Rest)
    PROVE  TimedUnlessWrapped'
<1>1. CASE stack' = <<>>
  BY <1>1, TimedKept
<1>2. CASE TopReturns /\ stack' = Rest
  <2>1. stack \in Seq(Frames) /\ stack # <<>>
    BY <1>2 DEF Inv, TypeOK, TopReturns
  <2>2. \A i \in DOMAIN stack' : i \in DOMAIN stack /\ stack'[i] = stack[i]
    BY <1>2, <2>1, RestFacts DEF Rest
  <2> QED
    BY <2>2, TimedKept
<1> QED
  BY <1>1, <1>2

LEMMA EventsTimed ==
    ASSUME Inv, TimedUnlessWrapped, Events
    PROVE  TimedUnlessWrapped'
<1>1. CASE stack' = stack
  BY <1>1 DEF TimedUnlessWrapped
<1>2. CASE stack' \in {Append(stack, BoxFrame), Append(stack, ResumingBoxFrame)}
  BY <1>2, BoxFacts, ResumingBoxFacts, PushedTimed
<1>3. ASSUME NEW i \in DOMAIN stack, TimerFires(i)
      PROVE  TimedUnlessWrapped'
  BY <1>3, MarkedTimed DEF TimerFires
<1>4. CASE ReturnBox
  BY <1>4, ReturnedTimed DEF ReturnBox
<1>5. CASE Socket
  BY <1>1, <1>2, <1>5 DEF Socket, SslErrors, SocketConnected, SocketDrops,
     SocketConnectedNoCert, Push
<1>6. CASE Server
  <2>1. CASE AuthChallenge \/ AuthAccepted \/ NotJson
    BY <1>1, <2>1 DEF AuthChallenge, AuthAccepted, NotJson, ctxVars
  <2>2. CASE AuthGranted \/ BeginAccepted
    BY <1>1, <2>2, MarkedTimed DEF AuthGranted, BeginAccepted, AuthSuccess,
       Forwarded
  <2>3. CASE AuthRejected \/ BeginRefused
    BY <1>1, <1>2, <2>3 DEF AuthRejected, BeginRefused, AuthFail, Push,
       Forwarded
  <2>4. ASSUME NEW r \in ptReqs, NEW complete \in BOOLEAN, PtReply(r, complete)
        PROVE  TimedUnlessWrapped'
    BY <1>1, <2>4, AnsweredTimed DEF PtReply
  <2> QED
    BY <1>6, <2>1, <2>2, <2>3, <2>4 DEF Server
<1>7. CASE User
  BY <1>1, <1>2, <1>7, MarkedTimed DEF User, SelectService, EnterBadUrl,
     CloseWindow, DismissBox, Push
<1> QED
  BY <1>3, <1>4, <1>5, <1>6, <1>7 DEF Events

\* A request is pushed with the timer its time gives it.
LEMMA RequestTimed ==
    ASSUME Inv, TimedUnlessWrapped, NEW op \in HostOps, NEW timeout,
           RequestWithin(op, timeout),
           \/ Timer(timeout) = "started"
           \/ /\ op \in {"ReadMsgs", "WriteMsgs"}
              /\ \E Timeout \in Timeouts : Wraps(Timeout)
    PROVE  TimedUnlessWrapped'
<1> DEFINE f == ReqFrame(op, cseq, Timer(timeout))
<1>1. /\ stack \in Seq(Frames) /\ cseq \in Nat /\ op \in Ops
      /\ Timer(timeout) \in {"started", "none"}
      /\ stack' = Append(stack, f)
  BY HostAssumption DEF Inv, TypeOK, RequestWithin, SendRequest, Push, Timer
<1>2. f \in Frames /\ f.op = op /\ f.timer = Timer(timeout)
  BY <1>1, FrameTypes DEF ReqFrame, Frame
<1> HIDE DEF f
<1>3. \A i \in DOMAIN stack' : \/ i \in DOMAIN stack /\ stack'[i] = stack[i]
                               \/ stack'[i] = f
  BY <1>1, <1>2, PushFacts
<1> QED
  BY <1>2, <1>3 DEF TimedUnlessWrapped

\* Only the two functions that are given a time can wrap it.
LEMMA HostTimed ==
    ASSUME Inv, TimedUnlessWrapped, Host
    PROVE  TimedUnlessWrapped'
<1>1. ASSUME NEW c, Rejected(c)
      PROVE  TimedUnlessWrapped'
  BY <1>1 DEF Rejected, TimedUnlessWrapped
<1>2. CASE PassThruOpen
  <2>1. CASE NewContext
    BY <2>1, OpenFacts, PushedTimed DEF NewContext, Push
  <2> QED
    BY <1>1, <1>2, <2>1 DEF PassThruOpen
<1>3. ASSUME NEW ok \in BOOLEAN, PassThruClose(ok), ClosesIdle(ok)
      PROVE  TimedUnlessWrapped'
  BY <1>1, <1>3 DEF PassThruClose, TimedUnlessWrapped
<1>4. ASSUME NEW op \in HostOps,
             \/ WithoutContext
             \/ Rejected("ERR_INVALID_DEVICE_ID")
             \/ Rejected("ERR_NULL_PARAMETER")
             \/ Request(op) \/ SlowRequest(op) \/ RequestWithin(op, 625)
      PROVE  TimedUnlessWrapped'
  BY <1>1, <1>4, TimerFacts, RequestTimed, Zenon
     DEF WithoutContext, Request, SlowRequest
<1>5. ASSUME NEW op \in {"ReadMsgs", "WriteMsgs"}, op \in HostOps,
             NEW Timeout \in Timeouts,
             WithoutContext \/ TimedRequest(op, Timeout)
      PROVE  TimedUnlessWrapped'
  BY <1>1, <1>5, TimerFacts, RequestTimed, Zenon
     DEF WithoutContext, TimedRequest
<1>6. ASSUME NEW ok \in BOOLEAN,
             PassThruConnect(ok) \/ PassThruSetProgrammingVoltage(ok)
      PROVE  TimedUnlessWrapped'
  BY <1>4, <1>6, Zenon
     DEF PassThruConnect, PassThruSetProgrammingVoltage, Calls
<1>7. ASSUME NEW null \in BOOLEAN,
             \/ PassThruStartPeriodicMsg(null) \/ PassThruStartMsgFilter(null)
             \/ PassThruIoctl(null)
      PROVE  TimedUnlessWrapped'
  BY <1>4, <1>7, Zenon
     DEF PassThruStartPeriodicMsg, PassThruStartMsgFilter, PassThruIoctl, Calls
<1>8. ASSUME NEW Timeout \in Timeouts,
             PassThruReadMsgs(Timeout) \/ PassThruWriteMsgs(Timeout)
      PROVE  TimedUnlessWrapped'
  BY <1>5, <1>8, Zenon DEF PassThruReadMsgs, PassThruWriteMsgs, Calls
<1>9. CASE PassThruDisconnect \/ PassThruStopPeriodicMsg \/ PassThruStopMsgFilter
  BY <1>4, <1>9, Zenon
     DEF PassThruDisconnect, PassThruStopPeriodicMsg, PassThruStopMsgFilter,
         Calls
<1> QED
  BY <1>2, <1>3, <1>6, <1>7, <1>8, <1>9, Zenon DEF Host

\* A request has a timer unless the host's own time wraps the sum, for any
\* times and operations (J2534.cpp:182, 228, gretiowebcontext.cpp:93).
THEOREM TimersStart == Spec => []TimedUnlessWrapped
<1>1. Init => TimedUnlessWrapped
  BY DEF Init, CtxInit, TimedUnlessWrapped
<1>2. Inv /\ TimedUnlessWrapped /\ [Next]_vars => TimedUnlessWrapped'
  <2> SUFFICES ASSUME Inv, TimedUnlessWrapped, [Next]_vars
               PROVE  TimedUnlessWrapped'
    OBVIOUS
  <2>1. CASE Host
    BY <2>1, HostTimed
  <2>2. CASE Events
    BY <2>2, EventsTimed
  <2>3. CASE Returns
    BY <2>3, ReturnedTimed DEF Returns, PassThruOpenReturns, RequestReturns
  <2>4. CASE UNCHANGED vars
    BY <2>4 DEF vars, TimedUnlessWrapped
  <2> QED
    BY <2>1, <2>2, <2>3, <2>4, Zenon DEF Next
<1> QED
  BY <1>1, <1>2, Invariance, PTL DEF Spec

\* PassThruOpen reports success only with a device that granted the connection
\* (J2534.cpp:35-47).
THEOREM OpenAuthenticated == Spec => OpenReturnsAuthenticated
<1> DEFINE A == PassThruOpenReturns /\ code' = "STATUS_NOERROR"
                  => context' = "live" /\ accepted' \in {"newToken", "session"}
<1>1. Inv /\ [Next]_vars => [A]_vars
  <2> SUFFICES ASSUME Inv, PassThruOpenReturns, code' = "STATUS_NOERROR"
               PROVE  context' = "live" /\ accepted' \in {"newToken", "session"}
    OBVIOUS
  <2>1. /\ status = "CONNECTED" /\ TopReturns
        /\ UNCHANGED <<serverVars, context>>
    BY DEF PassThruOpenReturns
  <2>2. accepted \in {"newToken", "session"} /\ Live
    BY <2>1 DEF Inv, StateInv, ConnectedMeansAccepted, NoContext, TopReturns
  <2> QED
    BY <2>1, <2>2 DEF serverVars, Live, Inv, TypeOK
<1> HIDE DEF A
<1>2. Spec => [][A]_vars
  BY Invariance, <1>1, PTL DEF Spec
<1> QED
  BY <1>2 DEF A, OpenReturnsAuthenticated

\* What running calls rely on: their own answers, numbers that differ, and a
\* timer unless the host's time wraps it, for any nesting and any operations
\* (gretiowebcontext.cpp:64-107, J2534.cpp:182, 228).
THEOREM CallsCorrect == Spec => []CallsSafe
BY NumbersUnique, AnswersMatch, TimersStart, PTL DEF CallsSafe

\* A login keeps its order and its state is consistent, for any servers
\* (gretioauthhandler.cpp:14-113, gretiowebcontext.cpp:15-38, 125-131).
THEOREM LoginCorrect == Spec => []LoginSafe
BY TypeCorrect, LoginOrdered, DeviceOffered, PTL DEF LoginSafe

-----------------------------------------------------------------------------
(***************************************************************************)
(* J2534 implements PassThruDevice                                         *)
(***************************************************************************)

(***************************************************************************)
(* The calls that run, as a function of the stack                          *)
(***************************************************************************)
CallOf(f) == [id |-> f.cseq, op |-> f.op,
              answer |-> IF f.reply = NoReply THEN "none" ELSE f.reply.op]

CallsOf(s) == {CallOf(s[i]) : i \in {j \in DOMAIN s : s[j].kind = "req"}}

HasOpen(s) == \E i \in DOMAIN s : s[i].kind = "open"

DeviceOf(live, s) ==
    IF ~live THEN "closed" ELSE IF HasOpen(s) THEN "opening" ELSE "open"

LEMMA WaitingCalls == waitingCalls = CallsOf(stack)
BY DEF waitingCalls, CallsOf, CallOf

\* No loops, no calls.
LEMMA CallsEmpty == CallsOf(<<>>) = {} /\ ~HasOpen(<<>>)
BY DEF CallsOf, HasOpen

\* A frame is pushed.
LEMMA CallsPush ==
    ASSUME NEW s \in Seq(Frames), NEW f \in Frames
    PROVE  /\ f.kind = "box" => /\ CallsOf(Append(s, f)) = CallsOf(s)
                                /\ HasOpen(Append(s, f)) <=> HasOpen(s)
           /\ f.kind = "req" =>
                /\ CallsOf(Append(s, f)) = CallsOf(s) \cup {CallOf(f)}
                /\ HasOpen(Append(s, f)) <=> HasOpen(s)
           /\ f.kind = "open" => HasOpen(Append(s, f))
<1> DEFINE t == Append(s, f)
<1>1. /\ DOMAIN s = 1..Len(s) /\ Len(s) \in Nat
      /\ DOMAIN t = 1..(Len(s) + 1)
      /\ \A i \in 1..Len(s) : t[i] = s[i]
      /\ t[Len(s) + 1] = f
  BY PushFacts
<1> HIDE DEF t
<1>2. \A i : i \in DOMAIN t <=> i \in DOMAIN s \/ i = Len(s) + 1
  BY <1>1
<1>3. \A i \in DOMAIN s : t[i] = s[i]
  BY <1>1
<1>4. HasOpen(t) <=> HasOpen(s) \/ f.kind = "open"
  BY <1>1, <1>2, <1>3 DEF HasOpen
<1>5. CASE f.kind = "req"
  <2>1. CallsOf(t) = CallsOf(s) \cup {CallOf(f)}
    BY <1>1, <1>2, <1>3, <1>5 DEF CallsOf
  <2> QED
    BY <1>4, <1>5, <2>1 DEF t
<1>6. CASE f.kind # "req"
  <2>1. CallsOf(t) = CallsOf(s)
    BY <1>1, <1>2, <1>3, <1>6 DEF CallsOf
  <2> QED
    BY <1>4, <1>6, <2>1 DEF t
<1> QED
  BY <1>5, <1>6

\* Loops are marked, or answered with what is their answer already.
LEMMA CallsMark ==
    ASSUME NEW s, NEW t, DOMAIN t = DOMAIN s,
           \A i \in DOMAIN s : /\ t[i].kind = s[i].kind
                               /\ CallOf(t[i]) = CallOf(s[i])
    PROVE  CallsOf(t) = CallsOf(s) /\ (HasOpen(t) <=> HasOpen(s))
<1>1. {j \in DOMAIN t : t[j].kind = "req"}
        = {j \in DOMAIN s : s[j].kind = "req"}
  OBVIOUS
<1>2. CallsOf(t) = CallsOf(s)
  BY <1>1 DEF CallsOf
<1> QED
  BY <1>2 DEF HasOpen

\* The innermost loop returns.
LEMMA CallsRest ==
    ASSUME NEW s \in Seq(Frames), s # <<>>, NEW n, NEW R, StackOK(s, n, R)
    PROVE  LET f == s[Len(s)]
               t == SubSeq(s, 1, Len(s) - 1)
           IN  /\ f.kind = "box" => /\ CallsOf(t) = CallsOf(s)
                                    /\ HasOpen(t) <=> HasOpen(s)
               /\ f.kind = "req" => /\ CallsOf(t) = CallsOf(s) \ {CallOf(f)}
                                    /\ CallOf(f) \in CallsOf(s)
                                    /\ HasOpen(t) <=> HasOpen(s)
               /\ f.kind = "open" => HasOpen(s) /\ CallsOf(s) = {}
<1> DEFINE f == s[Len(s)]
           t == SubSeq(s, 1, Len(s) - 1)
<1>1. /\ Len(s) \in Nat \ {0}
      /\ DOMAIN s = 1..Len(s)
      /\ DOMAIN t = 1..(Len(s) - 1)
      /\ \A i \in 1..(Len(s) - 1) : t[i] = s[i]
  BY RestFacts
<1> HIDE DEF t
<1>2. /\ \A i : i \in DOMAIN s <=> i \in DOMAIN t \/ i = Len(s)
      /\ Len(s) \notin DOMAIN t
      /\ \A i \in DOMAIN t : t[i] = s[i]
  BY <1>1
<1>3. HasOpen(s) <=> HasOpen(t) \/ f.kind = "open"
  BY <1>2 DEF HasOpen
<1>4. CASE f.kind = "box"
  <2>1. CallsOf(t) = CallsOf(s)
    BY <1>2, <1>4 DEF CallsOf
  <2> QED
    BY <1>3, <1>4, <2>1 DEF t
<1>5. CASE f.kind = "req"
  <2>1. CallsOf(s) = CallsOf(t) \cup {CallOf(f)}
    BY <1>2, <1>5 DEF CallsOf
  <2>2. \A i \in DOMAIN t : t[i].kind = "req" => t[i].cseq # f.cseq
    BY <1>2, <1>5 DEF StackOK
  <2>3. CallOf(f) \notin CallsOf(t)
    BY <2>2 DEF CallsOf, CallOf
  <2> QED
    BY <1>3, <1>5, <2>1, <2>3 DEF t
<1>6. CASE f.kind = "open"
  <2>1. Len(s) = 1
    BY <1>1, <1>6 DEF StackOK
  <2>2. CallsOf(s) = {}
    BY <1>1, <1>6, <2>1 DEF CallsOf
  <2> QED
    BY <1>3, <1>6, <2>2
<1>7. s[Len(s)] \in Frames
  BY <1>1, FrameFacts
<1>8. f.kind \in {"open", "req", "box"}
  BY <1>7 DEF Frames
<1> QED
  BY <1>4, <1>5, <1>6, <1>8 DEF t

(***************************************************************************)
(* The steps of the device                                                 *)
(***************************************************************************)
\* What Device!device stands for.
deviceNow == IF ~Live THEN "closed"
             ELSE IF \E i \in DOMAIN stack : stack[i].kind = "open"
                  THEN "opening" ELSE "open"

LEMMA DeviceNow ==
    /\ ~Live => deviceNow = "closed"
    /\ Live /\ HasOpen(stack) => deviceNow = "opening"
    /\ Live /\ ~HasOpen(stack) => deviceNow = "open"
BY DEF deviceNow, HasOpen

\* A step that the device does not see.
LEMMA UnseenStep ==
    ASSUME UNCHANGED <<context, code>>,
           CallsOf(stack') = CallsOf(stack),
           HasOpen(stack') <=> HasOpen(stack)
    PROVE  [Device!DNext]_(Device!dvars)
<1>1. waitingCalls' = waitingCalls
  BY DEF waitingCalls, CallsOf, CallOf
<1>2. deviceNow' = deviceNow
  BY DEF deviceNow, HasOpen, Live
<1> QED
  BY <1>1, <1>2 DEF Device!dvars, deviceNow

\* A function returns at once.
LEMMA RefuseStep ==
    ASSUME NEW c, Rejected(c),
           IF Live THEN c \in {"ERR_DEVICE_IN_USE", "ERR_INVALID_DEVICE_ID",
                               "ERR_NULL_PARAMETER"}
                   ELSE c \in {"ERR_DEVICE_NOT_CONNECTED", "STATUS_NOERROR"}
    PROVE  Device!DNext
<1>1. UNCHANGED <<context, stack>> /\ code' = c
  BY DEF Rejected
<1>2. waitingCalls' = waitingCalls /\ deviceNow' = deviceNow
  BY <1>1 DEF waitingCalls, deviceNow, Live
<1>3. code' \in Device!Refusals(deviceNow)
  BY <1>1 DEF Device!Refusals, deviceNow
<1>4. Device!Refuse
  BY <1>2, <1>3 DEF Device!Refuse, deviceNow
<1> QED
  BY <1>4 DEF Device!DNext

\* PassThruOpen begins, on no context and hence no loops.
LEMMA OpenStep ==
    ASSUME Inv, NewContext, UNCHANGED apiVars
    PROVE  Device!DNext
<1>1. /\ ~Live /\ Live' /\ code' = code
      /\ stack = <<>> /\ stack' = Append(stack, OpenFrame)
  BY DEF Inv, StateInv, NoContext, NewContext, Live, Push, apiVars
<1>2. CallsOf(stack) = {} /\ CallsOf(stack') = {} /\ HasOpen(stack')
  <2>1. stack \in Seq(Frames)
    BY DEF Inv, TypeOK
  <2>2. HasOpen(stack')
    BY <1>1, <2>1, OpenFacts, CallsPush
  <2>3. DOMAIN stack' = {1} /\ stack'[1] = OpenFrame
    BY <1>1
  <2>4. CallsOf(stack') = {}
    BY <2>3, OpenFacts DEF CallsOf
  <2> QED
    BY <1>1, <2>2, <2>4, CallsEmpty
<1>3. /\ waitingCalls' = waitingCalls
      /\ deviceNow = "closed" /\ deviceNow' = "opening"
  BY <1>1, <1>2 DEF waitingCalls, CallsOf, CallOf, deviceNow, HasOpen
<1>4. Device!Open
  BY <1>1, <1>3 DEF Device!Open, deviceNow
<1> QED
  BY <1>4 DEF Device!DNext

\* PassThruOpen returns: its loop was the only one.
LEMMA OpenedStep ==
    ASSUME Inv, PassThruOpenReturns
    PROVE  Device!DNext
<1>1. /\ stack \in Seq(Frames) /\ stack # <<>> /\ StackOK(stack, cseq, ptReqs)
      /\ Live /\ stack' = Rest /\ Rest = <<>> /\ stack[Len(stack)].kind = "open"
  BY OpenIsLast DEF Inv, TypeOK, StateInv, NoContext, PassThruOpenReturns,
     TopReturns, Top
<1>2. /\ CallsOf(stack) = {} /\ CallsOf(stack') = {}
      /\ HasOpen(stack) /\ ~HasOpen(stack')
  BY <1>1, CallsRest, CallsEmpty
<1>3. waitingCalls = {} /\ waitingCalls' = {} /\ deviceNow = "opening"
  BY <1>1, <1>2 DEF waitingCalls, CallsOf, CallOf, deviceNow, HasOpen
<1>4. \/ deviceNow' = "open" /\ code' = "STATUS_NOERROR"
      \/ deviceNow' = "closed" /\ code' = "ERR_DEVICE_NOT_CONNECTED"
  BY <1>1, <1>2 DEF PassThruOpenReturns, DeleteContext, deviceNow, HasOpen, Live
<1>5. Device!Opened
  BY <1>3, <1>4 DEF Device!Opened, deviceNow
<1> QED
  BY <1>5 DEF Device!DNext

\* PassThruClose deletes the context.
LEMMA CloseStep ==
    ASSUME Live, stack = <<>>, stack' = <<>>, DeleteContext,
           code' = "STATUS_NOERROR"
    PROVE  Device!DNext
<1>1. waitingCalls = {} /\ waitingCalls' = {}
  BY CallsEmpty DEF waitingCalls, CallsOf, CallOf
<1>2. deviceNow # "closed" /\ deviceNow' = "closed"
  BY DEF deviceNow, DeleteContext, Live
<1>3. Device!Close
  BY <1>1, <1>2 DEF Device!Close, deviceNow
<1> QED
  BY <1>3 DEF Device!DNext

\* A request is sent under a number no running call has.
LEMMA BeginStep ==
    ASSUME Inv, NEW op \in Ops, NEW timeout, RequestWithin(op, timeout)
    PROVE  Device!DNext
<1> DEFINE f == ReqFrame(op, cseq, Timer(timeout))
<1>1. /\ Live /\ UNCHANGED context /\ code' = code
      /\ stack' = Append(stack, f)
      /\ cseq < MaxCseq /\ cseq \in Nat
      /\ stack \in Seq(Frames) /\ StackOK(stack, cseq, ptReqs)
  BY DEF Inv, TypeOK, RequestWithin, SendRequest, Push, apiVars
<1>2. f \in Frames
  BY <1>1, FrameTypes DEF Timer
<1>3. /\ f.kind = "req"
      /\ CallOf(f) = [id |-> cseq, op |-> op, answer |-> "none"]
  BY DEF ReqFrame, Frame, CallOf
<1> HIDE DEF f
<1>4. CallsOf(stack') = CallsOf(stack) \cup {CallOf(f)}
  BY <1>1, <1>2, <1>3, CallsPush
<1>5. HasOpen(stack') <=> HasOpen(stack)
  BY <1>1, <1>2, <1>3, CallsPush
<1>6. \A c \in CallsOf(stack) : c.id # cseq
  BY <1>1 DEF CallsOf, CallOf, StackOK
<1>7. /\ waitingCalls' = waitingCalls
                           \cup {[id |-> cseq, op |-> op, answer |-> "none"]}
      /\ \A c \in waitingCalls : c.id # cseq
  BY <1>3, <1>4, <1>6 DEF waitingCalls, CallsOf, CallOf
<1>8. deviceNow # "closed" /\ deviceNow' = deviceNow
  BY <1>1, <1>5 DEF deviceNow, HasOpen, Live
<1>9. Device!Begin(op, cseq)
  BY <1>1, <1>7, <1>8 DEF Device!Begin, deviceNow
<1>10. cseq \in 0..MaxCseq
  BY <1>1, CtxAssumption
<1> QED
  BY <1>9, <1>10 DEF Device!DNext

\* A request returns with its answer, or without one.
LEMMA ReturnStep ==
    ASSUME Inv, RequestReturns
    PROVE  Device!DNext
<1> DEFINE f == stack[Len(stack)]
<1>1. /\ stack \in Seq(Frames) /\ stack # <<>> /\ StackOK(stack, cseq, ptReqs)
      /\ stack' = SubSeq(stack, 1, Len(stack) - 1) /\ UNCHANGED context
      /\ f.kind = "req"
  BY DEF Inv, TypeOK, RequestReturns, TopReturns, Top, Rest
<1>2. /\ CallsOf(stack') = CallsOf(stack) \ {CallOf(f)}
      /\ CallOf(f) \in CallsOf(stack)
  BY <1>1, CallsRest
<1>3. HasOpen(stack') <=> HasOpen(stack)
  BY <1>1, CallsRest
<1>4. Len(stack) \in DOMAIN stack /\ f \in Frames
  BY <1>1, RestFacts, FrameFacts
<1>5. /\ f.reply # NoReply => f.reply.op = f.op
      /\ f.op # "none"
  BY <1>1, <1>4, CtxAssumption DEF StackOK
<1>6. code' = IF CallOf(f).answer = CallOf(f).op
                THEN "passThruResult" ELSE "ERR_FAILED"
  BY <1>5 DEF RequestReturns, CallOf, Top
<1> HIDE DEF f
<1>7. /\ CallOf(f) \in waitingCalls
      /\ waitingCalls' = waitingCalls \ {CallOf(f)}
  BY <1>2 DEF waitingCalls, CallsOf, CallOf
<1>8. deviceNow' = deviceNow
  BY <1>1, <1>3 DEF deviceNow, HasOpen, Live
<1>9. Device!Return(CallOf(f))
  BY <1>6, <1>7, <1>8 DEF Device!Return, deviceNow
<1> QED
  BY <1>7, <1>9 DEF Device!DNext

\* An answer reaches the call that waits for it, or nobody.
LEMMA AnswerStep ==
    ASSUME Inv, NEW r \in ptReqs, NEW complete \in BOOLEAN,
           PtReply(r, complete), UNCHANGED apiVars
    PROVE  [Device!DNext]_(Device!dvars)
<1>1. /\ stack \in Seq(Frames) /\ StackOK(stack, cseq, ptReqs)
      /\ r \in [cseq : Nat, op : Ops]
      /\ UNCHANGED <<context, code>>
      /\ stack' = Answer(r, complete) \/ stack' = stack
  BY DEF Inv, TypeOK, PtReply, apiVars
<1>2. CASE stack' = stack
  BY <1>1, <1>2, UnseenStep
<1>3. CASE stack' = Answer(r, complete)
  <2> DEFINE t == Answer(r, complete)
             Mine(i) == stack[i].kind = "req" /\ stack[i].cseq = r.cseq
  <2>1. \A i \in DOMAIN stack : stack[i] \in Frames
    BY <1>1, FrameFacts
  <2>2. /\ DOMAIN t = DOMAIN stack
        /\ \A i \in DOMAIN stack : ~Mine(i) => t[i] = stack[i]
        /\ \A i \in DOMAIN stack :
              Mine(i) => t[i] = Replied(stack[i], r.op, complete)
    BY DEF Answer
  <2>3. \A i \in DOMAIN stack :
           Mine(i) => /\ t[i].kind = "req"
                      /\ CallOf(t[i])
                           = [CallOf(stack[i]) EXCEPT !.answer = r.op]
                      /\ stack[i].op = r.op
    <3> SUFFICES ASSUME NEW i \in DOMAIN stack, Mine(i)
                 PROVE  /\ t[i].kind = "req"
                        /\ CallOf(t[i])
                             = [CallOf(stack[i]) EXCEPT !.answer = r.op]
                        /\ stack[i].op = r.op
      OBVIOUS
    <3>1. t[i] = Replied(stack[i], r.op, complete)
      BY <2>2
    <3>2. /\ t[i].kind = "req" /\ t[i].cseq = stack[i].cseq
          /\ t[i].op = stack[i].op
          /\ t[i].reply = [op |-> r.op, complete |-> complete]
      BY <2>1, <3>1 DEF Replied, Frames
    <3>3. t[i].reply # NoReply
      BY <1>1, <3>2, CtxAssumption
    <3>4. stack[i].op = r.op
      BY <1>1 DEF StackOK
    <3> QED
      BY <3>2, <3>3, <3>4 DEF CallOf
  <2> HIDE DEF t
  <2>4. CASE \E i \in DOMAIN stack : Mine(i) /\ stack[i].reply = NoReply
    <3>1. PICK i \in DOMAIN stack : Mine(i) /\ stack[i].reply = NoReply
      BY <2>4
    <3>2. \A j \in DOMAIN stack : Mine(j) => j = i
      BY <1>1, <3>1 DEF StackOK
    <3> DEFINE c == CallOf(stack[i])
               d == [c EXCEPT !.answer = c.op]
    <3>3. /\ c.answer = "none" /\ c.op = r.op /\ CallOf(t[i]) = d
          /\ c.id = r.cseq
      BY <2>3, <3>1 DEF CallOf
    <3>4. \A j \in DOMAIN stack :
             j # i => t[j] = stack[j] /\ (stack[j].kind = "req"
                                            => CallOf(stack[j]).id # r.cseq)
      BY <2>2, <3>2 DEF CallOf
    <3>5. stack[i].kind = "req" /\ t[i].kind = "req"
      BY <2>3, <3>1
    <3>6. c \in CallsOf(stack)
      BY <3>5 DEF CallsOf
    <3> HIDE DEF c, d
    <3>7. CallsOf(t) = (CallsOf(stack) \ {c}) \cup {d}
      <4>1. ASSUME NEW x \in CallsOf(t)
            PROVE  x \in (CallsOf(stack) \ {c}) \cup {d}
        BY <2>2, <3>3, <3>4, <4>1 DEF CallsOf
      <4>2. ASSUME NEW x \in CallsOf(stack), x # c
            PROVE  x \in CallsOf(t)
        BY <2>2, <3>4, <4>2 DEF CallsOf, c
      <4>3. d \in CallsOf(t)
        BY <2>2, <3>3, <3>5 DEF CallsOf
      <4> QED
        BY <4>1, <4>2, <4>3
    <3>8. HasOpen(t) <=> HasOpen(stack)
      BY <2>2, <3>4, <3>5 DEF HasOpen
    <3>9. /\ c \in waitingCalls
          /\ waitingCalls' = (waitingCalls \ {c}) \cup {d}
      BY <1>3, <3>6, <3>7 DEF waitingCalls, CallsOf, CallOf, t
    <3>10. deviceNow' = deviceNow
      BY <1>1, <1>3, <3>8 DEF deviceNow, HasOpen, Live, t
    <3>11. Device!Answered(c)
      BY <1>1, <3>3, <3>9, <3>10 DEF Device!Answered, deviceNow, d
    <3> QED
      BY <3>9, <3>11 DEF Device!DNext
  <2>5. CASE ~\E i \in DOMAIN stack : Mine(i) /\ stack[i].reply = NoReply
    <3>1. ASSUME NEW i \in DOMAIN stack
          PROVE  /\ t[i].kind = stack[i].kind
                 /\ CallOf(t[i]) = CallOf(stack[i])
      <4>1. CASE ~Mine(i)
        BY <2>2, <4>1
      <4>2. CASE Mine(i)
        <5>1. stack[i].reply # NoReply /\ stack[i].reply.op = stack[i].op
          BY <1>1, <2>5, <4>2 DEF StackOK
        <5> QED
          BY <2>3, <4>2, <5>1 DEF CallOf
      <4> QED
        BY <4>1, <4>2
    <3>2. CallsOf(t) = CallsOf(stack) /\ (HasOpen(t) <=> HasOpen(stack))
      BY <2>2, <3>1, CallsMark
    <3> QED
      BY <1>1, <1>3, <3>2, UnseenStep DEF t
  <2> QED
    BY <2>4, <2>5
<1> QED
  BY <1>1, <1>2, <1>3

\* The other events push a box, mark loops, pop a box or leave the stack.
LEMMA BoxStep ==
    ASSUME Inv, UNCHANGED <<context, code>>,
           stack' \in {Append(stack, BoxFrame), Append(stack, ResumingBoxFrame)}
    PROVE  [Device!DNext]_(Device!dvars)
<1>1. stack \in Seq(Frames)
  BY DEF Inv, TypeOK
<1> PICK f : f \in {BoxFrame, ResumingBoxFrame} /\ stack' = Append(stack, f)
  OBVIOUS
<1>f. f \in Frames /\ f.kind = "box"
  BY BoxFacts, ResumingBoxFacts
<1>2. CallsOf(stack') = CallsOf(stack) /\ (HasOpen(stack') <=> HasOpen(stack))
  BY <1>1, <1>f, CallsPush
<1> QED
  BY <1>2, UnseenStep

LEMMA MarkStep ==
    ASSUME Inv, UNCHANGED <<context, code>>,
           \/ stack' = QuitOpen
           \/ \E i \in DOMAIN stack : stack' = [stack EXCEPT ![i] = Quit(@)]
    PROVE  [Device!DNext]_(Device!dvars)
<1>1. \A j \in DOMAIN stack : /\ Quit(stack[j]).kind = stack[j].kind
                              /\ CallOf(Quit(stack[j])) = CallOf(stack[j])
  <2>1. \A j \in DOMAIN stack : stack[j] \in Frames
    BY FrameFacts DEF Inv, TypeOK
  <2> QED
    BY <2>1, QuitType DEF CallOf
<1>2. /\ DOMAIN stack' = DOMAIN stack
      /\ \A j \in DOMAIN stack : \/ stack'[j] = stack[j]
                                 \/ stack'[j] = Quit(stack[j])
  BY DEF QuitOpen
<1>3. CallsOf(stack') = CallsOf(stack) /\ (HasOpen(stack') <=> HasOpen(stack))
  BY <1>1, <1>2, CallsMark
<1> QED
  BY <1>3, UnseenStep

LEMMA BoxReturnStep ==
    ASSUME Inv, ReturnBox, UNCHANGED apiVars
    PROVE  [Device!DNext]_(Device!dvars)
<1>1. /\ stack \in Seq(Frames) /\ stack # <<>> /\ StackOK(stack, cseq, ptReqs)
      /\ stack' = SubSeq(stack, 1, Len(stack) - 1)
      /\ stack[Len(stack)].kind = "box"
      /\ UNCHANGED <<context, code>>
  BY DEF Inv, TypeOK, ReturnBox, TopReturns, Top, Rest, apiVars
<1>2. CallsOf(stack') = CallsOf(stack) /\ (HasOpen(stack') <=> HasOpen(stack))
  BY <1>1, CallsRest
<1> QED
  BY <1>1, <1>2, UnseenStep

LEMMA SameStackStep ==
    ASSUME UNCHANGED <<context, code, stack>>
    PROVE  [Device!DNext]_(Device!dvars)
BY UnseenStep

LEMMA SocketStep ==
    ASSUME Inv, Socket, UNCHANGED apiVars
    PROVE  [Device!DNext]_(Device!dvars)
<1>1. CASE SslErrors \/ SocketConnected \/ SocketDrops
  BY <1>1, SameStackStep DEF SslErrors, SocketConnected, SocketDrops, apiVars
<1>2. CASE SocketConnectedNoCert
  BY <1>2, BoxStep DEF SocketConnectedNoCert, Push, apiVars
<1> QED
  BY <1>1, <1>2 DEF Socket

LEMMA ServerStep ==
    ASSUME Inv, Server, UNCHANGED apiVars
    PROVE  [Device!DNext]_(Device!dvars)
<1>1. CASE AuthChallenge \/ AuthAccepted \/ NotJson
  BY <1>1, SameStackStep DEF AuthChallenge, AuthAccepted, NotJson, ctxVars,
     apiVars
<1>2. CASE AuthGranted \/ BeginAccepted
  <2>1. /\ UNCHANGED <<context, code>>
        /\ stack' = QuitOpen \/ stack' = stack
    BY <1>2 DEF AuthGranted, BeginAccepted, AuthSuccess, Forwarded, apiVars
  <2> QED
    BY <2>1, MarkStep, SameStackStep
<1>3. CASE AuthRejected \/ BeginRefused
  <2>1. /\ UNCHANGED <<context, code>>
        /\ stack' = Append(stack, BoxFrame) \/ stack' = stack
    BY <1>3 DEF AuthRejected, BeginRefused, AuthFail, Push, Forwarded, apiVars
  <2> QED
    BY <2>1, BoxStep, SameStackStep
<1>4. ASSUME NEW r \in ptReqs, NEW complete \in BOOLEAN, PtReply(r, complete)
      PROVE  [Device!DNext]_(Device!dvars)
  BY <1>4, AnswerStep
<1> QED
  BY <1>1, <1>2, <1>3, <1>4 DEF Server

LEMMA UserStep ==
    ASSUME Inv, User, UNCHANGED apiVars
    PROVE  [Device!DNext]_(Device!dvars)
<1>1. ASSUME NEW url, SelectService(url)
      PROVE  [Device!DNext]_(Device!dvars)
  BY <1>1, SameStackStep DEF SelectService, apiVars
<1>2. CASE CloseWindow
  BY <1>2, SameStackStep DEF CloseWindow, apiVars
<1>3. CASE EnterBadUrl
  BY <1>3, BoxStep DEF EnterBadUrl, Push, apiVars
<1>4. CASE DismissBox
  BY <1>4, MarkStep DEF DismissBox, apiVars
<1> QED
  BY <1>1, <1>2, <1>3, <1>4 DEF User

LEMMA EventStep ==
    ASSUME Inv, Events
    PROVE  [Device!DNext]_(Device!dvars)
<1>0. UNCHANGED apiVars
  BY DEF Events
<1>1. ASSUME NEW i \in DOMAIN stack, TimerFires(i)
      PROVE  [Device!DNext]_(Device!dvars)
  BY <1>0, <1>1, MarkStep DEF TimerFires, apiVars
<1> QED
  BY <1>0, <1>1, SocketStep, ServerStep, UserStep, BoxReturnStep DEF Events

(***************************************************************************)
(* The functions of the host, and the theorem                              *)
(***************************************************************************)
LEMMA RequestStep ==
    ASSUME Inv, NEW op \in HostOps,
           \/ WithoutContext
           \/ Live /\ Rejected("ERR_INVALID_DEVICE_ID")
           \/ Live /\ Rejected("ERR_NULL_PARAMETER")
           \/ \E timeout : RequestWithin(op, timeout)
    PROVE  Device!DNext
<1>1. ASSUME NEW timeout, RequestWithin(op, timeout)
      PROVE  Device!DNext
  BY <1>1, HostAssumption, BeginStep
<1>2. CASE WithoutContext
  BY <1>2, RefuseStep DEF WithoutContext
<1>3. CASE Live /\ (\/ Rejected("ERR_INVALID_DEVICE_ID")
                    \/ Rejected("ERR_NULL_PARAMETER"))
  BY <1>3, RefuseStep
<1> QED
  BY <1>1, <1>2, <1>3

LEMMA HostStep ==
    ASSUME Inv, Host
    PROVE  Device!DNext
<1>1. CASE PassThruOpen
  BY <1>1, OpenStep, RefuseStep DEF PassThruOpen
<1>2. ASSUME NEW ok \in BOOLEAN, PassThruClose(ok), ClosesIdle(ok)
      PROVE  Device!DNext
  BY <1>2, CloseStep, RefuseStep DEF PassThruClose, ClosesIdle
<1>3. ASSUME NEW ok \in BOOLEAN, PassThruConnect(ok)
      PROVE  Device!DNext
  BY <1>3, RequestStep, Zenon DEF PassThruConnect, Calls, Request
<1>4. ASSUME NEW ok \in BOOLEAN, PassThruSetProgrammingVoltage(ok)
      PROVE  Device!DNext
  BY <1>4, RequestStep, Zenon
     DEF PassThruSetProgrammingVoltage, Calls, SlowRequest
<1>5. ASSUME NEW null \in BOOLEAN, PassThruStartPeriodicMsg(null)
      PROVE  Device!DNext
  BY <1>5, RequestStep, Zenon DEF PassThruStartPeriodicMsg, Calls, Request
<1>6. ASSUME NEW null \in BOOLEAN, PassThruStartMsgFilter(null)
      PROVE  Device!DNext
  BY <1>6, RequestStep, Zenon DEF PassThruStartMsgFilter, Calls, Request
<1>7. ASSUME NEW null \in BOOLEAN, PassThruIoctl(null)
      PROVE  Device!DNext
  BY <1>7, RequestStep, Zenon DEF PassThruIoctl, Calls, Request
<1>8. CASE PassThruDisconnect
  BY <1>8, RequestStep, Zenon DEF PassThruDisconnect, Calls
<1>9. ASSUME NEW Timeout \in Timeouts, PassThruReadMsgs(Timeout)
      PROVE  Device!DNext
  BY <1>9, RequestStep, Zenon DEF PassThruReadMsgs, Calls, TimedRequest
<1>10. ASSUME NEW Timeout \in Timeouts, PassThruWriteMsgs(Timeout)
       PROVE  Device!DNext
  BY <1>10, RequestStep, Zenon DEF PassThruWriteMsgs, Calls, TimedRequest
<1>11. CASE PassThruStopPeriodicMsg
  BY <1>11, RequestStep, Zenon DEF PassThruStopPeriodicMsg, Calls, Request
<1>12. CASE PassThruStopMsgFilter
  BY <1>12, RequestStep, Zenon DEF PassThruStopMsgFilter, Calls, SlowRequest
<1> QED
  BY <1>1, <1>2, <1>3, <1>4, <1>5, <1>6, <1>7, <1>8, <1>9, <1>10, <1>11,
     <1>12, Zenon DEF Host

LEMMA InitStep == Init => Device!DInit
<1> SUFFICES ASSUME Init PROVE Device!DInit
  OBVIOUS
<1>1. ~Live /\ stack = <<>> /\ code = "none"
  BY DEF Init, CtxInit, Live
<1>2. waitingCalls = {}
  BY <1>1, CallsEmpty DEF waitingCalls, CallsOf, CallOf
<1> QED
  BY <1>1, <1>2 DEF Device!DInit

LEMMA NextStep == Inv /\ [Next]_vars => [Device!DNext]_(Device!dvars)
<1> SUFFICES ASSUME Inv, [Next]_vars
             PROVE  [Device!DNext]_(Device!dvars)
  OBVIOUS
<1>1. CASE Host
  BY <1>1, HostStep
<1>2. CASE Events
  BY <1>2, EventStep
<1>3. CASE Returns
  BY <1>3, OpenedStep, ReturnStep DEF Returns
<1>4. CASE UNCHANGED vars
  BY <1>4, SameStackStep DEF vars, apiVars
<1> QED
  BY <1>1, <1>2, <1>3, <1>4, Zenon DEF Next

\* The pass thru functions keep every promise of PassThruDevice (J2534.cpp),
\* for every set of servers, operations and time limits, and any nesting.
THEOREM DeviceImplemented == Spec => ImplementsDevice
<1>1. Spec => Device!DSpec
  BY InitStep, NextStep, Invariance, PTL DEF Spec, Device!DSpec
<1> QED
  BY <1>1 DEF ImplementsDevice

-----------------------------------------------------------------------------
(***************************************************************************)
(* TokenStore                                                              *)
(***************************************************************************)
Token == {NoEntry} \cup (UNION {TokensOf[k] : k \in TokenKeys})
Document == [TokenKeys -> Token]
AddTokenCall == [at : {"read", "opened"}, key : TokenKeys, token : Token, alone : BOOLEAN, doc : Document]

StoreType ==
    /\ file \in {Empty, Broken} \cup [st : {"parsed"}, tokens : Document]
    /\ adding \in [Processes -> {NotAdding} \cup AddTokenCall]
    /\ disturbed \in BOOLEAN /\ stored \in Document
    /\ sole \in {NobodySole} \cup [key : TokenKeys, token : Token]

\* A call that no other one overlaps, and what it has read and emptied.
AloneInv ==
    \A p \in Processes : Busy(p) =>
        /\ adding[p].doc[adding[p].key] = adding[p].token
        /\ adding[p].alone => \A q \in Processes : Busy(q) => q = p
        /\ adding[p].alone /\ adding[p].at = "opened" => file = Empty
        /\ adding[p].at = "opened" => sole = NobodySole

\* Undisturbed, whoever adds a token is alone, and adds it to what is stored.
UndisturbedInv ==
    ~disturbed => \A p \in Processes : Busy(p) =>
        adding[p].alone /\ adding[p].doc = [stored EXCEPT ![adding[p].key] = adding[p].token]

StoreInv == StoreType /\ AloneInv /\ UndisturbedInv /\ StoreSafe

LEMMA CallType ==
    ASSUME StoreType, NEW p \in Processes
    PROVE  /\ Busy(p) <=> adding[p] \in AddTokenCall
           /\ ~Busy(p) <=> adding[p] = NotAdding
           /\ Busy(p) <=> adding[p].at \in {"read", "opened"}
  BY DEF StoreType, Busy, NotAdding, AddTokenCall

LEMMA DocumentRead ==
    ASSUME StoreType
    PROVE  readServersFile \in Document
<1>1. NoTokens \in Document
  <2>1. NoEntry \in Token
    BY DEF Token
  <2> QED
    BY <2>1 DEF NoTokens, Document
<1> QED
  BY <1>1 DEF StoreType, readServersFile, Empty, Broken

LEMMA AddTokenStep ==
    ASSUME StoreInv, NEW p \in Processes, NEW k \in TokenKeys, NEW t \in TokensOf[k], AddToken(p, k, t)
    PROVE  StoreInv'
<1> DEFINE others == {q \in Processes : Busy(q)}
           doc == [readServersFile EXCEPT ![k] = t]
           call == [at |-> "read", key |-> k, token |-> t, alone |-> others = {}, doc |-> doc]
<1>1. /\ ~Busy(p) /\ UNCHANGED <<file, stored, sole>>
      /\ disturbed' = (disturbed \/ others # {})
      /\ adding' = [q \in Processes |-> IF q = p THEN call
                      ELSE IF q \in others THEN [adding[q] EXCEPT !.alone = FALSE] ELSE adding[q]]
  BY DEF AddToken
<1>2. StoreType /\ AloneInv /\ UndisturbedInv /\ StoreSafe
  BY DEF StoreInv
<1>3. t \in Token /\ doc \in Document /\ doc[k] = t
  BY <1>2, DocumentRead DEF Token, Document
<1>4. call \in AddTokenCall
  BY <1>3 DEF AddTokenCall
<1>5. \A q \in Processes : q # p /\ Busy(q) =>
          /\ adding[q] \in AddTokenCall
          /\ adding'[q] = [adding[q] EXCEPT !.alone = FALSE]
          /\ adding'[q] \in AddTokenCall /\ ~adding'[q].alone
          /\ adding'[q].at = adding[q].at /\ adding'[q].key = adding[q].key
          /\ adding'[q].token = adding[q].token /\ adding'[q].doc = adding[q].doc
  <2> SUFFICES ASSUME NEW q \in Processes, q # p, Busy(q)
               PROVE  /\ adding[q] \in AddTokenCall
                      /\ adding'[q] = [adding[q] EXCEPT !.alone = FALSE]
                      /\ adding'[q] \in AddTokenCall /\ ~adding'[q].alone
                      /\ adding'[q].at = adding[q].at /\ adding'[q].key = adding[q].key
                      /\ adding'[q].token = adding[q].token /\ adding'[q].doc = adding[q].doc
    OBVIOUS
  <2>1. adding[q] \in AddTokenCall
    BY <1>2, CallType
  <2>2. adding'[q] = [adding[q] EXCEPT !.alone = FALSE]
    BY <1>1
  <2> QED
    BY <2>1, <2>2 DEF AddTokenCall
<1>6. adding'[p] = call /\ \A q \in Processes : q # p /\ ~Busy(q) => adding'[q] = NotAdding
  BY <1>1, <1>2, CallType
<1>7. \A q \in Processes : ~Busy(q) /\ q # p => ~Busy(q)'
  BY <1>6 DEF Busy, NotAdding
<1> HIDE DEF call
<1>8. StoreType'
  <2>1. adding' \in [Processes -> {NotAdding} \cup AddTokenCall]
    BY <1>1, <1>4, <1>5, <1>6
  <2> QED
    BY <2>1, <1>1, <1>2 DEF StoreType
<1>9. AloneInv'
  <2>1. ASSUME NEW q \in Processes, Busy(q)'
        PROVE  /\ adding'[q].doc[adding'[q].key] = adding'[q].token
               /\ adding'[q].alone => \A s \in Processes : Busy(s)' => s = q
               /\ adding'[q].alone /\ adding'[q].at = "opened" => file' = Empty
               /\ adding'[q].at = "opened" => sole' = NobodySole
    <3>1. CASE q = p
      BY <3>1, <1>1, <1>3, <1>6, <1>7 DEF call
    <3>2. CASE q # p
      BY <3>2, <2>1, <1>1, <1>2, <1>5, <1>7 DEF AloneInv
    <3> QED
      BY <3>1, <3>2
  <2> QED
    BY <2>1 DEF AloneInv
<1>10. UndisturbedInv'
  <2> SUFFICES ASSUME ~disturbed', NEW q \in Processes, Busy(q)'
               PROVE  /\ adding'[q].alone
                      /\ adding'[q].doc = [stored' EXCEPT ![adding'[q].key] = adding'[q].token]
    BY DEF UndisturbedInv
  <2>1. others = {} /\ ~disturbed
    BY <1>1, <1>2 DEF StoreType
  <2>2. q = p
    BY <2>1, <1>7
  <2>3. readServersFile = stored
    BY <2>1, <1>2, CallType DEF StoreSafe, KeptUndisturbed
  <2> QED
    BY <2>1, <2>2, <2>3, <1>1, <1>6 DEF call
<1>11. StoreSafe'
  <2>1. readServersFile' = readServersFile
    BY <1>1 DEF readServersFile, NoTokens
  <2>2. \A q \in Processes : adding'[q].at # "opened" => adding[q].at # "opened"
    BY <1>1, <1>2, <1>5, CallType
  <2> QED
    BY <2>1, <2>2, <1>1, <1>2 DEF StoreSafe, KeptUndisturbed, StoreRecovers, StoreType
<1> QED
  BY <1>8, <1>9, <1>10, <1>11 DEF StoreInv

LEMMA OpenTruncatesStep ==
    ASSUME StoreInv, NEW p \in Processes, OpenTruncates(p)
    PROVE  StoreInv'
<1> DEFINE call == [adding[p] EXCEPT !.at = "opened"]
<1>1. /\ adding[p].at = "read" /\ adding' = [adding EXCEPT ![p] = call]
      /\ file' = Empty /\ sole' = NobodySole /\ UNCHANGED <<disturbed, stored>>
  BY DEF OpenTruncates
<1>2. StoreType /\ AloneInv /\ UndisturbedInv /\ StoreSafe
  BY DEF StoreInv
<1>3. Busy(p) /\ adding[p] \in AddTokenCall
  BY <1>1, <1>2, CallType
<1>4. /\ call \in AddTokenCall /\ call.at = "opened" /\ call.key = adding[p].key
      /\ call.token = adding[p].token /\ call.doc = adding[p].doc /\ call.alone = adding[p].alone
  BY <1>3 DEF AddTokenCall
<1> HIDE DEF call
<1>5. adding'[p] = call /\ \A q \in Processes : q # p => adding'[q] = adding[q]
  BY <1>1, <1>2 DEF StoreType
<1>6. \A q \in Processes : Busy(q)' <=> Busy(q)
  BY <1>3, <1>4, <1>5 DEF Busy
<1>7. StoreType'
  BY <1>1, <1>2, <1>4 DEF StoreType
<1>8. AloneInv'
  BY <1>1, <1>2, <1>3, <1>4, <1>5, <1>6 DEF AloneInv
<1>9. UndisturbedInv'
  BY <1>1, <1>2, <1>3, <1>4, <1>5, <1>6 DEF UndisturbedInv
<1>10. StoreSafe'
  BY <1>1, <1>4, <1>5 DEF StoreSafe, KeptUndisturbed, StoreRecovers
<1> QED
  BY <1>7, <1>8, <1>9, <1>10 DEF StoreInv

\* A call that goes, and leaves the others as they are.
LEMMA Gone ==
    ASSUME StoreType, NEW p \in Processes, adding' = [adding EXCEPT ![p] = NotAdding]
    PROVE  /\ adding' \in [Processes -> {NotAdding} \cup AddTokenCall] /\ adding'[p] = NotAdding
           /\ \A q \in Processes : Busy(q)' => q # p /\ Busy(q)
           /\ \A q \in Processes : q # p => adding'[q] = adding[q]
  BY DEF StoreType, Busy, NotAdding

LEMMA CloseFileStep ==
    ASSUME StoreInv, NEW p \in Processes, Close(p)
    PROVE  StoreInv'
<1> DEFINE a == adding[p]
<1>1. /\ a.at = "opened" /\ adding' = [adding EXCEPT ![p] = NotAdding]
      /\ \/ file' = [st |-> "parsed", tokens |-> a.doc]
         \/ file # Empty /\ file' = Broken
      /\ stored' = [stored EXCEPT ![a.key] = a.token]
      /\ sole' = IF a.alone THEN [key |-> a.key, token |-> a.token] ELSE NobodySole
      /\ UNCHANGED disturbed
  BY DEF Close
<1>2. StoreType /\ AloneInv /\ UndisturbedInv /\ StoreSafe
  BY DEF StoreInv
<1>3. Busy(p) /\ a \in AddTokenCall
  BY <1>1, <1>2, CallType
<1>4. /\ a.key \in TokenKeys /\ a.token \in Token /\ a.doc \in Document /\ a.doc[a.key] = a.token
      /\ a.alone \in BOOLEAN
  BY <1>2, <1>3 DEF AddTokenCall, AloneInv
<1>5. a.alone => /\ file' = [st |-> "parsed", tokens |-> a.doc] /\ readServersFile' = a.doc
                 /\ \A q \in Processes : ~Busy(q)'
  <2>1. a.alone => file = Empty /\ \A q \in Processes : Busy(q) => q = p
    BY <1>1, <1>2, <1>3 DEF AloneInv
  <2>2. a.alone => file' = [st |-> "parsed", tokens |-> a.doc]
    BY <1>1, <2>1
  <2>3. a.alone => readServersFile' = a.doc
    BY <2>2 DEF readServersFile
  <2>4. a.alone => \A q \in Processes : ~Busy(q)'
    BY <1>1, <1>2, <2>1, Gone
  <2> QED
    BY <2>2, <2>3, <2>4
<1>6. StoreType'
  <2>1. stored' \in Document
    BY <1>1, <1>2, <1>4 DEF StoreType, Document
  <2>2. file' \in {Empty, Broken} \cup [st : {"parsed"}, tokens : Document]
    BY <1>1, <1>4
  <2>3. sole' \in {NobodySole} \cup [key : TokenKeys, token : Token]
    BY <1>1, <1>4
  <2> QED
    BY <2>1, <2>2, <2>3, <1>1, <1>2, Gone DEF StoreType
<1>7. AloneInv'
  <2>1. ASSUME NEW q \in Processes, Busy(q)'
        PROVE  /\ adding'[q].doc[adding'[q].key] = adding'[q].token
               /\ ~adding'[q].alone
               /\ sole' = NobodySole
    <3>1. q # p /\ Busy(q) /\ adding'[q] = adding[q]
      BY <2>1, <1>1, <1>2, Gone
    <3> QED
      BY <3>1, <2>1, <1>1, <1>2, <1>3, <1>5 DEF AloneInv
  <2> QED
    BY <2>1 DEF AloneInv
<1>8. UndisturbedInv'
  <2>1. ~disturbed => a.alone
    BY <1>2, <1>3 DEF UndisturbedInv
  <2> QED
    BY <2>1, <1>1, <1>5 DEF UndisturbedInv
<1>9. StoreSafe'
  <2>1. KeptUndisturbed'
    <3>1. ~disturbed => a.alone /\ a.doc = [stored EXCEPT ![a.key] = a.token]
      BY <1>2, <1>3 DEF UndisturbedInv
    <3> QED
      BY <3>1, <1>1, <1>5 DEF KeptUndisturbed
  <2>2. StoreRecovers'
    BY <1>1, <1>4, <1>5 DEF StoreRecovers, NobodySole
  <2> QED
    BY <2>1, <2>2 DEF StoreSafe
<1> QED
  BY <1>6, <1>7, <1>8, <1>9 DEF StoreInv

\* The file is changed only by a call that has opened it: then there is none that is sole.
LEMMA EndsStep ==
    ASSUME StoreInv, NEW p \in Processes, OpenFails(p) \/ EndsBefore(p)
    PROVE  StoreInv'
<1>1. /\ Busy(p) /\ adding' = [adding EXCEPT ![p] = NotAdding] /\ UNCHANGED <<stored, sole>>
      /\ \/ adding[p].at = "opened" /\ disturbed' = TRUE /\ file' \in {file, Broken}
         \/ adding[p].at # "opened" /\ UNCHANGED <<disturbed, file>>
  BY DEF OpenFails, EndsBefore, Busy
<1>2. StoreType /\ AloneInv /\ UndisturbedInv /\ StoreSafe
  BY DEF StoreInv
<1>3. StoreType'
  BY <1>1, <1>2, Gone DEF StoreType
<1>4. AloneInv'
  <2>1. ASSUME NEW q \in Processes, Busy(q)'
        PROVE  /\ q # p /\ Busy(q) /\ adding'[q] = adding[q]
               /\ ~adding[q].alone
    BY <2>1, <1>1, <1>2, Gone DEF AloneInv
  <2> QED
    BY <2>1, <1>1, <1>2 DEF AloneInv
<1>5. UndisturbedInv'
  <2>1. ASSUME NEW q \in Processes, Busy(q)'
        PROVE  Busy(q) /\ adding'[q] = adding[q]
    BY <2>1, <1>1, <1>2, Gone
  <2> QED
    BY <2>1, <1>1, <1>2 DEF UndisturbedInv
<1>6. StoreSafe'
  <2>1. CASE adding[p].at = "opened"
    <3>1. sole = NobodySole /\ disturbed'
      BY <2>1, <1>1, <1>2 DEF AloneInv
    <3> QED
      BY <3>1, <1>1 DEF StoreSafe, KeptUndisturbed, StoreRecovers
  <2>2. CASE adding[p].at # "opened"
    <3>1. UNCHANGED <<file, disturbed, stored, sole>> /\ readServersFile' = readServersFile
      BY <2>2, <1>1 DEF readServersFile, NoTokens
    <3>2. \A q \in Processes : adding'[q].at # "opened" => adding[q].at # "opened"
      BY <2>2, <1>1, <1>2, Gone
    <3> QED
      BY <3>1, <3>2, <1>2 DEF StoreSafe, KeptUndisturbed, StoreRecovers
  <2> QED
    BY <2>1, <2>2
<1> QED
  BY <1>3, <1>4, <1>5, <1>6 DEF StoreInv

(***************************************************************************)
(* For any processes, servers and tokens: as long as no two calls of       *)
(* addToken overlap and none is cut short, the file holds what was last    *)
(* stored for every server; and whatever happened before, a call that runs *)
(* to its end alone leaves its token there (gretioauthhandler.cpp).        *)
(***************************************************************************)
THEOREM StoreCorrect == StoreSpec => []StoreSafe
<1>1. StoreInit => StoreInv
  <2> SUFFICES ASSUME StoreInit PROVE StoreInv
    OBVIOUS
  <2>1. NoTokens \in Document
    <3>1. NoEntry \in Token
      BY DEF Token
    <3> QED
      BY <3>1 DEF NoTokens, Document
  <2>2. StoreType
    BY <2>1 DEF StoreInit, StoreType
  <2>3. \A p \in Processes : ~Busy(p)
    BY DEF StoreInit, Busy, NotAdding
  <2>4. readServersFile = NoTokens
    BY DEF StoreInit, readServersFile, Empty
  <2> QED
    BY <2>2, <2>3, <2>4 DEF StoreInit, StoreInv, AloneInv, UndisturbedInv, StoreSafe, KeptUndisturbed,
                            StoreRecovers
<1>2. StoreInv /\ [StoreNext]_storeVars => StoreInv'
  <2> SUFFICES ASSUME StoreInv, [StoreNext]_storeVars PROVE StoreInv'
    OBVIOUS
  <2>1. CASE StoreNext
    BY <2>1, AddTokenStep, OpenTruncatesStep, CloseFileStep, EndsStep DEF StoreNext
  <2>2. CASE UNCHANGED storeVars
    BY <2>2 DEF storeVars, StoreInv, StoreType, AloneInv, UndisturbedInv, StoreSafe, KeptUndisturbed,
                StoreRecovers, Busy, readServersFile, NoTokens
  <2> QED
    BY <2>1, <2>2
<1>3. StoreInv => StoreSafe
  BY DEF StoreInv
<1> QED
  BY <1>1, <1>2, <1>3, PTL DEF StoreSpec

-----------------------------------------------------------------------------
(***************************************************************************)
(* PassThruMsgs                                                            *)
(***************************************************************************)
LEMMA LeastNatural ==
    ASSUME NEW T, T \subseteq Nat, T # {}
    PROVE  \E n \in T : \A m \in T : n <= m
<1> DEFINE R == OpToRel(<, Nat)
<1>1. PICK n \in T : \A m \in T : ~ (<<m, n>> \in R)
  BY WFMin, NatLessThanWellFounded
<1>2. \A m \in T : ~ (m < n)
  BY <1>1 DEF OpToRel
<1> QED
  BY <1>2

\* Data, as an array of the host or of the reader.
IsData(d) == d \in Seq(Byte) /\ Len(d) = DataMax

LEMMA DataCut ==
    ASSUME NEW d, IsData(d), NEW m \in 1..(DataMax + 1), NEW n \in 0..DataMax
    PROVE  /\ SubSeq(d, m, n) \in Seq(Byte)
           /\ Len(SubSeq(d, m, n)) = IF m <= n THEN n - m + 1 ELSE 0
           /\ \A i \in 1..(n - m + 1) : SubSeq(d, m, n)[i] = d[m + i - 1]
<1>1. DataMax \in Nat
  BY MsgsAssumption
<1>2. \A i \in m..n : d[i] \in Byte
  BY <1>1, ElementOfSeq DEF IsData
<1> QED
  BY <1>1, <1>2, SubSeqProperties

\* The header and the data of a message of the host are bytes, and together what it
\* has written if its size leaves room for a header.
LEMMA WrittenJson ==
    ASSUME NEW m \in HostMsgs, NEW j, j = PtMsgToJson(m)
    PROVE  /\ j.header \in Seq(Byte) /\ j.data \in Seq(Byte) /\ j.fields = m.fields
           /\ m.size >= HeaderLen => j.header \o j.data = SubSeq(m.data, 1, m.size)
           /\ m.size >= HeaderLen => Len(j.header \o j.data) = m.size
<1>1. DataMax \in Nat /\ DataMax >= 4 /\ HeaderLen = 4 /\ IsData(m.data) /\ m.size \in 0..DataMax
  BY MsgsAssumption DEF IsData, HeaderLen
<1>2. /\ 1 \in 1..(DataMax + 1) /\ HeaderLen + 1 \in 1..(DataMax + 1) /\ HeaderLen \in 0..DataMax
      /\ HeaderLen \in Nat
  BY <1>1
<1>3. j.header = SubSeq(m.data, 1, HeaderLen) /\ j.header \in Seq(Byte) /\ j.fields = m.fields
  <2>1. SubSeq(m.data, 1, HeaderLen) \in Seq(Byte)
    BY <1>1, <1>2, DataCut
  <2> QED
    BY <2>1 DEF PtMsgToJson
<1>4. CASE m.size < HeaderLen
  <2> DEFINE ends == {i \in (HeaderLen + 1)..DataMax : m.data[i] = 0}
             least == CHOOSE i \in ends : \A k \in ends : i <= k
  <2>1. ends \subseteq 5..DataMax
    BY <1>1
  <2>2. CASE ends = {}
    <3>1. j.data = SubSeq(m.data, HeaderLen + 1, DataMax)
      BY <2>2, <1>4 DEF PtMsgToJson, UpToZero
    <3>2. DataMax \in 0..DataMax
      BY <1>1
    <3>3. SubSeq(m.data, HeaderLen + 1, DataMax) \in Seq(Byte)
      BY <3>2, <1>1, <1>2, DataCut
    <3>4. j.data \in Seq(Byte)
      BY <3>1, <3>3
    <3> QED
      BY <3>4, <1>1, <1>2, <1>3, <1>4
  <2>3. CASE ends # {}
    <3>1. least \in ends
      <4>1. ends \subseteq Nat
        BY <2>1
      <4> HIDE DEF ends
      <4>2. \E i \in ends : \A k \in ends : i <= k
        BY <4>1, <2>3, LeastNatural
      <4> QED
        BY <4>2
    <3>2. j.data = SubSeq(m.data, HeaderLen + 1, least - 1)
      BY <2>3, <1>4 DEF PtMsgToJson, UpToZero
    <3> HIDE DEF ends, least
    <3>3. least \in 5..DataMax
      BY <2>1, <3>1
    <3>4. PICK last \in 0..DataMax : j.data = SubSeq(m.data, HeaderLen + 1, last)
      BY <1>1, <3>2, <3>3
    <3>5. j.data \in Seq(Byte)
      <4>1. SubSeq(m.data, HeaderLen + 1, last) \in Seq(Byte)
        BY <1>1, <1>2, DataCut
      <4> QED
        BY <3>4, <4>1
    <3> QED
      BY <3>5, <1>1, <1>2, <1>3, <1>4
  <2> QED
    BY <2>2, <2>3
<1>5. CASE ~(m.size < HeaderLen)
  <2>1. m.size >= HeaderLen
    BY <1>1, <1>5
  <2>2. j.data = SubSeq(m.data, HeaderLen + 1, m.size)
    BY <1>5 DEF PtMsgToJson
  <2>3. /\ j.data \in Seq(Byte)
        /\ Len(SubSeq(m.data, 1, m.size)) = m.size
    <3>1. SubSeq(m.data, HeaderLen + 1, m.size) \in Seq(Byte)
      BY <1>1, <1>2, DataCut
    <3>2. Len(SubSeq(m.data, 1, m.size)) = IF 1 <= m.size THEN m.size - 1 + 1 ELSE 0
      BY <1>1, <1>2, DataCut
    <3>3. 1 <= m.size /\ m.size - 1 + 1 = m.size
      BY <1>1, <2>1
    <3> QED
      BY <3>1, <3>2, <3>3, <2>2
  <2>4. /\ m.data \in Seq(Byte) /\ 1 \in 1..(Len(m.data) + 1) /\ HeaderLen \in (1 - 1)..Len(m.data)
        /\ m.size \in HeaderLen..Len(m.data)
    BY <1>1, <2>1 DEF IsData
  <2>5. SubSeq(m.data, 1, HeaderLen) \o SubSeq(m.data, HeaderLen + 1, m.size) = SubSeq(m.data, 1, m.size)
    BY <2>4, ConcatAdjacentSubSeq
  <2> QED
    BY <1>3, <2>2, <2>3, <2>5
<1> QED
  BY <1>4, <1>5

\* What is read into Data: raw, and behind it what was there.
Overwritten(raw, dest) ==
    IF Len(raw) < HeaderLen \/ Len(raw) > DataMax THEN dest ELSE raw \o SubSeq(dest, Len(raw) + 1, DataMax)

Copied(new, raw, dest) ==
    /\ IsData(new)
    /\ \A b \in 1..DataMax : b > Len(raw) => new[b] = dest[b]
    /\ Len(raw) \in HeaderLen..DataMax => SubSeq(new, 1, Len(raw)) = raw

LEMMA CopyRaw ==
    ASSUME NEW raw \in Seq(Byte), NEW dest, IsData(dest), NEW new, new = Overwritten(raw, dest)
    PROVE  Copied(new, raw, dest)
<1>1. PICK n \in Nat : n = Len(raw)
  BY LenProperties
<1>2. DataMax \in Nat /\ HeaderLen = 4
  BY MsgsAssumption DEF HeaderLen
<1>4. CASE n < HeaderLen \/ n > DataMax
  <2>1. new = dest
    BY <1>1, <1>4 DEF Overwritten
  <2>2. n \notin HeaderLen..DataMax
    BY <1>2, <1>4
  <2> QED
    BY <2>1, <2>2, <1>1 DEF Copied
<1>5. CASE ~(n < HeaderLen \/ n > DataMax)
  <2> DEFINE rest == SubSeq(dest, n + 1, DataMax)
  <2>0. n \in HeaderLen..DataMax /\ n + 1 \in 1..(DataMax + 1) /\ DataMax \in 0..DataMax /\ n <= DataMax
    BY <1>2, <1>5
  <2>1. new = raw \o rest
    BY <1>1, <1>5 DEF Overwritten
  <2>2. /\ rest \in Seq(Byte) /\ Len(rest) = IF n + 1 <= DataMax THEN DataMax - (n + 1) + 1 ELSE 0
        /\ \A i \in 1..(DataMax - (n + 1) + 1) : rest[i] = dest[n + 1 + i - 1]
    BY <2>0, DataCut
  <2> HIDE DEF rest
  <2>3. /\ Len(rest) = DataMax - n /\ \A i \in 1..(DataMax - n) : rest[i] = dest[n + i]
    BY <2>0, <2>2, <1>2
  <2>4. /\ raw \o rest \in Seq(Byte) /\ Len(raw \o rest) = n + Len(rest)
        /\ \A i \in 1..(n + Len(rest)) : (raw \o rest)[i] = IF i <= n THEN raw[i] ELSE rest[i - n]
    BY <1>1, <2>2, ConcatProperties
  <2>5. IsData(new)
    BY <1>2, <2>0, <2>1, <2>3, <2>4 DEF IsData
  <2>6. SubSeq(raw \o rest, 1, n) = raw
    <3>1. 1 \in 1..Len(raw) /\ n \in 1..Len(raw)
      BY <1>1, <1>2, <2>0
    <3>2. SubSeq(raw \o rest, 1, n) = SubSeq(raw, 1, n)
      BY <3>1, <2>2, SubSeqOfConcat1
    <3> QED
      BY <3>2, <1>1, SubSeqFull
  <2>7. \A b \in 1..DataMax : b > n => new[b] = dest[b]
    <3> DEFINE both == raw \o rest
    <3>1. n + Len(rest) = DataMax /\ \A i \in 1..DataMax : both[i] = IF i <= n THEN raw[i] ELSE rest[i - n]
      BY <1>2, <2>0, <2>3, <2>4
    <3>2. new = both
      BY <2>1
    <3> HIDE DEF both
    <3> QED
      BY <3>1, <3>2, <1>2, <2>0, <2>3
  <2> QED
    BY <1>1, <2>1, <2>5, <2>6, <2>7 DEF Copied
<1> QED
  BY <1>4, <1>5

\* What a message that is read makes of Data.
LEMMA CopyFacts ==
    ASSUME NEW j, j.header \in Seq(Byte), j.data \in Seq(Byte), NEW dest, IsData(dest.data)
    PROVE  /\ CopyJsonMsg(j, dest).size = Len(j.header \o j.data) /\ CopyJsonMsg(j, dest).fields = j.fields
           /\ Copied(CopyJsonMsg(j, dest).data, j.header \o j.data, dest.data)
<1>1. j.header \o j.data \in Seq(Byte)
  BY ConcatProperties
<1>2. /\ CopyJsonMsg(j, dest).size = Len(j.header \o j.data) /\ CopyJsonMsg(j, dest).fields = j.fields
      /\ CopyJsonMsg(j, dest).data = Overwritten(j.header \o j.data, dest.data)
  BY Zenon DEF CopyJsonMsg, Overwritten
<1> QED
  BY <1>1, <1>2, CopyRaw

(***************************************************************************)
(* What the device holds is a message of its own, or what the host wrote.  *)
(***************************************************************************)
Held == {[json |-> PtMsgToJson(m), of |-> m] : m \in HostMsgs} \cup {[json |-> j, of |-> NotOurs] : j \in DeviceMsgs}

MsgsInv ==
    /\ held \in Seq(Held) /\ read \in Seq(Held)
    /\ numMsgs \in 0..BufferLen
    /\ pMsg = [i \in 1..BufferLen |-> pMsg[i]] /\ \A i \in 1..BufferLen : IsData(pMsg[i].data)
    /\ LoopbackIntact

LEMMA HeldFacts ==
    ASSUME NEW e \in Held
    PROVE  /\ e.json.header \in Seq(Byte) /\ e.json.data \in Seq(Byte)
           /\ e.of.size >= HeaderLen => e.of \in HostMsgs /\ e.json = PtMsgToJson(e.of)
<1>1. CASE \E m \in HostMsgs : e = [json |-> PtMsgToJson(m), of |-> m]
  <2>1. PICK m \in HostMsgs : e = [json |-> PtMsgToJson(m), of |-> m]
    BY <1>1
  <2>2. e.of = m /\ e.json = PtMsgToJson(m)
    BY <2>1
  <2> QED
    BY <2>2, WrittenJson
<1>2. CASE \E j \in DeviceMsgs : e = [json |-> j, of |-> NotOurs]
  BY <1>2, MsgsAssumption DEF NotOurs, HeaderLen
<1> QED
  BY <1>1, <1>2 DEF Held

LEMMA UnfilledData == IsData(Unfilled.data)
<1> DEFINE z == [i \in 1..DataMax |-> 0]
<1>1. DataMax \in Nat /\ z \in [1..DataMax -> Byte]
  BY MsgsAssumption DEF Byte
<1>2. z \in Seq(Byte)
  BY <1>1, SeqDef
<1>3. Len(z) = DataMax
  BY <1>1, <1>2, LenProperties
<1> QED
  BY <1>2, <1>3 DEF Unfilled, IsData

LEMMA HoldStep ==
    ASSUME MsgsInv, NEW e \in Held, held' = Append(held, e), UNCHANGED <<pMsg, numMsgs, read>>
    PROVE  MsgsInv'
<1>1. held' \in Seq(Held)
  BY AppendProperties DEF MsgsInv
<1> QED
  BY <1>1 DEF MsgsInv, LoopbackIntact

\* The array after a read of k messages.
LEMMA ReadFacts ==
    ASSUME MsgsInv, NEW n \in 0..BufferLen, NEW k \in 0..n, ReadMsgs(n, k), NEW i \in 1..BufferLen
    PROVE  /\ i <= k => /\ pMsg'[i] = CopyJsonMsg(held[i].json, pMsg[i]) /\ held[i] \in Held
                        /\ read'[i] = held[i]
           /\ i > k => pMsg'[i] = pMsg[i]
<1>1. k \in 0..Len(held) /\ k \in Nat /\ Len(held) \in Nat /\ BufferLen \in Nat
  BY MsgsAssumption, LenProperties DEF ReadMsgs, MsgsInv
<1>2. pMsg'[i] = IF i <= k THEN CopyJsonMsg(held[i].json, pMsg[i]) ELSE pMsg[i]
  BY DEF ReadMsgs
<1>3. i <= k => held[i] \in Held
  BY <1>1, ElementOfSeq DEF MsgsInv
<1>4. i <= k => read'[i] = held[i]
  <2>1. \A x \in 1..k : held[x] \in Held
    BY <1>1, ElementOfSeq DEF MsgsInv
  <2>2. read' = SubSeq(held, 1, k)
    BY DEF ReadMsgs
  <2>3. \A x \in 1..k : SubSeq(held, 1, k)[x] = held[x]
    BY <1>1, <2>1, SubSeqProperties
  <2> QED
    BY <1>1, <2>2, <2>3
<1> QED
  BY <1>1, <1>2, <1>3, <1>4

LEMMA ReadStep ==
    ASSUME MsgsInv, NEW n \in 0..BufferLen, NEW k \in 0..n, ReadMsgs(n, k)
    PROVE  MsgsInv'
<1>1. k \in 0..Len(held) /\ k \in Nat /\ Len(held) \in Nat /\ BufferLen \in Nat /\ n \in Nat
  BY MsgsAssumption, LenProperties DEF ReadMsgs, MsgsInv
<1>2. held' \in Seq(Held) /\ read' \in Seq(Held)
  <2>1. \A x \in 1..Len(held) : held[x] \in Held
    BY ElementOfSeq DEF MsgsInv
  <2>2. SubSeq(held, k + 1, Len(held)) \in Seq(Held) /\ SubSeq(held, 1, k) \in Seq(Held)
    BY <1>1, <2>1, SubSeqProperties
  <2> QED
    BY <2>2 DEF ReadMsgs
<1>3. numMsgs' = k /\ numMsgs' \in 0..BufferLen
  BY <1>1 DEF ReadMsgs
<1>4. pMsg' = [i \in 1..BufferLen |-> pMsg'[i]]
  BY DEF ReadMsgs
<1>5. ASSUME NEW i \in 1..BufferLen
      PROVE  IsData(pMsg'[i].data)
  <2>1. IsData(pMsg[i].data)
    BY DEF MsgsInv
  <2>2. CASE i <= k
    <3>1. pMsg'[i] = CopyJsonMsg(held[i].json, pMsg[i]) /\ held[i] \in Held
      BY <2>2, ReadFacts
    <3>2. held[i].json.header \in Seq(Byte) /\ held[i].json.data \in Seq(Byte)
      BY <3>1, HeldFacts
    <3>3. Copied(pMsg'[i].data, held[i].json.header \o held[i].json.data, pMsg[i].data)
      BY <2>1, <3>1, <3>2, CopyFacts
    <3> QED
      BY <3>3 DEF Copied
  <2>3. CASE ~(i <= k)
    BY <2>1, <2>3, <1>1, ReadFacts
  <2> QED
    BY <2>2, <2>3
<1>6. LoopbackIntact'
  <2>1. SUFFICES ASSUME NEW i \in 1..k, held[i].of.size >= HeaderLen
                 PROVE  LET w == held[i].of
                        IN  /\ pMsg'[i].size = w.size /\ pMsg'[i].fields = w.fields
                            /\ SubSeq(pMsg'[i].data, 1, w.size) = SubSeq(w.data, 1, w.size)
    <3>1. \A i \in 1..k : i \in 1..BufferLen /\ i <= k
      BY <1>1
    <3>2. \A i \in 1..k : read'[i] = held[i]
      BY <3>1, ReadFacts
    <3> QED
      BY <1>3, <3>2 DEF LoopbackIntact
  <2> DEFINE w == held[i].of
             j == held[i].json
  <2>2. i \in 1..BufferLen /\ i <= k
    BY <1>1
  <2>3. pMsg'[i] = CopyJsonMsg(j, pMsg[i]) /\ held[i] \in Held /\ IsData(pMsg[i].data)
    BY <2>2, ReadFacts DEF MsgsInv
  <2>4. w \in HostMsgs /\ j = PtMsgToJson(w)
    BY <2>1, <2>3, HeldFacts
  <2>5. /\ j.header \in Seq(Byte) /\ j.data \in Seq(Byte)
        /\ j.header \o j.data = SubSeq(w.data, 1, w.size) /\ Len(j.header \o j.data) = w.size
        /\ j.fields = w.fields
    BY <2>1, <2>4, WrittenJson
  <2>6. w.size \in HeaderLen..DataMax
    BY <2>1, <2>4, MsgsAssumption DEF HeaderLen
  <2>7. /\ pMsg'[i].size = Len(j.header \o j.data) /\ pMsg'[i].fields = j.fields
        /\ Len(j.header \o j.data) \in HeaderLen..DataMax
             => SubSeq(pMsg'[i].data, 1, Len(j.header \o j.data)) = j.header \o j.data
    <3>1. /\ pMsg'[i].size = Len(j.header \o j.data) /\ pMsg'[i].fields = j.fields
          /\ Copied(pMsg'[i].data, j.header \o j.data, pMsg[i].data)
      <4>1. held[i].json.header \in Seq(Byte) /\ held[i].json.data \in Seq(Byte)
        BY <2>3, HeldFacts
      <4>2. /\ CopyJsonMsg(held[i].json, pMsg[i]).size = Len(held[i].json.header \o held[i].json.data)
            /\ CopyJsonMsg(held[i].json, pMsg[i]).fields = held[i].json.fields
            /\ Copied(CopyJsonMsg(held[i].json, pMsg[i]).data, held[i].json.header \o held[i].json.data,
                      pMsg[i].data)
        BY <2>3, <4>1, CopyFacts
      <4> QED
        BY <2>3, <4>2, Zenon
    <3> QED
      BY <3>1, Zenon DEF Copied
  <2> QED
    BY <2>5, <2>6, <2>7, Zenon
<1> QED
  BY <1>2, <1>3, <1>4, <1>5, <1>6 DEF MsgsInv

MsgsKept ==
    \A i \in 1..BufferLen :
        /\ i > numMsgs' => pMsg'[i] = pMsg[i]
        /\ \A b \in 1..DataMax : b > pMsg'[i].size => pMsg'[i].data[b] = pMsg[i].data[b]

LEMMA ReadKeeps ==
    ASSUME MsgsInv, NEW n \in 0..BufferLen, NEW k \in 0..n, ReadMsgs(n, k)
    PROVE  MsgsKept
<1>1. numMsgs' = k /\ k \in Nat
  BY DEF ReadMsgs
<1>2. SUFFICES ASSUME NEW i \in 1..BufferLen
               PROVE  /\ i > k => pMsg'[i] = pMsg[i]
                      /\ \A b \in 1..DataMax : b > pMsg'[i].size => pMsg'[i].data[b] = pMsg[i].data[b]
  BY <1>1 DEF MsgsKept
<1>3. CASE i <= k
  <2>1. pMsg'[i] = CopyJsonMsg(held[i].json, pMsg[i]) /\ held[i] \in Held /\ IsData(pMsg[i].data)
    BY <1>3, ReadFacts DEF MsgsInv
  <2>2. /\ pMsg'[i].size = Len(held[i].json.header \o held[i].json.data)
        /\ \A b \in 1..DataMax : b > Len(held[i].json.header \o held[i].json.data)
               => pMsg'[i].data[b] = pMsg[i].data[b]
    <3>1. held[i].json.header \in Seq(Byte) /\ held[i].json.data \in Seq(Byte)
      BY <2>1, HeldFacts
    <3>2. /\ pMsg'[i].size = Len(held[i].json.header \o held[i].json.data)
          /\ Copied(pMsg'[i].data, held[i].json.header \o held[i].json.data, pMsg[i].data)
      BY <2>1, <3>1, CopyFacts
    <3> QED
      BY <3>2, Zenon DEF Copied
  <2>3. \A b \in 1..DataMax : b > pMsg'[i].size => pMsg'[i].data[b] = pMsg[i].data[b]
    BY <2>2, Zenon
  <2>4. ~(i > k)
    BY <1>1, <1>3
  <2> QED
    BY <2>3, <2>4
<1>4. CASE i > k
  BY <1>4, ReadFacts
<1> QED
  BY <1>1, <1>3, <1>4

LEMMA MsgsStep ==
    ASSUME MsgsInv, [MsgsNext]_msgsVars
    PROVE  MsgsInv' /\ [MsgsKept]_msgsVars
<1>1. CASE \E m \in HostMsgs : WriteMsg(m)
  <2>1. PICK m \in HostMsgs : WriteMsg(m)
    BY <1>1
  <2>2. [json |-> PtMsgToJson(m), of |-> m] \in Held
    BY DEF Held
  <2> QED
    BY <2>1, <2>2, HoldStep DEF WriteMsg, MsgsKept
<1>2. CASE \E j \in DeviceMsgs : DeviceMsg(j)
  <2>1. PICK j \in DeviceMsgs : DeviceMsg(j)
    BY <1>2
  <2>2. [json |-> j, of |-> NotOurs] \in Held
    BY DEF Held
  <2> QED
    BY <2>1, <2>2, HoldStep DEF DeviceMsg, MsgsKept
<1>3. CASE \E n \in 0..BufferLen : \E k \in 0..n : ReadMsgs(n, k)
  BY <1>3, ReadStep, ReadKeeps
<1>4. CASE UNCHANGED msgsVars
  BY <1>4 DEF msgsVars, MsgsInv, LoopbackIntact
<1> QED
  BY <1>1, <1>2, <1>3, <1>4 DEF MsgsNext

(***************************************************************************)
(* For any size of Data, any messages and any length of the host's array:  *)
(* a message the host wrote with a header is read back as it was written,  *)
(* and a read writes nothing beyond the messages it counts, nor in them    *)
(* beyond their size (J2534.cpp).                                          *)
(***************************************************************************)
THEOREM MsgsCorrect == MsgsSpec => MsgsPromises
<1>1. MsgsInit => MsgsInv
  BY UnfilledData, EmptySeq, MsgsAssumption DEF MsgsInit, MsgsInv, LoopbackIntact
<1>2. MsgsInv /\ [MsgsNext]_msgsVars => MsgsInv' /\ [MsgsKept]_msgsVars
  BY MsgsStep
<1>3. MsgsInv => LoopbackIntact
  BY DEF MsgsInv
<1>4. NothingBeyondCount <=> [][MsgsKept]_msgsVars
  BY DEF NothingBeyondCount, MsgsKept
<1> QED
  BY <1>1, <1>2, <1>3, <1>4, PTL DEF MsgsSpec, MsgsPromises

=============================================================================
