---------------------------- MODULE GretioServer ----------------------------
(***************************************************************************)
(* The Gretio device at the other end of the websocket.  Its program is    *)
(* not in the repository: it is modelled from the messages the client      *)
(* sends it and the answers the client's handlers distinguish              *)
(* (gretioauthhandler.cpp, gretiowebcontext.cpp).                          *)
(*                                                                         *)
(* All four variables describe ONE websocket connection.  A new connection *)
(* starts from ServerIdle: the device keeps no login across connections.   *)
(***************************************************************************)
EXTENDS Naturals

VARIABLES
    authReq,    \* the unanswered message id 80: "none", "new" or "token"
    beginReqs,  \* how many messages id 9000 are unanswered
    ptReqs,     \* the unanswered pass thru requests, as [cseq, op] records
    accepted    \* what the device granted this connection

serverVars == <<authReq, beginReqs, ptReqs, accepted>>

\* A connection on which nothing was asked and nothing granted.
ServerIdle ==
    /\ authReq = "none"
    /\ beginReqs = 0
    /\ ptReqs = {}
    /\ accepted = "none"

\* The connection is gone, and with it every answer that was on its way.
ServerForgets ==
    /\ authReq' = "none"
    /\ beginReqs' = 0
    /\ ptReqs' = {}
    /\ accepted' = "none"

\* The device grants the connection what was asked, one step of three:
\* a new token, a known token, a pass thru session.
ServerGrants(what) == accepted' = what

=============================================================================
