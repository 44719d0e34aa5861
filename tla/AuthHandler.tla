----------------------------- MODULE AuthHandler -----------------------------
(***************************************************************************)
(* GretioAuthHandler: the login of the client on a new connection, and the *)
(* gate that forwards messages once the login is complete.                 *)
(*                                                                         *)
(* `store` is servertoken.json, the token kept for each server's public    *)
(* key.  A token is represented by the server that issued it, a public key *)
(* by its server.  The store survives the context and the process.         *)
(***************************************************************************)
EXTENDS WebSocketClient

CONSTANT NoToken   \* a null QString

VARIABLES
    authComplete,  \* messages go straight to onMessageToNext
    token,         \* the token of this connection
    pubkey,        \* the key of the last certificate seen
    store          \* token kept for each key

authVars == <<authComplete, token, pubkey>>

AuthInit ==
    /\ authComplete = FALSE
    /\ token = NoToken
    /\ pubkey = NoPeer

AuthReset ==
    /\ authComplete' = FALSE
    /\ token' = NoToken
    /\ pubkey' = NoPeer

getTokenForKey(key) == store[key]

\* Mistake: the key of the first server is kept for the next ones.
authOnConnectedKeepsKey ==
    /\ peerCert # NoPeer
    /\ pubkey' = IF pubkey = NoPeer THEN peerCert ELSE pubkey
    /\ token' = getTokenForKey(peerCert)
    /\ authReq' = IF getTokenForKey(peerCert) = NoToken THEN "new" ELSE "token"
    /\ beginReqs' = 0
    /\ ptReqs' = {}
    /\ accepted' = "none"
    /\ UNCHANGED <<authComplete, store>>

\* Mistake: the session is asked for together with the login.
authOnConnectedPipelined ==
    /\ peerCert # NoPeer
    /\ pubkey' = peerCert
    /\ token' = getTokenForKey(peerCert)
    /\ authReq' = IF getTokenForKey(peerCert) = NoToken THEN "new" ELSE "token"
    /\ beginReqs' = 1
    /\ ptReqs' = {}
    /\ accepted' = "none"
    /\ UNCHANGED <<authComplete, store>>

\* GretioAuthHandler::onConnected with a certificate: ask for a new token or
\* present the stored one.  authComplete keeps its value.
authOnConnected ==
    /\ peerCert # NoPeer
    /\ pubkey' = peerCert
    /\ token' = getTokenForKey(peerCert)
    /\ authReq' = IF getTokenForKey(peerCert) = NoToken THEN "new" ELSE "token"
    /\ beginReqs' = 0
    /\ ptReqs' = {}
    /\ accepted' = "none"
    /\ UNCHANGED <<authComplete, store>>

\* GretioAuthHandler::onConnected without one: onAuthFail("No Certificate").
authOnConnectedNoCert ==
    /\ peerCert = NoPeer
    /\ token' = NoToken
    /\ UNCHANGED <<authComplete, pubkey, store>>

\* addToken: read the file, set one key, write it back.  The file may fail to
\* open for writing, or be truncated and then not written: nothing is reported,
\* and the token, or every token, is lost.
addToken(key, t) ==
    \/ store' = [store EXCEPT ![key] = t]
    \/ UNCHANGED store
    \/ store' = [k \in Servers |-> NoToken]

\* inputMessage: a new token and authResult true, while token is null.
newToken ==
    /\ token = NoToken
    /\ token' = peer
    /\ addToken(pubkey, peer)
    /\ authComplete' = TRUE
    /\ UNCHANGED pubkey

\* inputMessage: authResult true for the token presented.  Every connected
\* slot handles the message, so as many begin requests are written.
authGood ==
    /\ beginReqs' = beginReqs + subs
    /\ UNCHANGED <<authVars, store>>

\* inputMessage: the two failures, authResult false and 9000 result false.
authBad ==
    /\ authComplete' = FALSE
    /\ UNCHANGED <<token, pubkey, store>>

\* inputMessage: 9000 result true.
sessionBegun ==
    /\ authComplete' = TRUE
    /\ UNCHANGED <<token, pubkey, store>>

=============================================================================
