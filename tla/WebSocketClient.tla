--------------------------- MODULE WebSocketClient ---------------------------
(***************************************************************************)
(* GretioWebsocketClient: one QWebSocket, the slots connected to its       *)
(* signals, and the decision about TLS errors.                             *)
(*                                                                         *)
(* `subs` counts the connections of textMessageReceived to                 *)
(* onMessageReceived.  Each onConnected makes one more (Qt does not merge  *)
(* equal connections); only close() removes them, all at once.  A message  *)
(* is handled once per connection.                                         *)
(*                                                                         *)
(* The QWebSocket itself is external: `sock` has the four states in which  *)
(* the client's calls differ.                                              *)
(***************************************************************************)
EXTENDS GretioServer

CONSTANTS
    Servers,      \* devices reached by wss://, each with its certificate
    Plain,        \* endpoints reached by ws://, without a certificate
    Unsupported,  \* valid URLs whose scheme QWebSocket refuses to open
    NoPeer,       \* no endpoint
    CertErrors,   \* the TLS errors each server's certificate raises
    MaxSubs       \* BOUND on subs

SslErrorKinds == {"HostNameMismatch", "UnableToGetLocalIssuerCertificate",
                  "UnableToVerifyFirstCertificate", "SelfSignedCertificate"}

Peers == Servers \cup Plain
Urls  == Peers \cup Unsupported

ASSUME WsAssumption ==
    /\ Servers \cap Plain = {}
    /\ Peers \cap Unsupported = {}
    /\ NoPeer \notin Urls
    /\ CertErrors \in [Servers -> SUBSET SslErrorKinds]
    /\ MaxSubs \in Nat \ {0}

VARIABLES
    sock,   \* "unconnected", "connecting", "connected" or "closing"
    peer,   \* the endpoint the socket was opened to
    ssl,    \* the verdict of onSslErrors for this socket
    subs    \* connections of textMessageReceived to onMessageReceived

wsVars == <<sock, peer, ssl, subs>>

WsInit ==
    /\ sock = "unconnected"
    /\ peer = NoPeer
    /\ ssl = "unchecked"
    /\ subs = 0

WsReset ==
    /\ sock' = "unconnected"
    /\ peer' = NoPeer
    /\ ssl' = "unchecked"
    /\ subs' = 0

\* connectNow(url): QWebSocket::open drops an earlier socket without a signal,
\* and the slots connected for it stay connected.
connectNow(url) ==
    /\ peer' = IF url \in Peers THEN url ELSE NoPeer
    /\ sock' = IF url \in Peers THEN "connecting" ELSE "unconnected"
    /\ ssl' = "unchecked"
    /\ UNCHANGED subs

\* The loop of onSslErrors: every error must be one of the three tolerated.
okError(errors) ==
    errors \subseteq {"HostNameMismatch", "UnableToGetLocalIssuerCertificate",
                      "UnableToVerifyFirstCertificate"}

\* QSslSocket reports the errors of the certificate; ignoreSslErrors lets the
\* handshake go on, otherwise it cannot complete.
onSslErrors ==
    /\ sock = "connecting"
    /\ peer \in Servers
    /\ CertErrors[peer] # {}
    /\ ssl = "unchecked"
    /\ ssl' = IF okError(CertErrors[peer]) THEN "ignored" ELSE "fatal"
    /\ UNCHANGED <<sock, peer, subs>>

\* The handshake can complete.
HandshakeDone ==
    /\ sock = "connecting"
    /\ peer \in Servers => (CertErrors[peer] = {} \/ ssl = "ignored")
    /\ subs < MaxSubs

\* The certificate peerCert() returns: NoPeer stands for a null certificate.
peerCert == IF peer \in Servers THEN peer ELSE NoPeer

\* GretioWebsocketClient::onConnected, up to `emit connected()`.
onConnected ==
    /\ HandshakeDone
    /\ sock' = "connected"
    /\ subs' = subs + 1
    /\ UNCHANGED <<peer, ssl>>

\* onConnected followed by close() in the same call: no slot is left.
onConnectedThenClose ==
    /\ HandshakeDone
    /\ sock' = "closing"
    /\ subs' = 0
    /\ UNCHANGED <<peer, ssl>>

\* Mistake: the slots are disconnected and the socket is left open.
closeSlotsOnly ==
    /\ subs' = 0
    /\ UNCHANGED <<sock, peer, ssl>>

\* GretioWebsocketClient::close: disconnect the slots, close the socket.
close ==
    /\ sock' = "closing"
    /\ subs' = 0
    /\ UNCHANGED <<peer, ssl>>

\* m_webSocket.close(...) in onMessageReceived: the slots stay connected.
abortSocket ==
    /\ sock' = "closing"
    /\ UNCHANGED <<peer, ssl, subs>>

\* QWebSocket reports `disconnected`, whoever ended the connection.
disconnected ==
    /\ sock # "unconnected"
    /\ sock' = "unconnected"
    /\ peer' = NoPeer
    /\ ssl' = "unchecked"
    /\ UNCHANGED subs

\* onMessageReceived runs only on an open socket with a connected slot.
Hears == sock = "connected" /\ subs > 0

\* writeMessage reports success whatever the socket does with the message;
\* only an open socket delivers it.
Delivers == sock = "connected"

=============================================================================
