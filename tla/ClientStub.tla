----------------------------- MODULE ClientStub -----------------------------
(***************************************************************************)
(* The client side of the Bonjour service, bonjour-sdk/dnssd_clientstub.c: *)
(* one DNSServiceRef that owns a socket to the daemon, the subordinate     *)
(* references and the records that share it, the calls that send a request *)
(* and wait for the daemon's error code, and DNSServiceProcessResult,      *)
(* which reads replies and calls back a client that may free what it is    *)
(* called for.                                                             *)
(*                                                                         *)
(* An operation or record has an identity that is never used again, and    *)
(* the code's lists are in the order of these; the code knows only its     *)
(* uid, two words of W values here (2^32 there), and a record's index.     *)
(* Every identity the daemon writes into a reply is kept beside the uid,   *)
(* to say whom the reply was meant for.                                    *)
(***************************************************************************)
EXTENDS Integers, Sequences

CONSTANTS W,            \* number of values of one word of a uid
          MaxMade,      \* bound: references and records made in all
          MaxRequests,  \* bound: requests the daemon has not read, cancels aside
          MaxReplies    \* bound: replies the daemon has under way

ASSUME StubAssumption ==
  W \in Nat \ {0, 1} /\ {MaxMade, MaxRequests, MaxReplies} \subseteq Nat

VARIABLES conn,      \* the reference that owns the socket
          subs,      \* its subordinates
          recs,      \* the records, each with its owner
          made,      \* number of identities given out
          wait,      \* the call that waits for the daemon's error code
          reader,      \* DNSServiceProcessResult
          peer,      \* the daemon's end of the socket: "up", "gone"
          requests,  \* requests the daemon has not read
          known,     \* operations and records the daemon works for
          stream     \* replies the stub has not read

stubVars == <<conn, subs, recs, made, wait, reader, peer, requests, known, stream>>
unread == <<peer, requests, known, stream>>

NoConn == [state |-> "none", kind |-> "none", id |-> 0, uid |-> <<0, 0>>, max |-> 0]
Idle   == [pc |-> "idle", of |-> 0, more |-> FALSE, to |-> 0, got |-> 0, failed |-> FALSE]
NoWait == [call |-> "none", id |-> 0, answer |-> "none"]

StubInit ==
  /\ conn = NoConn /\ subs = {} /\ recs = {} /\ made = 0
  /\ wait = NoWait /\ reader = Idle
  /\ peer = "gone" /\ requests = <<>> /\ known = {} /\ stream = <<>>

(* The client's thread is free to call the library: between two calls, or  *)
(* in a callback of DNSServiceProcessResult.                               *)
Callable == wait = NoWait /\ reader.pc \in {"idle", "callback"}

Bump(u) == LET lo == (u[1] + 1) % W
           IN <<lo, IF lo = 0 THEN (u[2] + 1) % W ELSE u[2]>>

Owned(o) == {r \in recs : r.owner = o}
Without(S, id) == {x \in S : x.id # id}
Ids(S) == {x.id : x \in S}

(***************************************************************************)
(* Requests.  deliver_request writes, then waits at most 60 seconds for    *)
(* the error code; a write to a daemon that is gone fails at once.         *)
(***************************************************************************)

Request(op, id, uid) == [op |-> op, id |-> id, uid |-> uid, late |-> FALSE]

(* deliver_request up to the wait; `made' and the lists were set by the    *)
(* caller.  The answer "failed" is there at once if the write fails.       *)
Deliver(call, op, id, uid) ==
  /\ Len(requests) < MaxRequests
  /\ IF peer = "up"
     THEN /\ requests' = Append(requests, Request(op, id, uid))
          /\ wait' = [call |-> call, id |-> id, answer |-> "none"]
     ELSE /\ wait' = [call |-> call, id |-> id, answer |-> "failed"]
          /\ UNCHANGED requests

(* A socket of its own: DNSServiceCreateConnection, or an operation        *)
(* without kDNSServiceFlagsShareConnection.                                *)
ConnectToServer(kind, call, op) ==
  /\ Callable /\ conn = NoConn /\ made < MaxMade
  /\ conn' = [NoConn EXCEPT !.state = "open", !.kind = kind, !.id = made + 1]
  /\ made' = made + 1
  /\ peer' = "up"
  /\ requests' = <<Request(op, made + 1, <<0, 0>>)>>
  /\ wait' = [call |-> call, id |-> made + 1, answer |-> "none"]
  /\ UNCHANGED <<subs, recs, reader, known, stream>>

CreateConnection == ConnectToServer("connection", "create", "connection")

(* A subordinate: appended to the primary's list with the next uid.        *)
ShareConnection(kind) ==
  /\ Callable /\ conn.state # "none" /\ conn.kind = "connection" /\ made < MaxMade
  /\ conn' = [conn EXCEPT !.uid = Bump(@)]
  /\ subs' = subs \union {[id |-> made + 1, uid |-> Bump(conn.uid), kind |-> kind, max |-> 0]}
  /\ made' = made + 1
  /\ Deliver("start", kind, made + 1, Bump(conn.uid))
  /\ UNCHANGED <<recs, reader, peer, known, stream>>

Start(kind) == ConnectToServer(kind, "create", kind) \/ ShareConnection(kind)

(* The operations differ in the request's data and in the handler of their *)
(* replies; only a registered service can be given further records.        *)
DNSServiceResolve     == Start("lookup")
DNSServiceQueryRecord == Start("lookup")
DNSServiceGetAddrInfo == Start("lookup")
DNSServiceBrowse      == Start("lookup")
DNSServiceRegister    == Start("service")
DNSServiceEnumerateDomains      == Start("lookup")
DNSServiceNATPortMappingCreate  == Start("lookup")

NewRecord(owner, uid, index) ==
  [id |-> made + 1, owner |-> owner, uid |-> uid, index |-> index, failed |-> FALSE]

(* The record is in the connection's list, and *RecordRef set, before the  *)
(* request is delivered.                                                   *)
RegisterRecord ==
  /\ Callable /\ conn.state # "none" /\ conn.kind = "connection" /\ made < MaxMade
  /\ conn' = [conn EXCEPT !.uid = Bump(@), !.max = @ + 1]
  /\ recs' = recs \union {NewRecord(conn.id, Bump(conn.uid), conn.max)}
  /\ made' = made + 1
  /\ Deliver("record", "record", made + 1, Bump(conn.uid))
  /\ UNCHANGED <<subs, reader, peer, known, stream>>

(* A record added to a service, which is the connection itself or one of   *)
(* its subordinates.                                                       *)
AddRecord ==
  /\ Callable /\ conn.state # "none" /\ made < MaxMade
  /\ \/ /\ conn.kind = "service"
        /\ conn' = [conn EXCEPT !.max = @ + 1]
        /\ recs' = recs \union {NewRecord(conn.id, <<0, 0>>, conn.max)}
        /\ Deliver("record", "added", made + 1, conn.uid)
        /\ UNCHANGED subs
     \/ \E s \in subs :
          /\ s.kind = "service"
          /\ subs' = (subs \ {s}) \union {[s EXCEPT !.max = @ + 1]}
          /\ recs' = recs \union {NewRecord(s.id, <<0, 0>>, s.max)}
          /\ Deliver("record", "added", made + 1, s.uid)
          /\ UNCHANGED conn
  /\ made' = made + 1
  /\ UNCHANGED <<reader, peer, known, stream>>

\* The request carries the uid of the record's reference (create_hdr).
UpdateRecord ==
  /\ Callable
  /\ \E r \in recs, o \in {conn} \union subs :
       o.id = r.owner /\ Deliver("update", "update", r.id, o.uid)
  /\ UNCHANGED <<conn, subs, recs, made, reader, peer, known, stream>>

RemoveRecord ==
  /\ Callable
  /\ \E r \in recs, o \in {conn} \union subs :
       o.id = r.owner /\ Deliver("remove", "remove", r.id, o.uid)
  /\ UNCHANGED <<conn, subs, recs, made, reader, peer, known, stream>>

(***************************************************************************)
(* References that end.                                                    *)
(***************************************************************************)

(* A mistake: the reader that works on the connection is not told.         *)
FreeConnectionQuietly ==
  /\ conn' = NoConn /\ subs' = {} /\ recs' = {}
  /\ peer' = "gone" /\ requests' = <<>> /\ known' = {} /\ stream' = <<>>
  /\ reader' = reader

(* DNSServiceRefDeallocate of the connection: everything that shares it is *)
(* freed, the socket is closed, and the reader that works on it is told.     *)
FreeConnection ==
  /\ conn' = NoConn /\ subs' = {} /\ recs' = {}
  /\ peer' = "gone" /\ requests' = <<>> /\ known' = {} /\ stream' = <<>>
  /\ reader' = IF reader.of = conn.id THEN [reader EXCEPT !.more = FALSE] ELSE reader

(* ... of a subordinate: a cancel request is written, nothing awaited.     *)
FreeSubordinate(s) ==
  /\ subs' = Without(subs, s.id)
  /\ recs' = recs \ Owned(s.id)
  /\ requests' = IF peer = "up" THEN Append(requests, Request("cancel", s.id, s.uid))
                 ELSE requests
  /\ UNCHANGED <<conn, reader, peer, known, stream>>

RefDeallocate ==
  /\ Callable
  /\ \/ conn.state # "none" /\ FreeConnection
     \/ \E s \in subs : FreeSubordinate(s)
  /\ UNCHANGED <<made, wait>>

(* An operation the daemon refused, or answered too late, is deallocated   *)
(* before the call returns.                                                *)
StartFailed ==
  \/ /\ wait.call = "create" /\ FreeConnection
  \/ /\ wait.call = "start"
     /\ \E s \in subs : s.id = wait.id /\ FreeSubordinate(s)

(* A record whose registration failed stays in the list.                   *)
RecordFailed ==
  /\ wait.call = "record"
  /\ recs' = {IF r.id = wait.id THEN [r EXCEPT !.failed = TRUE] ELSE r : r \in recs}
  /\ UNCHANGED <<conn, subs, reader, unread>>

CallReturns ==
  /\ wait.answer # "none"
  /\ \/ wait.answer = "failed" /\ (StartFailed \/ RecordFailed)
     \/ /\ wait.answer = "ok" /\ wait.call = "remove"
        /\ recs' = Without(recs, wait.id)
        /\ UNCHANGED <<conn, subs, reader, unread>>
     \/ /\ \/ wait.call = "update"
           \/ wait.answer = "ok" /\ wait.call # "remove"
           \/ wait.answer = "failed" /\ wait.call = "remove"
        /\ UNCHANGED <<conn, subs, recs, reader, unread>>
  /\ wait' = NoWait
  /\ UNCHANGED made

(* set_waitlimit gives up; the request stays where it is, and its answer   *)
(* will find the socket closed.                                            *)
TimeOut ==
  /\ wait # NoWait /\ wait.answer = "none"
  /\ wait' = [wait EXCEPT !.answer = "failed"]
  /\ requests' = [i \in 1..Len(requests) |-> [requests[i] EXCEPT !.late = TRUE]]
  /\ UNCHANGED <<conn, subs, recs, made, reader, peer, known, stream>>

(***************************************************************************)
(* DNSServiceProcessResult.  The client calls it when the socket is        *)
(* readable; a socket at its end is.  It does not call it in a callback of *)
(* it, which would overwrite moreptr: QZeroConf calls it from its socket   *)
(* notifiers alone.                                                        *)
(***************************************************************************)

Readable == stream # <<>> \/ peer = "gone"

ProcessResult ==
  /\ wait = NoWait /\ reader.pc = "idle"
  /\ conn.state = "open" /\ Readable
  /\ reader' = [Idle EXCEPT !.pc = "read", !.of = conn.id]
  /\ UNCHANGED <<conn, subs, recs, made, wait, unread>>

(* read_all finds the end of the stream, before a reply or within one: no  *)
(* reply is ever read again.                                               *)
ReadFails ==
  /\ reader.pc = "read" /\ stream = <<>> /\ peer = "gone"
  /\ conn' = IF conn.id = reader.of THEN [conn EXCEPT !.state = "deaf"] ELSE conn
  /\ reader' = Idle
  /\ UNCHANGED <<subs, recs, made, wait, unread>>

Nothing == [id |-> 0, failed |-> FALSE]

(* Whom ConnectionResponse finds for a reply: the first subordinate, or    *)
(* the first record, with its uid; an operation with a socket of its own   *)
(* is called whatever the uid.                                             *)
Addressee(reply) ==
  LET record == reply.op = "record"
      at     == {x \in IF record THEN Owned(conn.id) ELSE subs : x.uid = reply.uid}
      first  == CHOOSE x \in at : \A y \in at : x.id <= y.id
  IN IF conn.kind # "connection" THEN [id |-> conn.id, failed |-> FALSE]
     ELSE IF at = {} THEN Nothing
     ELSE [id |-> first.id, failed |-> record /\ first.failed]

(* One reply is read, more_bytes looks whether another waits, and the      *)
(* client is called, unless nobody is found.                               *)
ReadReply ==
  /\ reader.pc = "read" /\ stream # <<>>
  /\ stream' = Tail(stream)
  /\ LET reply == Head(stream)
         a     == Addressee(reply)
         more  == Len(stream) > 1 \/ peer = "gone"
     IN reader' = IF a.id # 0
                THEN [reader EXCEPT !.pc = "callback", !.more = more,
                                  !.to = reply.id, !.got = a.id, !.failed = a.failed]
                ELSE IF more THEN reader ELSE Idle
  /\ UNCHANGED <<conn, subs, recs, made, wait, peer, requests, known>>

(* The callback returns; the reader goes on while its morebytes is set.      *)
CallbackReturns ==
  /\ wait = NoWait /\ reader.pc = "callback"
  /\ reader' = IF reader.more THEN [Idle EXCEPT !.pc = "read", !.of = reader.of] ELSE Idle
  /\ UNCHANGED <<conn, subs, recs, made, wait, unread>>

(***************************************************************************)
(* The daemon: it reads requests in order, answers the ones somebody still *)
(* waits for, and sends replies for what it works for.                     *)
(***************************************************************************)

Answer(q, a) ==
  IF q.late \/ q.op = "cancel" THEN UNCHANGED wait
  ELSE wait' = [wait EXCEPT !.answer = a]

Work(q) == [id |-> q.id, uid |-> q.uid, op |-> q.op]

DaemonReads ==
  /\ requests # <<>>
  /\ requests' = Tail(requests)
  /\ LET q == Head(requests)
     IN \/ /\ q.op \in {"lookup", "service", "record", "added", "connection"}
           /\ known' = known \union {Work(q)} /\ Answer(q, "ok")
        \/ /\ q.op \in {"cancel", "remove"}
           /\ known' = {k \in known : k.id # q.id} /\ Answer(q, "ok")
        \/ q.op = "update" /\ UNCHANGED known /\ Answer(q, "ok")
        \/ q.op # "cancel" /\ UNCHANGED known /\ Answer(q, "failed")
  /\ UNCHANGED <<conn, subs, recs, made, reader, peer, stream>>

DaemonReplies ==
  /\ peer = "up" /\ Len(stream) < MaxReplies
  /\ \E k \in {x \in known : x.op \in {"lookup", "service", "record"}} :
       stream' = Append(stream, [op |-> k.op, uid |-> k.uid, id |-> k.id])
  /\ UNCHANGED <<conn, subs, recs, made, wait, reader, peer, requests, known>>

(* The daemon ends; a call that waits reads the end of its socket.         *)
DaemonDies ==
  /\ peer = "up"
  /\ peer' = "gone" /\ requests' = <<>> /\ known' = {}
  /\ wait' = IF wait # NoWait /\ wait.answer = "none"
             THEN [wait EXCEPT !.answer = "failed"] ELSE wait
  /\ UNCHANGED <<conn, subs, recs, made, reader, stream>>

StubNext ==
  \/ CreateConnection \/ DNSServiceResolve \/ DNSServiceQueryRecord
  \/ DNSServiceGetAddrInfo \/ DNSServiceBrowse \/ DNSServiceRegister
  \/ DNSServiceEnumerateDomains \/ DNSServiceNATPortMappingCreate
  \/ RegisterRecord \/ AddRecord \/ UpdateRecord \/ RemoveRecord
  \/ RefDeallocate \/ CallReturns \/ TimeOut
  \/ ProcessResult \/ ReadFails \/ ReadReply \/ CallbackReturns
  \/ DaemonReads \/ DaemonReplies \/ DaemonDies

StubSpec == StubInit /\ [][StubNext]_stubVars

(***************************************************************************)
(* Properties.                                                             *)
(***************************************************************************)

Uids == (0..W - 1) \X (0..W - 1)

(* The references, the records, the waiting call and the reader have the     *)
(* states the stub gives them, and every record's owner is there.          *)
StubTypeOK ==
  /\ conn \in [state : {"none", "open", "deaf"}, uid : Uids, id : 0..MaxMade, max : 0..MaxMade,
               kind : {"none", "connection", "lookup", "service"}]
  /\ subs # {} => conn.kind = "connection"
  /\ \A r \in recs : r.owner \in {conn.id} \union Ids(subs)
  /\ wait.call # "none" => reader.pc # "read"
  /\ peer = "gone" => requests = <<>> /\ known = {}

(* DNSServiceProcessResult never goes on with a reference its callback     *)
(* freed, even if the client has since made another one.                   *)
LoopIsLive == reader.pc = "read" => conn.state = "open" /\ conn.id = reader.of

(* A reply is told to the operation or record it was sent for, whatever    *)
(* was cancelled and started while it was under way.                       *)
RightCallback == reader.pc = "callback" => reader.got = reader.to

(* The daemon tells a connection's records apart by their index.           *)
IndicesDistinct ==
  \A r, s \in recs : r.owner = s.owner /\ r.index = s.index => r = s

(* What a client gave up, or was told it does not have, does not stay with *)
(* the daemon: the request that cancels it is behind the one that started  *)
(* it, however late that is read.                                          *)
Held(id) == id \in {conn.id} \union Ids(subs)
Cancelled(id, from) ==
  \E i \in from..Len(requests) : requests[i].op = "cancel" /\ requests[i].id = id
GivenUpIsCancelled ==
  /\ \A k \in known : k.op \in {"lookup", "service"} /\ ~Held(k.id) => Cancelled(k.id, 1)
  /\ \A i \in 1..Len(requests) :
       requests[i].op \in {"lookup", "service"} /\ ~Held(requests[i].id)
         => Cancelled(requests[i].id, i)

(* dns_sd.h on DNSServiceRegisterRecord that returns an error: the         *)
(* callback is never invoked.                                              *)
FailedNotCalled == reader.pc = "callback" => ~reader.failed

(* Replies, references and records agree: a reply is for the callback it   *)
(* is given to, a connection outlives the loop that reads it, indices are  *)
(* distinct, and what was given up is cancelled.                           *)
StubSafe == StubTypeOK /\ LoopIsLive /\ RightCallback /\ IndicesDistinct /\ GivenUpIsCancelled

=============================================================================
