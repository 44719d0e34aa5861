----------------------------- MODULE Responding -----------------------------
(***************************************************************************)
(* How an avahi server answers queries on one interface: the responses     *)
(* that wait to be sent, the history of what was sent or heard, the known  *)
(* answers of the queriers (response-sched.c), the packets that feed them  *)
(* and the unicast answers (server.c).                                     *)
(*                                                                         *)
(* Packets between the hosts are not lost here.  Which records go into one *)
(* packet is not told apart, nor how long a response is deferred.          *)
(***************************************************************************)
EXTENDS Integers

CONSTANTS
    Zone, Shared,    \* our records; those that are not unique
    AuxOf,           \* the records that go along with a record: avahi_server_enumerate_aux_records
    Queriers,
    HistoryTicks, SuppressTicks   \* AVAHI_RESPONSE_HISTORY_MSEC, AVAHI_RESPONSE_SUPPRESS_MSEC

Nobody == "nobody"

ASSUME RespondingAssumption ==
    /\ Shared \subseteq Zone /\ AuxOf \in [Zone -> SUBSET Zone]
    /\ HistoryTicks \in Nat /\ SuppressTicks \in Nat
    /\ Nobody \notin Queriers

VARIABLES
    ours,      \* the records that are registered
    sched,     \* [job: of each record [st, bye, flush, querier], hist: [st, bye, flush, low, age],
               \* supp: of each querier and record: the age of its known answer, or -1]
    owed,      \* <<querier, record>>: asked for, not known, and not answered yet
    last       \* of each record "nothing", "live" once we sent it, "bye" once its goodbye was
               \* sent, by us or another host

respVars == <<ours, sched, owed, last>>

NoJob == [st |-> "none", bye |-> FALSE, flush |-> FALSE, querier |-> Nobody]
NoHist == [st |-> "none", bye |-> FALSE, flush |-> FALSE, low |-> FALSE, age |-> 0]

(* avahi_response_scheduler_new *)
Fresh == [job |-> [r \in Zone |-> NoJob], hist |-> [r \in Zone |-> NoHist],
          supp |-> [q \in Queriers |-> [r \in Zone |-> -1]]]

RespInit == ours = {} /\ sched = Fresh /\ owed = {} /\ last = [r \in Zone |-> "nothing"]

(* find_history_job: was this response sent or heard a moment ago? *)
InHistory(t, r, bye, flush) ==
    LET h == t.hist[r] IN h.st = "done" /\ h.bye = bye /\ ~h.low /\ (h.flush \/ ~flush)

(* find_suppressed_job: the querier knows the record *)
Suppressed(t, r, bye, q) == q # Nobody /\ ~bye /\ t.supp[q][r] # -1

(* avahi_response_scheduler_post: is the response going to be sent? *)
Posts(t, r, bye, flush, q) == ~Suppressed(t, r, bye, q) /\ ~InHistory(t, r, bye, flush)

(* avahi_response_scheduler_post: the new job, and that which waits already *)
Scheduled(j, bye, flush, q) ==
    [st |-> "scheduled", bye |-> bye, flush |-> flush \/ j.flush,
     querier |-> IF j.st = "none" \/ j.querier = q THEN q ELSE Nobody]

Unique(r) == r \notin Shared

(* avahi_response_scheduler_post of each record of A *)
Post(t, A, bye, q) ==
    LET new == {r \in A : Posts(t, r, bye, Unique(r), q)}
    IN  [job |-> [r \in Zone |-> IF r \in new THEN Scheduled(t.job[r], bye, Unique(r), q) ELSE t.job[r]],
         hist |-> [r \in Zone |-> IF r \in new THEN NoHist ELSE t.hist[r]],
         supp |-> t.supp]

(* job_mark_done *)
MarkDone(t, r) ==
    LET j == t.job[r]
    IN  [t EXCEPT !.job[r] = NoJob,
                  !.hist[r] = [st |-> "done", bye |-> j.bye, flush |-> j.flush, low |-> FALSE, age |-> 0]]

(* packet_add_response_job: what goes along is scheduled, then the record is done *)
Sent(t, r) == MarkDone(Post(t, AuxOf[r] \cap ours, FALSE, t.job[r].querier), r)

(* Nobody is owed r any more, or q is not. *)
Settled(r) == {o \in owed : o[2] # r}

(* send_response_packet, elapse_callback *)
SendResponse(r) ==
    /\ sched.job[r].st = "scheduled"
    /\ sched' = Sent(sched, r)
    /\ last' = [last EXCEPT ![r] = IF sched.job[r].bye THEN "bye" ELSE "live"]
    /\ owed' = IF sched.job[r].bye THEN owed ELSE Settled(r)
    /\ UNCHANGED ours

(* Mistake: a known answer of anybody drops the response. *)
SuppressAny(t, K, q) ==
    [job |-> [r \in Zone |-> IF r \in K /\ ~t.job[r].bye THEN NoJob ELSE t.job[r]], hist |-> t.hist,
     supp |-> [t.supp EXCEPT ![q] = [r \in Zone |-> IF r \in K THEN 0 ELSE @[r]]]]

(* avahi_response_scheduler_suppress, of each known answer *)
Suppress(t, K, q) ==
    LET dropped == {r \in K : t.job[r].st = "scheduled" /\ t.job[r].querier = q /\ ~t.job[r].bye}
    IN  [job |-> [r \in Zone |-> IF r \in dropped THEN NoJob ELSE t.job[r]],
         hist |-> t.hist,
         supp |-> [t.supp EXCEPT ![q] = [r \in Zone |-> IF r \in K THEN 0 ELSE @[r]]]]

(* avahi_server_generate_response: schedule each, or else answer by unicast *)
Generate(t, A, q) == Post(t, A, FALSE, q)

(* handle_query_packet of a query for the records A with the known answers K; a legacy
   query is answered at once, to the querier alone                                     *)
QueryPacket(q, A, K, kind) ==
    LET t == Suppress(sched, K, q)
        answers == (A \cap ours) \ K
        unsent == {r \in answers : ~Posts(t, r, FALSE, Unique(r), q)}
        direct == CASE kind = "legacy" -> answers [] kind = "unicast" -> unsent [] OTHER -> {}
        heard == {r \in unsent : Suppressed(t, r, FALSE, q) \/ InHistory(t, r, FALSE, Unique(r))}
    IN  /\ kind = "legacy" => K = {}
        /\ sched' = IF kind = "legacy" THEN sched ELSE Generate(t, answers, q)
        /\ owed' = {o \in owed : o[1] # q \/ o[2] \notin K \cup direct}
                     \cup {<<q, r>> : r \in answers \ (direct \cup heard)}
        /\ UNCHANGED <<ours, last>>

(* avahi_response_scheduler_incoming: another host sends the record; `low': with less
   than half of our TTL                                                                *)
Incoming(r, bye, flush, low) ==
    LET j == sched.job[r]
        same == (~j.flush \/ flush) /\ j.bye = bye /\ ~low
    IN  /\ sched' = IF j.st = "scheduled" THEN (IF same THEN MarkDone(sched, r) ELSE sched)
                    ELSE [sched EXCEPT !.hist[r] = [st |-> "done", bye |-> bye, flush |-> flush, low |-> low, age |-> 0]]
        /\ owed' = IF bye THEN owed ELSE Settled(r)
        /\ last' = IF bye THEN [last EXCEPT ![r] = "bye"] ELSE last
        /\ UNCHANGED ours

(* An entry is registered and announced, or said goodbye to (announce.c). *)
Announce(r) ==
    /\ r \notin ours /\ ours' = ours \cup {r}
    /\ sched' = Post(sched, {r}, FALSE, Nobody)
    /\ UNCHANGED <<owed, last>>

Goodbye(r) ==
    /\ r \in ours /\ ours' = ours \ {r}
    /\ sched' = Post(sched, {r}, TRUE, Nobody)
    /\ owed' = Settled(r) /\ UNCHANGED last

(* The interface goes: avahi_response_scheduler_force, avahi_response_scheduler_clear *)
LinkDown ==
    /\ last' = [r \in Zone |-> IF sched.job[r].st = "none" THEN last[r] ELSE IF sched.job[r].bye THEN "bye" ELSE "live"]
    /\ sched' = Fresh /\ owed' = {} /\ UNCHANGED ours

(* Time passes; what is too old is not found any more. *)
TimePasses ==
    /\ sched' = [job |-> sched.job,
           hist |-> [r \in Zone |-> IF sched.hist[r].st = "none" \/ sched.hist[r].age = HistoryTicks
                                    THEN NoHist ELSE [sched.hist[r] EXCEPT !.age = @ + 1]],
           supp |-> [q \in Queriers |-> [r \in Zone |-> IF sched.supp[q][r] \in {-1, SuppressTicks}
                                                        THEN -1 ELSE sched.supp[q][r] + 1]]]
    /\ UNCHANGED <<ours, owed, last>>

RespNext ==
    \/ \E r \in Zone : SendResponse(r) \/ Announce(r) \/ Goodbye(r)
    \/ \E r \in Zone, bye, low \in BOOLEAN : Incoming(r, bye, Unique(r), low)
    \/ \E q \in Queriers, A, K \in SUBSET Zone, kind \in {"multicast", "unicast", "legacy"} : QueryPacket(q, A, K, kind)
    \/ LinkDown \/ TimePasses

RespFairness == \A r \in Zone : WF_respVars(SendResponse(r))

RespSpec == RespInit /\ [][RespNext]_respVars /\ RespFairness

-----------------------------------------------------------------------------
(* A response that waits is not in the history as well: the records are the same. *)
RespTypeOK ==
    /\ ours \subseteq Zone /\ owed \subseteq Queriers \X Zone
    /\ \A r \in Zone : sched.job[r].st = "scheduled" => ~InHistory(sched, r, sched.job[r].bye, sched.job[r].flush)

(* Whoever asked for a record of ours, did not know it and did not hear it a moment ago,
   is going to hear it: no known answers of another querier, no response or goodbye of
   another host and no history of our own drop the response.                             *)
NobodyForgotten ==
    \A o \in owed : o[2] \in ours => sched.job[o[2]].st = "scheduled" /\ ~sched.job[o[2]].bye

(* The last we send of a record that is gone is its goodbye. *)
GoodbyeLast ==
    \A r \in Zone : r \notin ours /\ last[r] = "live"
        => sched.job[r].st = "scheduled" /\ sched.job[r].bye

(* ... and what was asked for is sent. *)
EveryoneAnswered == \A q \in Queriers, r \in Zone : <<q, r>> \in owed ~> <<q, r>> \notin owed

(* Nobody is forgotten, and nothing is said of a record after its goodbye. *)
RespSafe == RespTypeOK /\ NobodyForgotten /\ GoodbyeLast

=============================================================================
