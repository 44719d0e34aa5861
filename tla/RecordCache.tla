----------------------------- MODULE RecordCache -----------------------------
(***************************************************************************)
(* What an avahi interface knows of the records of one key: its cache      *)
(* (cache.c), the querier that asks for the key while somebody browses it  *)
(* (querier.c), the scheduler that sends, merges and suppresses queries    *)
(* (query-sched.c), and the part of server.c that feeds them the packets   *)
(* of other hosts.                                                         *)
(*                                                                         *)
(* Time is a sequence of bursts. Within a burst, shorter than a second,    *)
(* queries are deferred, sent and answered; Pass ends it, when nothing is  *)
(* on its way any more, and a second or more goes by. A timer of a second  *)
(* or longer fires at most once in a burst, and never in the one that set  *)
(* it. The keys of an interface share nothing but the size of the cache.   *)
(***************************************************************************)
EXTENDS Integers, FiniteSets

CONSTANTS
    Records,        \* the records of the key
    Clients,        \* lookups that may ask for the key
    Hosts,          \* other hosts that query for it
    Confs,          \* what a behaviour starts with, see conf
    MaxChanges      \* bound: records published

ASSUME CacheAssumption ==
    /\ Confs \subseteq [limit : Nat \ {0}, unique : BOOLEAN, loss : Nat, flaps : Nat, poof : Nat]
    /\ MaxChanges \in Nat
    /\ IsFiniteSet(Records) /\ IsFiniteSet(Clients)

VARIABLES
    conf,       \* n_cache_entries_max, whether the records of the key are unique, the
                \* unanswered queries after which a record is given up (3 in the code),
                \* and bounds: packets lost, times the interface goes away
    i,          \* the interface: [up, cache, querier, job]
    clients,    \* the lookups in progress
    owned,      \* the records some host on the link has
    answers,    \* the records announced or asked for that are on their way
    burst,      \* this burst's: [new: records updated, timers: fired or set of the
                \* others, asked: hosts that asked]
    tended,     \* records looked after by a querier since they were last heard of
    changes, flaps, losses

cacheVars == <<conf, i, clients, owned, answers, burst, tended, changes, flaps, losses>>

NoEntry == [st |-> "none", old |-> FALSE, poof |-> 0, by |-> "nobody"]
NoQuerier == [used |-> 0, live |-> FALSE, posted |-> FALSE]
NoJob == [st |-> "none", posted |-> 0]
NewBurst == [new |-> {}, timers |-> {}, asked |-> {}]

(* The timers in T are set, or fired, in this burst. *)
Armed(T) == [burst EXCEPT !.timers = (@ \cup T) \ burst.new]

Querier == "querier"

(* An entry in state st, out of POOF: its address and count are not read again. *)
Enter(e, st) == [st |-> st, old |-> e.old, poof |-> 0, by |-> "nobody"]

Cached(c) == {r \in Records : c[r].st # "none"}

CacheInit ==
    /\ conf \in Confs
    /\ i = [up |-> TRUE, cache |-> [r \in Records |-> NoEntry], querier |-> NoQuerier, job |-> NoJob]
    /\ clients = {} /\ owned = {} /\ answers = {} /\ burst = NewBurst /\ tended = {}
    /\ changes = 0 /\ flaps = 0 /\ losses = 0

(* The link loses a packet, or does not. *)
Lost(lost) ==
    IF lost THEN losses < conf.loss /\ losses' = losses + 1 ELSE UNCHANGED losses

-----------------------------------------------------------------------------
(* The query scheduler. *)

(* avahi_query_scheduler_post, avahi_interface_post_query: refused if the query
   was just sent, merged if it is about to be                                   *)
Accepts(j) == j.st # "history"
Post(j) == IF Accepts(j) THEN [st |-> "scheduled", posted |-> j.posted + 1] ELSE j

(* job_mark_done; the job moves to the history *)
Done(j) == [st |-> "history", posted |-> 0]

(* avahi_query_scheduler_incoming; the querier's post_id finds nothing any more *)
Incoming(t) == [[t EXCEPT !.job = Done(@)] EXCEPT !.querier.posted = FALSE]

(* known_answer_walk_callback: what the cache holds and is not half expired *)
KnownAnswers == {r \in Cached(i.cache) : ~i.cache[r].old}

(* elapse_callback of a scheduled job, packet_add_query_job: the hosts that have
   records we do not know answer, unless the query is lost                     *)
SendQuery(lost) ==
    /\ i.job.st = "scheduled"
    /\ i' = Incoming(i)
    /\ answers' = IF lost THEN answers ELSE answers \cup (owned \ KnownAnswers)
    /\ Lost(lost)
    /\ UNCHANGED <<conf, clients, owned, burst, tended, changes, flaps>>

(* elapse_callback of a job in the history, find_history_job *)
HistoryEnds ==
    /\ i.job.st = "history"
    /\ i' = [i EXCEPT !.job = NoJob]
    /\ UNCHANGED <<conf, clients, owned, answers, burst, tended, changes, flaps, losses>>

-----------------------------------------------------------------------------
(* The querier. *)

PostedBy(q, j) == IF Accepts(j) THEN [q EXCEPT !.posted = TRUE] ELSE q

(* avahi_querier_add *)
QuerierAdd(t) ==
    IF t.querier.live THEN [t EXCEPT !.querier.used = @ + 1]
    ELSE [[t EXCEPT !.querier = PostedBy([used |-> 1, live |-> TRUE, posted |-> FALSE], t.job)]
             EXCEPT !.job = Post(@)]

(* avahi_query_scheduler_withdraw_by_id *)
Withdraw(t) ==
    IF t.job.posted > 1 THEN [t EXCEPT !.job.posted = @ - 1]
    ELSE [[t EXCEPT !.job = NoJob] EXCEPT !.querier = NoQuerier]

(* avahi_querier_remove *)
QuerierRemove(t) ==
    IF t.querier.used = 0 THEN t
    ELSE LET u == [t EXCEPT !.querier.used = @ - 1]
         IN  IF u.querier.used = 0 /\ u.querier.posted THEN Withdraw(u) ELSE u

(* Mistake: the querier asks once. *)
QuerierElapseOnce ==
    /\ i.querier.live /\ Querier \notin burst.timers
    /\ i' = IF i.querier.used = 0 THEN [i EXCEPT !.querier = NoQuerier] ELSE i
    /\ burst' = Armed({Querier})
    /\ UNCHANGED <<conf, clients, owned, answers, tended, changes, flaps, losses>>

(* querier_elapse_callback *)
QuerierElapse ==
    /\ i.querier.live /\ Querier \notin burst.timers
    /\ i' = IF i.querier.used = 0 THEN [i EXCEPT !.querier = NoQuerier]
            ELSE [[i EXCEPT !.querier = PostedBy(@, i.job)] EXCEPT !.job = Post(@)]
    /\ burst' = Armed({Querier})
    /\ UNCHANGED <<conf, clients, owned, answers, tended, changes, flaps, losses>>

(* avahi_querier_add_for_all: a lookup starts *)
Watch(c) ==
    /\ c \notin clients /\ clients' = clients \cup {c}
    /\ i' = IF i.up THEN QuerierAdd(i) ELSE i
    /\ burst' = IF i.querier.live THEN burst ELSE Armed({Querier})
    /\ UNCHANGED <<conf, owned, answers, tended, changes, flaps, losses>>

(* avahi_querier_remove_for_all: a lookup ends *)
Unwatch(c) ==
    /\ c \in clients /\ clients' = clients \ {c}
    /\ i' = IF i.up THEN QuerierRemove(i) ELSE i
    /\ tended' = IF clients' = {} THEN {} ELSE tended
    /\ UNCHANGED <<conf, owned, answers, burst, changes, flaps, losses>>

-----------------------------------------------------------------------------
(* Mistake: the cache asks twice. *)
AskTwice == [VALID |-> "EXPIRY1", POOF |-> "EXPIRY1", EXPIRY1 |-> "EXPIRY2",
             EXPIRY2 |-> "EXPIRY_FINAL"]

(* The cache. *)

NextState == [VALID |-> "EXPIRY1", POOF |-> "EXPIRY1", EXPIRY1 |-> "EXPIRY2",
              EXPIRY2 |-> "EXPIRY3", EXPIRY3 |-> "EXPIRY_FINAL"]

(* avahi_querier_shall_refresh_cache, and the query it asks the cache to post:
   a querier nobody uses is freed                                              *)
Refresh(t) ==
    IF ~t.querier.live THEN t
    ELSE IF t.querier.used = 0 THEN [t EXCEPT !.querier = NoQuerier]
    ELSE [t EXCEPT !.job = Post(@)]

(* elapse_func *)
Elapse(r) ==
    LET e == i.cache[r] IN
    /\ e.st # "none" /\ r \notin burst.new \cup burst.timers
    /\ e.st \in {"VALID", "POOF"} => e.old
    /\ IF e.st \in DOMAIN NextState
         THEN /\ i' = Refresh([i EXCEPT !.cache[r] = Enter(e, NextState[e.st])])
              /\ burst' = Armed({r} \cup IF i.querier.used > 0 THEN {Querier} ELSE {})
              /\ UNCHANGED tended
         ELSE /\ i' = [i EXCEPT !.cache[r] = NoEntry]
              /\ tended' = tended \ {r}
              /\ UNCHANGED burst
    /\ UNCHANGED <<conf, clients, owned, answers, changes, flaps, losses>>

(* avahi_cache_entry_half_ttl becomes true *)
HalfTtl(r) ==
    /\ i.cache[r].st # "none" /\ ~i.cache[r].old /\ r \notin burst.new \cup burst.timers
    /\ i' = [i EXCEPT !.cache[r].old = TRUE]
    /\ burst' = Armed({r})
    /\ UNCHANGED <<conf, clients, owned, answers, tended, changes, flaps, losses>>

(* avahi_cache_update, cache_flush: the entries of the key older than a second
   expire in one second                                                        *)
Flushed(c, R) ==
    [r \in Records |-> IF r \in R THEN Enter(c[r], "REPLACE_FINAL") ELSE c[r]]

Aged == Cached(i.cache) \ burst.new

(* Mistake: a full cache takes a new record. *)
UpdateUnlimited(r) ==
    LET flush == IF conf.unique THEN Aged ELSE {}
    IN  /\ i' = [i EXCEPT !.cache = [Flushed(@, flush) EXCEPT ![r] = Enter(NoEntry, "VALID")]]
        /\ burst' = [Armed(flush) EXCEPT !.new = @ \cup {r}, !.timers = @ \ {r}]
        /\ tended' = IF i.querier.used > 0 THEN tended \cup {r} ELSE tended \ {r}

(* avahi_cache_update of a record; a full cache takes no new one *)
Update(r) ==
    LET flush == IF conf.unique THEN Aged ELSE {}
        c == Flushed(i.cache, flush)
        taken == c[r].st # "none" \/ Cardinality(Cached(c)) < conf.limit
    IN  /\ i' = [i EXCEPT !.cache = IF taken THEN [c EXCEPT ![r] = Enter(NoEntry, "VALID")] ELSE c]
        /\ burst' = LET b == Armed(flush)
                    IN  IF taken THEN [b EXCEPT !.new = @ \cup {r}, !.timers = @ \ {r}] ELSE b
        /\ tended' = IF taken /\ i.querier.used > 0 THEN tended \cup {r} ELSE tended \ {r}

(* handle_response_packet *)
ReceiveAnswer(r) ==
    /\ r \in answers /\ answers' = answers \ {r}
    /\ Update(r)
    /\ UNCHANGED <<conf, clients, owned, changes, flaps, losses>>

(* start_poof_callback: passive observation of failure *)
StartPoof(e, h, again) ==
    IF e.st = "VALID" THEN [st |-> "POOF", old |-> e.old, poof |-> 0, by |-> h]
    ELSE IF e.st = "POOF" /\ ~again
      THEN [st |-> IF e.poof + 1 > conf.poof THEN "POOF_FINAL" ELSE "POOF",
            old |-> e.old, poof |-> e.poof + 1, by |-> h]
    ELSE e

(* Mistake: a known answer saves a record from an expiry or a goodbye as well. *)
StopAny(e, h) == IF e.st # "none" THEN [Enter(e, "VALID") EXCEPT !.old = FALSE] ELSE e

(* avahi_cache_stop_poof *)
StopPoof(e, h) ==
    IF e.st \in {"POOF", "POOF_FINAL"} /\ e.by = h THEN Enter(e, "VALID") ELSE e

(* handle_query_packet: host h asks for the key and knows the records K. Only a
   question that wants a multicast answer starts POOF; only one without known
   answers suppresses our own. A host asks once a second at most.              *)
Poofed(h, K, unicast) ==
    [r \in Records |->
        LET e == i.cache[r]
            p == IF unicast THEN e ELSE StartPoof(e, h, burst.asked # {})
        IN  IF r \in K THEN StopPoof(p, h) ELSE p]

OtherQuery(h, K, unicast) ==
    LET c == Poofed(h, K, unicast) IN
    /\ i.up
    /\ i' = IF K = {} THEN Incoming([i EXCEPT !.cache = c]) ELSE [i EXCEPT !.cache = c]
    /\ h \notin burst.asked
    /\ burst' = IF unicast THEN burst
                ELSE [Armed({r \in Records : c[r].st = "POOF_FINAL" /\ i.cache[r].st = "POOF"}) EXCEPT !.asked = @ \cup {h}]
    /\ answers' = IF unicast THEN answers ELSE answers \cup (owned \ K)
    /\ Lost(unicast)
    /\ UNCHANGED <<conf, clients, owned, tended, changes, flaps>>

-----------------------------------------------------------------------------
(* The interface. *)

(* avahi_interface_check_relevant: no longer relevant *)
LinkDown ==
    /\ i.up /\ flaps < conf.flaps /\ flaps' = flaps + 1
    /\ i' = [up |-> FALSE, cache |-> [r \in Records |-> NoEntry], querier |-> NoQuerier, job |-> NoJob]
    /\ answers' = {} /\ burst' = NewBurst /\ tended' = {}
    /\ UNCHANGED <<conf, clients, owned, changes, losses>>

(* avahi_interface_check_relevant, avahi_multicast_lookup_engine_new_interface *)
LinkUp ==
    LET t == [i EXCEPT !.up = TRUE] IN
    /\ ~i.up
    /\ i' = IF clients = {} THEN t
            ELSE [QuerierAdd(t) EXCEPT !.querier.used = Cardinality(clients)]
    /\ burst' = Armed({Querier})
    /\ UNCHANGED <<conf, clients, owned, answers, tended, changes, flaps, losses>>

-----------------------------------------------------------------------------
(* The other hosts and the link. *)

(* A host announces a record; a unique key has one owner, and one record of it
   at a time.                                                                  *)
Publish(r) ==
    /\ r \notin owned /\ (conf.unique => owned = {})
    /\ Cardinality(owned) < conf.limit
    /\ changes < MaxChanges /\ changes' = changes + 1
    /\ owned' = owned \cup {r}
    /\ answers' = IF i.up THEN answers \cup {r} ELSE answers
    /\ tended' = tended \ {r}
    /\ UNCHANGED <<conf, i, clients, burst, flaps, losses>>

(* A host withdraws a record; avahi_cache_update of a goodbye, if it arrives. *)
SayGoodbye(r, lost) ==
    /\ r \in owned \ answers
    /\ owned' = owned \ {r} /\ tended' = tended \ {r}
    /\ Lost(lost)
    /\ IF lost \/ i.cache[r].st = "none" THEN UNCHANGED <<i, burst>>
       ELSE /\ i' = [i EXCEPT !.cache[r] = Enter(@, "GOODBYE_FINAL")]
            /\ burst' = Armed({r})
    /\ UNCHANGED <<conf, clients, answers, changes, flaps>>

Crash(r) ==
    /\ r \in owned /\ owned' = owned \ {r} /\ tended' = tended \ {r}
    /\ UNCHANGED <<conf, i, clients, answers, burst, changes, flaps, losses>>

LoseAnswer(r) ==
    /\ r \in answers /\ answers' = answers \ {r}
    /\ Lost(TRUE)
    /\ UNCHANGED <<conf, i, clients, owned, burst, tended, changes, flaps>>

(* A second or more goes by. *)
Pass ==
    /\ answers = {} /\ i.job.st # "scheduled" /\ burst # NewBurst
    /\ burst' = NewBurst
    /\ i' = [i EXCEPT !.job = NoJob]
    /\ UNCHANGED <<conf, clients, owned, answers, tended, changes, flaps, losses>>

CacheNext ==
    \/ HistoryEnds \/ QuerierElapse \/ LinkDown \/ LinkUp \/ Pass
    \/ \E lost \in BOOLEAN : SendQuery(lost)
    \/ \E c \in Clients : Watch(c) \/ Unwatch(c)
    \/ \E r \in Records : \/ Elapse(r) \/ HalfTtl(r) \/ ReceiveAnswer(r) \/ LoseAnswer(r)
                          \/ Publish(r) \/ Crash(r) \/ \E lost \in BOOLEAN : SayGoodbye(r, lost)
    \/ \E h \in Hosts, K \in SUBSET Records, unicast \in BOOLEAN : OtherQuery(h, K, unicast)

(* Time passes however often the rest of a burst repeats; timers fire, packets
   that are not lost arrive, hosts answer.                                     *)
CacheFairness ==
    /\ WF_cacheVars(SendQuery(FALSE)) /\ WF_cacheVars(QuerierElapse)
    /\ SF_cacheVars(Pass)
    /\ \A r \in Records : SF_cacheVars(Elapse(r)) /\ SF_cacheVars(HalfTtl(r)) /\ WF_cacheVars(ReceiveAnswer(r))

CacheSpec == CacheInit /\ [][CacheNext]_cacheVars /\ CacheFairness

-----------------------------------------------------------------------------
Entries == [st : {"none", "VALID", "POOF", "EXPIRY1", "EXPIRY2", "EXPIRY3", "EXPIRY_FINAL",
                  "POOF_FINAL", "GOODBYE_FINAL", "REPLACE_FINAL"},
            old : BOOLEAN, poof : 0..(conf.poof + 1), by : Hosts \cup {"nobody"}]

CacheTypeOK ==
    /\ i.cache \in [Records -> Entries]
    /\ i.querier \in [used : 0..Cardinality(Clients), live : BOOLEAN, posted : BOOLEAN]
    /\ i.job \in [st : {"none", "scheduled", "history"}, posted : Nat]
    /\ clients \subseteq Clients /\ owned \subseteq Records /\ tended \subseteq Records
    /\ Cardinality(Cached(i.cache)) <= conf.limit

(* A record that its host still has, and that somebody has browsed since it was
   last heard of, leaves the cache only with the interface or when four packets
   were lost or answered elsewhere: the cache asks four times (elapse_func).     *)
KeptAlive ==
    [][\A r \in owned \cap tended : i'.cache[r].st = "none" => losses >= 4 \/ ~i'.up]_cacheVars

(* A record no host has any more leaves the cache. *)
GoneIsRemoved ==
    \A r \in Records : i.cache[r].st # "none" ~> i.cache[r].st = "none" \/ r \in owned

(* A record some host has and somebody browses is in the cache in the end, lost
   announcements, a full cache or suppressed queries notwithstanding.            *)
EventuallySeen ==
    \A r \in Records :
        r \in owned /\ clients # {} /\ i.up
            ~> i.cache[r].st # "none" \/ r \notin owned \/ clients = {} \/ ~i.up
=============================================================================
