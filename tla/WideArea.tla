------------------------------- MODULE WideArea -------------------------------
(***************************************************************************)
(* Wide-area lookups (wide-area.c): unicast DNS queries that are repeated, *)
(* sent to another server when one does not answer, and given up, with a   *)
(* cache of what was answered.  A lookup is started, and told of, by a     *)
(* record browser (lookup_go, lookup_wide_area_callback of browse.c).      *)
(*                                                                         *)
(* Answers may be lost, late, doubled, in any order and incomplete.        *)
(* CNAMEs are RecordBrowser's subject and left out.                        *)
(***************************************************************************)
EXTENDS Integers, Sequences, FiniteSets

CONSTANTS
    Lookups, Servers,
    WideKeys, WideRecords, WideKeyOf, KeyFor,   \* a record's key, a lookup's key
    CacheMax,                       \* CACHE_ENTRIES_MAX
    MaxSends, FirstSends,           \* 6, and 3 before another server is tried
    MaxServerChanges                      \* bound: changes of the servers

ASSUME WideAssumption ==
    /\ WideKeyOf \in [WideRecords -> WideKeys] /\ KeyFor \in [Lookups -> WideKeys]
    /\ IsFiniteSet(WideRecords) /\ IsFiniteSet(Servers)
    /\ CacheMax \in Nat /\ FirstSends \in Nat \ {0} /\ MaxSends \in Nat /\ FirstSends < MaxSends
    /\ MaxServerChanges \in Nat

VARIABLES
    servers, current,   \* dns_servers, current_dns_server (from 1)
    firstServer,        \* dns_servers[0], which an empty list leaves as it was
    cached,             \* the records in the cache
    look,               \* of each lookup: [st, n: n_send, used: dns_server_used, tried, told: the
                        \* records its client heard of, end: the final events it heard of]
    serverChanges

wideVars == <<servers, current, firstServer, cached, look, serverChanges>>

Nobody == "nobody"
NoLookup == [st |-> "none", n |-> 0, used |-> Nobody, tried |-> {}, told |-> {}, end |-> <<>>]

Lists == {s \in UNION {[1..n -> Servers] : n \in 0..Cardinality(Servers)} :
            \A i, j \in DOMAIN s : s[i] = s[j] => i = j}

WideInit ==
    /\ servers \in Lists /\ current = 1
    /\ firstServer = IF servers = <<>> THEN Nobody ELSE servers[1]
    /\ cached = {} /\ serverChanges = 0
    /\ look = [l \in Lookups |-> NoLookup]

(* next_dns_server *)
NextServer(c) == IF c + 1 > Len(servers) THEN 1 ELSE c + 1

(* send_to_dns_server; with no server there, nothing is sent *)
Send(k, c) ==
    IF servers = <<>> THEN [k EXCEPT !.n = @ + 1]
    ELSE [k EXCEPT !.n = @ + 1, !.used = servers[c], !.tried = @ \cup {servers[c]}]

(* avahi_wide_area_scan_cache *)
ScanCache(l) == {r \in cached : WideKeyOf[r] = KeyFor[l]}

(* defer_callback, lookup_go and avahi_wide_area_lookup_new: no query if the cache
   knows something; a query that cannot be sent is a failure                       *)
LookupGo(l) ==
    /\ look[l].st = "none"
    /\ LET found == ScanCache(l)
           t == [NoLookup EXCEPT !.told = found]
       IN  look' = [look EXCEPT ![l] =
               IF found # {} THEN [t EXCEPT !.st = "stopped", !.end = <<"ALL_FOR_NOW">>]
               ELSE IF servers = <<>> THEN [t EXCEPT !.st = "stopped", !.end = <<"FAILURE">>]
               ELSE [Send(t, current) EXCEPT !.st = "running"]]
    /\ UNCHANGED <<servers, current, firstServer, cached, serverChanges>>

(* lookup_stop after the final event *)
Stop(k, event) == [k EXCEPT !.st = "stopped", !.end = Append(@, event)]

(* dns_servers[c], read although the list may be empty *)
ServerAt(c) == IF servers = <<>> THEN firstServer ELSE servers[c]

(* sender_timeout_callback *)
SenderTimeout(l) ==
    LET k == look[l]
        switch == k.n >= FirstSends /\ ServerAt(current) = k.used
        c == IF switch THEN NextServer(current) ELSE current
        alone == switch /\ ServerAt(c) = k.used
    IN  /\ k.st = "running"
        /\ current' = c
        /\ look' = [look EXCEPT ![l] = IF k.n >= MaxSends \/ alone THEN Stop(k, "FAILURE") ELSE Send(k, c)]
        /\ UNCHANGED <<servers, firstServer, cached, serverChanges>>

(* avahi_wide_area_lookup_free, lookup_destroy *)
LookupFree(l) ==
    /\ look[l].st \in {"running", "stopped"}
    /\ look' = [look EXCEPT ![l].st = "dead"]
    /\ UNCHANGED <<servers, current, firstServer, cached, serverChanges>>

(* add_to_cache: what does not fit is told and not kept *)
Kept(N) == {C \in SUBSET N : Cardinality(cached \cup C) <= CacheMax
                          /\ (C # N => Cardinality(cached \cup C) = CacheMax)}

(* Mistake: only what the cache has room for is told. *)
HeardIfRoom(k, l, N) ==
    IF k.st = "running" /\ Cardinality(cached \cup N) <= CacheMax
    THEN [k EXCEPT !.told = @ \cup {r \in N : WideKeyOf[r] = KeyFor[l]}] ELSE k

(* run_callbacks *)
Heard(k, l, N) == IF k.st = "running" THEN [k EXCEPT !.told = @ \cup {r \in N : WideKeyOf[r] = KeyFor[l]}] ELSE k

(* handle_packet: an answer to l's query with the records R; an error, an empty or
   a truncated answer is a failure, whatever records it has                        *)
HandlePacket(l, R, ok) ==
    LET N == R \ cached
        final == IF ok THEN "ALL_FOR_NOW" ELSE "FAILURE"
        t == [k \in Lookups |-> Heard(look[k], k, N)]
    IN  /\ look[l].n > 0 /\ look[l].st # "dead"
        /\ ok => \E r \in R : WideKeyOf[r] = KeyFor[l]
        /\ look' = IF t[l].st = "running" THEN [t EXCEPT ![l] = Stop(@, final)] ELSE t
        /\ \E C \in Kept(N) : cached' = cached \cup C
        /\ UNCHANGED <<servers, current, firstServer, serverChanges>>

(* expiry_event *)
ExpiryEvent(r) ==
    /\ r \in cached /\ cached' = cached \ {r}
    /\ UNCHANGED <<servers, current, firstServer, look, serverChanges>>

(* avahi_wide_area_set_servers *)
SetServers(s) ==
    /\ serverChanges < MaxServerChanges /\ serverChanges' = serverChanges + 1
    /\ servers' = s /\ current' = 1 /\ cached' = {}
    /\ firstServer' = IF s = <<>> THEN firstServer ELSE s[1]
    /\ look' = [l \in Lookups |-> [look[l] EXCEPT !.tried = {}]]

WideNext ==
    \/ \E l \in Lookups : \/ LookupGo(l) \/ SenderTimeout(l) \/ LookupFree(l)
                          \/ \E R \in SUBSET WideRecords, ok \in BOOLEAN : HandlePacket(l, R, ok)
    \/ \E r \in WideRecords : ExpiryEvent(r)
    \/ \E s \in Lists : SetServers(s)

(* The event loop runs the timers. *)
WideFairness == \A l \in Lookups : WF_wideVars(SenderTimeout(l))

WideSpec == WideInit /\ [][WideNext]_wideVars /\ WideFairness

-----------------------------------------------------------------------------
(* The server to be asked is one of the list (send_to_dns_server). *)
WideTypeOK ==
    /\ servers \in Lists /\ current \in 1..Len(servers) \cup {1}
    /\ firstServer \in Servers \cup {Nobody}
    /\ cached \subseteq WideRecords /\ Cardinality(cached) <= CacheMax
    /\ \A l \in Lookups : look[l].st \in {"none", "running", "stopped", "dead"} /\ look[l].n \in 0..MaxSends

(* A lookup ends once, however many answers come and however late. *)
EndsOnce == \A l \in Lookups : look[l].end \in {<<>>, <<"ALL_FOR_NOW">>, <<"FAILURE">>}

(* A client that is told ALL_FOR_NOW was told of every record of the answer, those
   that another lookup's answer had put into the cache before included.           *)
AnswersAreTold ==
    [][\A l \in Lookups, R \in SUBSET WideRecords :
          look[l].st = "running" /\ HandlePacket(l, R, TRUE) =>
              {rr \in R : WideKeyOf[rr] = KeyFor[l]} \subseteq look'[l].told]_wideVars

(* A lookup is given up only after it asked another server, if there is one, however
   often other lookups moved current_dns_server in the meantime.                     *)
OtherServerTried ==
    [][\A l \in Lookups : SenderTimeout(l) /\ look'[l].st = "stopped" /\ look[l].n >= MaxSends /\ Len(servers) > 1 /\ serverChanges = 0
          => Cardinality(look[l].tried) > 1]_wideVars

(* A lookup ends although nobody answers. *)
LookupEnds == \A l \in Lookups : look[l].st = "running" ~> look[l].st # "running"

(* What a lookup promises its client: one end, every record of the answer, and
   no giving up before another server was tried.                                 *)
WidePromises == [](WideTypeOK /\ EndsOnce) /\ AnswersAreTold /\ OtherServerTried

=============================================================================
