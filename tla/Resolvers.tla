------------------------------ MODULE Resolvers ------------------------------
(***************************************************************************)
(* The resolvers of avahi-core: a service to its host, port, TXT data and  *)
(* address (resolve-service.c), a host name to an address                  *)
(* (resolve-host-name.c), an address to a host name (resolve-address.c).   *)
(* Each keeps one record of each kind it needs, from record browsers it    *)
(* starts, restarts and frees, and tells its client FOUND or FAILURE.      *)
(*                                                                         *)
(* A record browser is RecordBrowser's: it reports what the cache holds    *)
(* when it starts and every change from then on; a wide-area one may fail. *)
(* A resolver is made for one interface and one protocol.                  *)
(***************************************************************************)
EXTENDS Integers, FiniteSets, FiniteSetsExt

CONSTANTS
    Hosts, First,    \* First is the host that is asked for by name or address
    Records,         \* [type, host: whom it names or belongs to]
    MaxChanges       \* bound: records that appear

Types == {"srv", "txt", "a", "aaaa", "ptr"}

ASSUME ResolverAssumption ==
    First \in Hosts /\ Records \subseteq [type : Types, host : Hosts] /\ MaxChanges \in Nat

(* Where a resolver keeps a record. *)
SlotOf == [srv |-> "srv", txt |-> "txt", a |-> "address", aaaa |-> "address", ptr |-> "ptr"]
NoRecord == [type |-> "none", host |-> First]

VARIABLES
    conf,       \* [kind: of the resolver, needs: the slots it fills, protos: the types
                \* of address it wants, retry: retry_with_multicast]
    wide,       \* its browsers are wide-area ones
    r,          \* [st, br: its browsers, host: whose addresses it wants,
                \* have: what it found, timer]
    reported,       \* the last event, with what was found
    cache, changes

resolverVars == <<conf, wide, r, reported, cache, changes>>

NoBrowsers == [t \in Types |-> "none"]
NothingYet == [s \in {"srv", "txt", "address", "ptr"} |-> NoRecord]

Confs == [kind : {"service"}, needs : {{"srv"} \cup x : x \in SUBSET {"txt", "address"}},
          protos : {{"a"}, {"a", "aaaa"}}, retry : {FALSE}]
         \cup [kind : {"host"}, needs : {{"address"}}, protos : {{"a"}, {"a", "aaaa"}}, retry : {FALSE}]
         \cup [kind : {"address"}, needs : {{"ptr"}}, protos : {{}}, retry : BOOLEAN]

(* The records a resolver may ask for. *)
Relevant(c) == {rec \in Records : SlotOf[rec.type] \in c.needs /\ (rec.type \in {"a", "aaaa"} => rec.type \in c.protos)}

ResolverInit ==
    /\ conf \in Confs
    /\ wide \in IF conf.retry THEN {TRUE} ELSE BOOLEAN
    /\ r = [st |-> "none", br |-> NoBrowsers, host |-> First, have |-> NothingYet, timer |-> FALSE]
    /\ reported = [event |-> "none", have |-> NothingYet]
    /\ cache \in {{}, Relevant(conf)} /\ changes = 0

Complete(t) == \A s \in conf.needs : t.have[s] # NoRecord

(* The browsers in T start, or start again. *)
Deferred(t, T) == [t EXCEPT !.br = [x \in Types |-> IF x \in T THEN "deferred" ELSE @[x]]]
Running(t, T) == {x \in T : t.br[x] # "none"}

(* start_timeout *)
StartTimeout(t) == [t EXCEPT !.timer = TRUE]

(* finish *)
Finish(t, event) ==
    /\ r' = [t EXCEPT !.timer = FALSE]
    /\ reported' = [event |-> event, have |-> t.have]

Quietly(t) == r' = t /\ UNCHANGED reported

-----------------------------------------------------------------------------
(* A resolver starts browsers for the types in T. *)
Start(kind, T) ==
    /\ r.st = "none" /\ conf.kind = kind
    /\ Quietly(StartTimeout(Deferred([r EXCEPT !.st = "live"], T)))
    /\ UNCHANGED <<conf, wide, cache, changes>>

(* Mistake: the resolver waits for ever. *)
HostNameResolverNewUntimed ==
    /\ r.st = "none" /\ conf.kind = "host"
    /\ Quietly(Deferred([r EXCEPT !.st = "live"], conf.protos))
    /\ UNCHANGED <<conf, wide, cache, changes>>

(* avahi_s_service_resolver_new *)
ServiceResolverNew == Start("service", conf.needs \cap {"srv", "txt"})

(* avahi_s_host_name_resolver_new *)
HostNameResolverNew == Start("host", conf.protos)

(* avahi_s_address_resolver_new *)
AddressResolverNew == Start("address", {"ptr"})

(* avahi_s_service_resolver_free and the others *)
ResolverFree ==
    /\ r.st = "live"
    /\ Quietly([r EXCEPT !.st = "freed", !.br = NoBrowsers, !.have = NothingYet, !.timer = FALSE])
    /\ UNCHANGED <<conf, wide, cache, changes>>

(* time_event_callback *)
Timeout ==
    /\ r.timer
    /\ Finish(r, "FAILURE")
    /\ UNCHANGED <<conf, wide, cache, changes>>

(* record_browser_callback, AVAHI_BROWSER_NEW of an SRV record: address browsers for
   its host                                                                          *)
FollowHost(t, rec) ==
    Deferred([t EXCEPT !.host = rec.host, !.br["a"] = "none", !.br["aaaa"] = "none"],
             IF "address" \in conf.needs THEN conf.protos ELSE {})

(* Mistake: the client is told once. *)
ServiceBrowserNewOnce(t, rec) ==
    LET s == SlotOf[rec.type]
        u == [t EXCEPT !.have[s] = rec]
        v == IF rec.type = "srv" THEN FollowHost(u, rec) ELSE u
    IN  IF t.have[s] # NoRecord THEN Quietly(t)
        ELSE IF Complete(v) /\ reported.event # "FOUND" THEN Finish(v, "FOUND") ELSE Quietly(v)

(* record_browser_callback of resolve-service.c, AVAHI_BROWSER_NEW *)
ServiceBrowserNew(t, rec) ==
    LET s == SlotOf[rec.type]
        u == [t EXCEPT !.have[s] = rec]
        v == IF rec.type = "srv" THEN FollowHost(u, rec) ELSE u
    IN  IF t.have[s] # NoRecord THEN Quietly(t)
        ELSE IF Complete(v) THEN Finish(v, "FOUND") ELSE Quietly(v)

(* record_browser_callback of resolve-service.c, AVAHI_BROWSER_REMOVE: look for a
   replacement                                                                     *)
ServiceBrowserRemove(t, rec) ==
    LET s == SlotOf[rec.type]
        u == [t EXCEPT !.have[s] = NoRecord]
    IN  IF t.have[s] # rec THEN Quietly(t)
        ELSE Quietly(StartTimeout(
                 CASE rec.type = "srv" -> Deferred([u EXCEPT !.br["a"] = "none", !.br["aaaa"] = "none"], {"srv"})
                   [] s = "address" -> Deferred(u, Running(u, {"a", "aaaa"}))
                   [] OTHER -> Deferred(u, {rec.type})))

(* record_browser_callback of resolve-host-name.c *)
HostBrowserNew(t, rec) ==
    IF t.have["address"] # NoRecord THEN Quietly(t)
    ELSE Finish([t EXCEPT !.have["address"] = rec], "FOUND")

HostBrowserRemove(t, rec) ==
    IF t.have["address"] # rec THEN Quietly(t)
    ELSE Quietly(StartTimeout(Deferred([t EXCEPT !.have["address"] = NoRecord], Running(t, {"a", "aaaa"}))))

(* record_browser_callback of resolve-address.c *)
AddressBrowserNew(t, rec) ==
    IF t.have["ptr"] # NoRecord THEN Quietly(t)
    ELSE Finish([t EXCEPT !.have["ptr"] = rec], "FOUND")

AddressBrowserRemove(t, rec) ==
    IF t.have["ptr"] # rec THEN Quietly(t)
    ELSE Quietly(StartTimeout(Deferred([t EXCEPT !.have["ptr"] = NoRecord], {"ptr"})))

PartNew(t, rec) ==
    CASE conf.kind = "service" -> ServiceBrowserNew(t, rec)
      [] conf.kind = "host"    -> HostBrowserNew(t, rec)
      [] conf.kind = "address" -> AddressBrowserNew(t, rec)

PartRemove(t, rec) ==
    CASE conf.kind = "service" -> ServiceBrowserRemove(t, rec)
      [] conf.kind = "host"    -> HostBrowserRemove(t, rec)
      [] conf.kind = "address" -> AddressBrowserRemove(t, rec)

(* A wide-area lookup for type x fails, instead of an answer. *)
Fails(kind, x) == conf.kind = kind /\ wide /\ r.br[x] = "live" /\ r.have[SlotOf[x]].type # x

(* record_browser_callback of resolve-service.c, AVAHI_BROWSER_FAILURE: the other
   address browser goes on                                                         *)
ServiceBrowserFailure(x) ==
    /\ Fails("service", x)
    /\ IF x \in {"a", "aaaa"} /\ Running(r, {"a", "aaaa"} \ {x}) # {}
         THEN Quietly([r EXCEPT !.br[x] = "none"])
         ELSE Finish([r EXCEPT !.br = NoBrowsers], "FAILURE")
    /\ UNCHANGED <<conf, wide, cache, changes>>

(* the same of resolve-host-name.c: both browsers stop *)
HostBrowserFailure(x) ==
    /\ Fails("host", x)
    /\ Finish([r EXCEPT !.br = NoBrowsers], "FAILURE")
    /\ UNCHANGED <<conf, wide, cache, changes>>

(* the same of resolve-address.c: multicast is tried *)
AddressBrowserFailure(x) ==
    /\ Fails("address", x)
    /\ IF conf.retry
         THEN /\ Quietly(StartTimeout([r EXCEPT !.br[x] = "deferred"]))
              /\ wide' = FALSE /\ conf' = [conf EXCEPT !.retry = FALSE]
         ELSE Finish([r EXCEPT !.br[x] = "failed"], "FAILURE") /\ UNCHANGED <<wide, conf>>
    /\ UNCHANGED <<cache, changes>>

-----------------------------------------------------------------------------
(* The record browsers. *)

(* The records a browser for type x reports. *)
Answers(x, C) ==
    {rec \in C : rec.type = x /\ (x \in {"a", "aaaa", "ptr"} => rec.host = r.host)}

(* defer_callback: the cached records, in any order; the first one counts *)
Scan(x) ==
    /\ r.br[x] = "deferred"
    /\ LET t == [r EXCEPT !.br[x] = "live"]
       IN  IF Answers(x, cache) = {} THEN Quietly(t)
           ELSE \E rec \in Answers(x, cache) : PartNew(t, rec)
    /\ UNCHANGED <<conf, wide, cache, changes>>

Reported(rec) == r.br[rec.type] = "live" /\ rec \in Answers(rec.type, {rec})

(* A record appears. *)
Appear(rec) ==
    /\ rec \notin cache /\ cache' = cache \cup {rec}
    /\ changes < MaxChanges /\ changes' = changes + 1
    /\ IF Reported(rec) THEN PartNew(r, rec) ELSE UNCHANGED <<r, reported>>
    /\ UNCHANGED <<conf, wide>>

(* A record goes away; wide-area browsers do not tell (AVAHI_BROWSER_REMOVE is not
   defined for them).                                                              *)
Disappear(rec) ==
    /\ rec \in cache /\ cache' = cache \ {rec}
    /\ IF Reported(rec) /\ ~wide THEN PartRemove(r, rec) ELSE UNCHANGED <<r, reported>>
    /\ UNCHANGED <<conf, wide, changes>>

ResolverNext ==
    \/ ServiceResolverNew \/ HostNameResolverNew \/ AddressResolverNew \/ ResolverFree \/ Timeout
    \/ \E x \in Types : ServiceBrowserFailure(x) \/ HostBrowserFailure(x) \/ AddressBrowserFailure(x) \/ Scan(x)
    \/ \E rec \in Relevant(conf) : Appear(rec) \/ Disappear(rec)

(* The event loop runs the timers. *)
ResolverFairness == WF_resolverVars(Timeout) /\ \A x \in Types : WF_resolverVars(Scan(x))

ResolverSpec == ResolverInit /\ [][ResolverNext]_resolverVars /\ ResolverFairness

-----------------------------------------------------------------------------
ResolverTypeOK ==
    /\ r.br \in [Types -> {"none", "deferred", "live", "failed"}]
    /\ \A s \in DOMAIN NothingYet : r.have[s] = NoRecord \/ (s \in conf.needs /\ r.have[s] \in Records /\ SlotOf[r.have[s].type] = s)
    /\ r.timer => r.st = "live"
    /\ reported.event \in {"none", "FOUND", "FAILURE"}

(* A resolver that lacks a record says so, or will: its client never waits for
   a resolver that has given up.                                                *)
NeverSilent ==
    r.st = "live" /\ ~Complete(r) => r.timer \/ reported.event = "FAILURE"

(* lookup.h:206: FOUND "when the service was resolved successfully, and everytime
   it changes": a complete resolver has told its client what it holds.           *)
FoundIsTold ==
    r.st = "live" /\ Complete(r) => reported.have = r.have /\ reported.event # "none"

(* What a resolver holds by multicast is in the cache, and a browser tells it when
   that goes, except for an address: see AddressOfHost.                           *)
HeldIsCached ==
    ~wide => \A s \in {"srv", "txt", "ptr"} :
        r.have[s] # NoRecord => r.have[s] \in cache /\ r.br[r.have[s].type] = "live"

(* lookup.h:206: the address told is one of the host told with it. *)
AddressOfHost ==
    reported.event = "FOUND" /\ conf.needs = {"srv", "txt", "address"} =>
        reported.have["address"].host = reported.have["srv"].host

(* A resolver answers. *)
ResolverAnswers == r.st = "live" ~> reported.event # "none" \/ r.st = "freed"

(* A resolver's records, its timer, what it has told and what is cached agree. *)
ResolverSafe == ResolverTypeOK /\ NeverSilent /\ FoundIsTold /\ HeldIsCached

=============================================================================
