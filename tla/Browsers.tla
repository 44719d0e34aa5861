------------------------------ MODULE Browsers ------------------------------
(***************************************************************************)
(* The browsers of avahi-core that put something of their own between a    *)
(* record browser and a client: browse-domain.c adds the domains of the    *)
(* configuration, browse-dns-server.c resolves every server it is told of, *)
(* browse-service-type.c leaves out names that are no service types.       *)
(*                                                                         *)
(* A record browser tells of a record when it comes and when it goes, and  *)
(* ALL_FOR_NOW once (RecordBrowser).  A client may free its browser        *)
(* whenever it is called.                                                  *)
(***************************************************************************)
EXTENDS Integers, Sequences, FiniteSets

CONSTANTS
    Statics,     \* config.browse_domains
    RecordNames,       \* what the record browsers may find: domains, types
    TypeNames,       \* the names that are service types
    Infos,       \* the SRV records of DNS servers
    MaxInfos     \* 10

ASSUME BrowsersAssumption ==
    Statics \in Seq(RecordNames) /\ TypeNames \subseteq RecordNames /\ MaxInfos \in Nat

VARIABLES
    dom,    \* the domain browser: [st, type, ref, defer, scheduled: defer_event,
            \* all_for_now_scheduled]
    seen,   \* what its record browser reported: [names, all]
    heard,  \* what its client heard: [static: how many, names, all: how often,
            \* late: something after it freed the browser]
    typ,    \* the service type browser: [names: reported, told]
    dns     \* the DNS server browser: [st, info: of each record its state, n_info, told]

browsersVars == <<dom, seen, heard, typ, dns>>
domVars == <<dom, seen, heard>>

BrowsersInit ==
    /\ dom = [st |-> "none", type |-> "browse", ref |-> 0, defer |-> FALSE, scheduled |-> FALSE]
    /\ seen = [names |-> {}, all |-> FALSE]
    /\ heard = [static |-> 0, names |-> {}, all |-> 0, late |-> FALSE]
    /\ typ = [names |-> {}, told |-> {}]
    /\ dns = [st |-> "none", info |-> [i \in Infos |-> "none"], n_info |-> 0, told |-> {}]

-----------------------------------------------------------------------------
(* Domains *)

(* avahi_s_domain_browser_new *)
DomainBrowserNew(type) ==
    /\ dom.st = "none"
    /\ dom' = [st |-> "live", type |-> type, ref |-> 1,
               defer |-> type = "browse" /\ Statics # <<>>, scheduled |-> FALSE]
    /\ UNCHANGED <<seen, heard, typ, dns>>

(* avahi_s_domain_browser_free *)
Freed(d) == IF d.ref > 1 THEN [d EXCEPT !.ref = @ - 1]
            ELSE [st |-> "freed", type |-> d.type, ref |-> 0, defer |-> FALSE, scheduled |-> d.scheduled]

DomainBrowserFree ==
    /\ dom.st = "live"
    /\ dom' = Freed(dom)
    /\ UNCHANGED <<seen, heard, typ, dns>>

(* record_browser_callback of browse-domain.c: the static domains are filtered out,
   ALL_FOR_NOW waits for them                                                       *)
DomainRecord(n) ==
    /\ dom.st = "live"
    /\ seen' = [seen EXCEPT !.names = IF n \in @ THEN @ \ {n} ELSE @ \cup {n}]
    /\ heard' = IF dom.type = "browse" /\ \E j \in DOMAIN Statics : Statics[j] = n THEN heard
                ELSE [heard EXCEPT !.names = IF n \in seen.names THEN @ \ {n} ELSE @ \cup {n}]
    /\ UNCHANGED <<dom, typ, dns>>

DomainAllForNow ==
    /\ dom.st = "live" /\ ~seen.all
    /\ seen' = [seen EXCEPT !.all = TRUE]
    /\ IF dom.defer
       THEN dom' = [dom EXCEPT !.scheduled = TRUE] /\ UNCHANGED heard
       ELSE heard' = [heard EXCEPT !.all = @ + 1] /\ UNCHANGED dom
    /\ UNCHANGED <<typ, dns>>

(* One call of the client: what it hears, and whether it frees the browser then. *)
Call(s, event, frees) ==
    [h |-> [static |-> IF event = "static" THEN s.h.static + 1 ELSE s.h.static,
            names |-> s.h.names,
            all |-> IF event = "all" THEN s.h.all + 1 ELSE s.h.all,
            late |-> s.h.late \/ s.ref < 2],
     ref |-> IF frees THEN s.ref - 1 ELSE s.ref]

(* Mistake: the loop goes on although the browser was freed in it. *)
ToldStaticsBlindly(k) ==
    LET told[j \in 0..Len(Statics)] ==
            IF j = 0 THEN [h |-> heard, ref |-> dom.ref + 1]
            ELSE IF told[j - 1].ref < 1 THEN told[j - 1] ELSE Call(told[j - 1], "static", j = k)
    IN  told[Len(Statics)]

(* The loop of defer_callback; the client frees the browser in the k-th call. *)
ToldStatics(k) ==
    LET told[j \in 0..Len(Statics)] ==
            IF j = 0 THEN [h |-> heard, ref |-> dom.ref + 1]
            ELSE IF told[j - 1].ref <= 1 THEN told[j - 1] ELSE Call(told[j - 1], "static", j = k)
    IN  told[Len(Statics)]

(* defer_callback; k = 0: the client keeps the browser *)
DeferCallback(k) ==
    /\ dom.st = "live" /\ dom.defer
    /\ LET t == ToldStatics(k)
           end == IF t.ref > 1 /\ dom.scheduled THEN Call(t, "all", k = Len(Statics) + 1) ELSE t
       IN  heard' = end.h /\ dom' = Freed([[dom EXCEPT !.defer = FALSE] EXCEPT !.ref = end.ref])
    /\ UNCHANGED <<seen, typ, dns>>

-----------------------------------------------------------------------------
(* Service types: record_browser_callback of browse-service-type.c *)
TypeRecord(n) ==
    /\ typ' = [names |-> IF n \in typ.names THEN typ.names \ {n} ELSE typ.names \cup {n},
               told |-> IF n \notin TypeNames THEN typ.told
                        ELSE IF n \in typ.names THEN typ.told \ {n} ELSE typ.told \cup {n}]
    /\ UNCHANGED <<domVars, dns>>

-----------------------------------------------------------------------------
(* DNS servers *)

(* avahi_s_dns_server_browser_new *)
DNSServerBrowserNew ==
    /\ dns.st = "none" /\ dns' = [dns EXCEPT !.st = "live"]
    /\ UNCHANGED <<domVars, typ>>

(* server_info_free: the resolver goes with it *)
ServerInfoFree(b, i) == [[b EXCEPT !.info[i] = "none"] EXCEPT !.n_info = @ - 1]

(* record_browser_callback of browse-dns-server.c, NEW; the resolver may not be made *)
DNSServerNew(i, made) ==
    /\ dns.st = "live" /\ dns.info[i] = "none" /\ dns.n_info < MaxInfos
    /\ dns' = [[dns EXCEPT !.info[i] = IF made THEN "resolving" ELSE "failed"] EXCEPT !.n_info = @ + 1]
    /\ UNCHANGED <<domVars, typ>>

(* ... REMOVE: told if the resolver is done, whether it found an address or not *)
ServerRemove(i) ==
    /\ dns.st = "live" /\ dns.info[i] # "none"
    /\ dns' = ServerInfoFree(IF dns.info[i] = "resolving" THEN dns ELSE [dns EXCEPT !.told = @ \ {i}], i)
    /\ UNCHANGED <<domVars, typ>>

(* host_name_resolver_callback *)
HostNameResolved(i, found) ==
    /\ dns.info[i] = "resolving"
    /\ dns' = [[dns EXCEPT !.info[i] = IF found THEN "found" ELSE "failed"]
                   EXCEPT !.told = IF found THEN @ \cup {i} ELSE @]
    /\ UNCHANGED <<domVars, typ>>

(* avahi_s_dns_server_browser_free *)
DNSServerBrowserFree ==
    /\ dns.st = "live"
    /\ dns' = [st |-> "freed", info |-> [i \in Infos |-> "none"], n_info |-> 0, told |-> dns.told]
    /\ UNCHANGED <<domVars, typ>>

-----------------------------------------------------------------------------
BrowsersNext ==
    \/ \E t \in {"browse", "register"} : DomainBrowserNew(t)
    \/ DomainBrowserFree \/ DomainAllForNow
    \/ \E n \in RecordNames : DomainRecord(n) \/ TypeRecord(n)
    \/ \E k \in 0..(Len(Statics) + 1) : DeferCallback(k)
    \/ DNSServerBrowserNew \/ DNSServerBrowserFree
    \/ \E i \in Infos, b \in BOOLEAN : DNSServerNew(i, b) \/ HostNameResolved(i, b)
    \/ \E i \in Infos : ServerRemove(i)

DeferRuns == \E k \in 0..(Len(Statics) + 1) : DeferCallback(k)

BrowsersFairness == WF_browsersVars(DeferRuns)

BrowsersSpec == BrowsersInit /\ [][BrowsersNext]_browsersVars /\ BrowsersFairness

-----------------------------------------------------------------------------
(* The count of servers is that of the list, whatever order they come, are resolved
   and go in; a browser that is there has exactly one reference between calls.      *)
BrowsersTypeOK ==
    /\ dns.n_info = Cardinality({i \in Infos : dns.info[i] # "none"}) /\ dns.n_info <= MaxInfos
    /\ dom.ref = (IF dom.st = "live" THEN 1 ELSE 0)

(* A client hears nothing from a domain browser it freed, not even when it freed it
   in one of the calls of a loop (defer_callback's reference count).               *)
FreedIsSilent == ~heard.late

(* A client that hears ALL_FOR_NOW has heard of every domain of the configuration
   and of every other one that was found, and hears it once.                       *)
AllForNowIsLast ==
    heard.all > 0 => /\ heard.all = 1
                     /\ dom.type = "browse" => heard.static = Len(Statics)

(* A server the client knows is one whose address was found and whose record is still
   there: it is told when the record goes.                                            *)
KnownServers == dns.st = "live" => dns.told = {i \in Infos : dns.info[i] = "found"}

(* ALL_FOR_NOW of the record browser reaches the client, if it keeps the browser. *)
AllForNowComes == seen.all ~> (heard.all = 1 \/ dom.st = "freed")

(* What the clients of the three browsers hear, and the counts kept for them. *)
BrowsersSafe == BrowsersTypeOK /\ FreedIsSilent /\ AllForNowIsLast /\ KnownServers

=============================================================================
