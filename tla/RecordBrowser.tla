---------------------------- MODULE RecordBrowser ----------------------------
(***************************************************************************)
(* Record browsers (browse.c) over the multicast lookup engine             *)
(* (multicast-lookup.c): a browser reports the cached records of its key,  *)
(* follows CNAMEs, and has every matching interface ask for its keys, as   *)
(* interfaces come and go.  A service browser (browse-service.c) passes    *)
(* the events on and drops the records whose name is no service.           *)
(*                                                                         *)
(* A cache is the set of records it holds: RecordCache is about the rest.  *)
(* There are no wide-area servers, nobody browses for CNAMEs themselves,   *)
(* what a CNAME stands for has no CNAME, and clients free or restart a     *)
(* browser outside of its callback.                                        *)
(***************************************************************************)
EXTENDS Integers, Sequences, SequencesExt, FiniteSetsExt

CONSTANTS
    Ifaces, Unspec,     \* the interfaces, AVAHI_IF_UNSPEC
    Keys,
    Records,         \* [name, key: what it answers, target: what a CNAME stands for]
    Browsers,
    KeyFor, IfaceFor, FlagsFor,  \* what each browser is made with
    NoServices,      \* the records browse-service.c cannot split
    MaxLookups,      \* AVAHI_LOOKUPS_PER_BROWSER_MAX
    MaxEvents        \* bound: restarts, changes of the links

NotCname == "none"
IsCname(r) == r.target # NotCname

ASSUME BrowserAssumption ==
    /\ Unspec \notin Ifaces
    /\ \A r \in Records : r.key \in Keys /\ r.target \in Keys \cup {NotCname}
    /\ \A r, c \in Records : IsCname(r) /\ IsCname(c) => r.target # c.key
    /\ KeyFor \in [Browsers -> Keys]
    /\ IfaceFor \in [Browsers -> Ifaces \cup {Unspec}]
    /\ FlagsFor \in [Browsers -> {"none", "multicast"}]
    /\ MaxLookups \in Nat \ {0} /\ MaxEvents \in Nat
    /\ IsFiniteSet(Ifaces) /\ IsFiniteSet(Browsers) /\ IsFiniteSet(Records)

VARIABLES
    up,         \* the interfaces that announce
    st,         \* of each browser: "free", "deferred", "live", "dead"
    e,          \* the engine: [cache: of each interface, look: the lookups of each
                \* browser, known: what its client was told of and not told to
                \* forget, again: told twice, used: n_used of the querier of each
                \* interface and key, aborted: an assertion failed]
    now,        \* the browsers whose client was told ALL_FOR_NOW
    events

browseVars == <<up, st, e, now, events>>

(* avahi_interface_match *)
Match(on, i) == on \in {Unspec, i}

NobodyAsks == [k \in Keys |-> 0]

BrowseInit ==
    /\ up \in SUBSET Ifaces
    /\ st = [b \in Browsers |-> "free"]
    /\ \E C \in [up -> SUBSET Records] :
          e = [cache |-> [i \in Ifaces |-> IF i \in up THEN C[i] ELSE {}],
               look |-> [b \in Browsers |-> <<>>], known |-> [b \in Browsers |-> {}],
               again |-> FALSE, used |-> [i \in Ifaces |-> NobodyAsks], aborted |-> FALSE]
    /\ now = {} /\ events = 0

(* avahi_querier_add_for_all *)
AddQueriers(t, l) ==
    [t EXCEPT !.used = [i \in Ifaces |-> IF i \in up /\ Match(l.on, i) THEN [t.used[i] EXCEPT ![l.key] = @ + 1]
                                                                       ELSE t.used[i]]]

(* avahi_querier_remove_for_all, avahi_querier_remove *)
RemoveQueriers(t, l) ==
    [t EXCEPT !.used = [i \in Ifaces |-> IF i \in up /\ Match(l.on, i) /\ t.used[i][l.key] > 0
                                         THEN [t.used[i] EXCEPT ![l.key] = @ - 1] ELSE t.used[i]]]

-----------------------------------------------------------------------------
(* Steps of browser b from the engine's state t. *)

(* b->callback, record_browser_callback of browse-service.c *)
Told(b, t, ev, r, i) ==
    IF r \in NoServices THEN t
    ELSE [t EXCEPT !.known[b] = IF ev = "NEW" THEN @ \cup {<<i, r>>} ELSE @ \ {<<i, r>>},
                   !.again = @ \/ (r.key = KeyFor[b] /\ ((ev = "NEW") <=> (<<i, r>> \in t.known[b])))]

(* lookup_find *)
Find(b, t, i, k, flags) ==
    {n \in DOMAIN t.look[b] : LET l == t.look[b][n] IN Match(l.on, i) /\ l.key = k /\ l.flags = flags}

(* Mistake: the client of a lookup is not told ALL_FOR_NOW. *)
NewLookupSilent(i, k) == [key |-> k, on |-> i, flags |-> "multicast", ref |-> 1, todo |-> TRUE, now |-> FALSE]

(* lookup_new; transport_flags_from_domain chooses multicast where the caller does not *)
NewLookup(i, k) == [key |-> k, on |-> i, flags |-> "multicast", ref |-> 1, todo |-> TRUE, now |-> TRUE]

(* lookup_handle_cname, lookup_add: lookup_start of a lookup that runs already
   fails an assertion                                                           *)
HandleCname(b, t, r, i) ==
    LET found == Find(b, t, i, r.target, FlagsFor[b]) IN
    IF found # {} THEN [t EXCEPT !.aborted = TRUE]
    ELSE IF Len(t.look[b]) >= MaxLookups THEN t
    ELSE [t EXCEPT !.look[b] = Append(@, NewLookup(i, r.target))]

(* lookup_unref *)
Unref(b, t, n) ==
    IF t.look[b][n].ref > 1 THEN [t EXCEPT !.look[b][n].ref = @ - 1]
    ELSE [RemoveQueriers(t, t.look[b][n]) EXCEPT !.look[b] = RemoveAt(@, n)]

(* lookup_drop_cname, which lookup_multicast_callback calls with no flags *)
DropCname(b, t, r, i) ==
    LET found == Find(b, t, i, r.target, "none")
    IN  IF found = {} THEN t ELSE Unref(b, t, Min(found))

(* lookup_multicast_callback for lookup n *)
Event(b, t, n, ev, r, i) ==
    CASE IsCname(r) -> IF ev = "NEW" THEN HandleCname(b, t, r, i) ELSE DropCname(b, t, r, i)
      [] ~IsCname(r) /\ ev = "NEW" -> Told(b, t, ev, r, i)
      [] OTHER -> IF t.look[b][n].key = KeyFor[b] THEN Told(b, t, ev, r, i) ELSE [t EXCEPT !.aborted = TRUE]

(* avahi_multicast_lookup_engine_scan_cache for lookup n *)
ScanCache(b, t, n) ==
    LET l == t.look[b][n]
        Scan(u, i) == FoldSet(LAMBDA r, v : Event(b, v, n, "NEW", r, i), u, {r \in u.cache[i] : r.key = l.key})
    IN  FoldSet(LAMBDA i, u : Scan(u, i), t, {i \in Ifaces : Match(l.on, i)})

(* lookup_go of the lookups that were made: a multicast lookup starts whatever it found *)
Go(b, t) ==
    LET todo == {n \in DOMAIN t.look[b] : t.look[b][n].todo} IN
    IF todo = {} THEN t
    ELSE LET n == Min(todo)
         IN  AddQueriers(ScanCache(b, [t EXCEPT !.look[b][n].todo = FALSE], n), t.look[b][n])

GoAll(b, t) == FoldFunction(LAMBDA n, u : Go(b, u), t, [n \in 1..MaxLookups |-> n])

(* browser_cancel; the lookups of CNAMEs go with the root *)
Cancel(b, t) ==
    [FoldLeft(RemoveQueriers, t, t.look[b]) EXCEPT !.look[b] = <<>>, !.known[b] = {}]

-----------------------------------------------------------------------------
(* avahi_s_record_browser_new *)
RecordBrowserNew(b) ==
    /\ st[b] = "free" /\ st' = [st EXCEPT ![b] = "deferred"]
    /\ UNCHANGED <<up, e, now, events>>

(* defer_callback; CACHE_EXHAUSTED follows what the caches hold *)
DeferCallback(b) ==
    /\ st[b] = "deferred" /\ st' = [st EXCEPT ![b] = "live"]
    /\ e' = GoAll(b, [e EXCEPT !.look[b] = <<NewLookup(IfaceFor[b], KeyFor[b])>>])
    /\ UNCHANGED <<up, now, events>>

(* all_for_now_callback of the n-th lookup *)
AllForNow(b, n) ==
    /\ n \in DOMAIN e.look[b] /\ e.look[b][n].now
    /\ e' = [e EXCEPT !.look[b][n].now = FALSE]
    /\ now' = now \cup {b}
    /\ UNCHANGED <<up, st, events>>

(* avahi_s_record_browser_restart; the client forgets what it was told *)
Restart(b) ==
    /\ st[b] \in {"deferred", "live"} /\ st' = [st EXCEPT ![b] = "deferred"]
    /\ events < MaxEvents /\ events' = events + 1
    /\ e' = Cancel(b, e)
    /\ now' = now \ {b}
    /\ UNCHANGED up

(* avahi_s_record_browser_free, avahi_s_record_browser_destroy *)
RecordBrowserFree(b) ==
    /\ st[b] \in {"deferred", "live"} /\ st' = [st EXCEPT ![b] = "dead"]
    /\ e' = Cancel(b, e)
    /\ now' = now \ {b}
    /\ UNCHANGED <<up, events>>

(* Mistake: every lookup of the key is notified, whatever its interface. *)
NotifiedAnywhere(b, t, i, r) == {n \in DOMAIN t.look[b] : t.look[b][n].key = r.key}

(* avahi_multicast_lookup_engine_notify: the lookups of the record's key, and for
   a CNAME those it may stand for, on whatever interface                           *)
Notified(b, t, i, r) ==
    {n \in DOMAIN t.look[b] : t.look[b][n].key = r.key /\ (Match(t.look[b][n].on, i) \/ IsCname(r))}

Notify(t, i, ev, r) ==
    LET One(b, u) == GoAll(b, FoldSet(LAMBDA n, v : Event(b, v, n, ev, r, i), u, Notified(b, u, i, r)))
    IN  FoldSet(One, t, Browsers)

(* avahi_cache_update of a record that is not cached *)
CacheNew(i, r) ==
    /\ i \in up /\ r \notin e.cache[i]
    /\ events < MaxEvents /\ events' = events + 1
    /\ e' = Notify([e EXCEPT !.cache[i] = @ \cup {r}], i, "NEW", r)
    /\ UNCHANGED <<up, st, now>>

(* remove_entry *)
CacheRemove(i, r) ==
    /\ r \in e.cache[i]
    /\ e' = Notify([e EXCEPT !.cache[i] = @ \ {r}], i, "REMOVE", r)
    /\ UNCHANGED <<up, st, now, events>>

(* avahi_interface_check_relevant: avahi_querier_free_all, avahi_cache_flush *)
LinkDown(i) ==
    /\ i \in up /\ up' = up \ {i}
    /\ LET Gone(r, t) == Notify([t EXCEPT !.cache[i] = @ \ {r}], i, "REMOVE", r)
       IN  e' = FoldSet(Gone, [e EXCEPT !.used[i] = NobodyAsks], e.cache[i])
    /\ UNCHANGED <<st, now, events>>

(* avahi_multicast_lookup_engine_new_interface *)
Asking(t, i, k) ==
    {x \in UNION {{b} \X DOMAIN t.look[b] : b \in Browsers} :
        LET l == t.look[x[1]][x[2]] IN ~l.todo /\ l.key = k /\ Match(l.on, i)}

LinkUp(i) ==
    /\ i \in Ifaces \ up /\ up' = up \cup {i}
    /\ events < MaxEvents /\ events' = events + 1
    /\ e' = [e EXCEPT !.used[i] = [k \in Keys |-> Cardinality(Asking(e, i, k))]]
    /\ UNCHANGED <<st, now>>

BrowseNext ==
    /\ ~e.aborted
    /\ \/ \E b \in Browsers : \/ RecordBrowserNew(b) \/ DeferCallback(b) \/ Restart(b) \/ RecordBrowserFree(b)
                              \/ \E n \in 1..MaxLookups : AllForNow(b, n)
       \/ \E i \in Ifaces : LinkDown(i) \/ LinkUp(i) \/ \E r \in Records : CacheNew(i, r) \/ CacheRemove(i, r)

(* The event loop runs the timers; a step that makes a browser live is
   DeferCallback's.                                                    *)
Deferred(b) == ~e.aborted /\ st[b] = "deferred" /\ st' = [st EXCEPT ![b] = "live"]

BrowseFairness ==
    \A b \in Browsers : /\ WF_st(Deferred(b))
                        /\ \A n \in 1..MaxLookups : WF_browseVars(~e.aborted /\ AllForNow(b, n))

BrowseSpec == BrowseInit /\ [][BrowseNext]_browseVars /\ BrowseFairness

-----------------------------------------------------------------------------
Lookups == [key : Keys, on : Ifaces \cup {Unspec}, flags : {"multicast"}, ref : {1}, todo : {FALSE}, now : BOOLEAN]

BrowseTypeOK ==
    /\ up \subseteq Ifaces /\ st \in [Browsers -> {"free", "deferred", "live", "dead"}]
    /\ \A i \in Ifaces : e.cache[i] \subseteq Records /\ e.used[i] \in [Keys -> Nat]
    /\ \A b \in Browsers : /\ e.look[b] \in Seq(Lookups) /\ Len(e.look[b]) <= MaxLookups
                           /\ e.look[b] # <<>> <=> st[b] = "live"

(* What the client of a running browser was told and not told to forget is what
   the caches of its interfaces hold for its key, whatever came and went before,
   during and after the scan of defer_callback.                                  *)
Visible(b) ==
    {x \in UNION {{i} \X e.cache[i] : i \in Ifaces} :
        Match(IfaceFor[b], x[1]) /\ x[2].key = KeyFor[b] /\ ~IsCname(x[2]) /\ x[2] \notin NoServices}

ClientSeesCache ==
    ~e.aborted => \A b \in Browsers : st[b] = "live" =>
        {x \in e.known[b] : x[2].key = KeyFor[b]} = Visible(b)

(* No client is told twice in a row that a record is there, or that it is gone:
   browseCallback of avahicore.cpp makes and frees its resolvers by it.          *)
EventsAlternate == ~e.again

(* The querier of an interface and key counts the lookups that want it, whatever
   interfaces and browsers came and went, so that it is asked for as long as
   somebody waits for it and no longer.                                          *)
QuerierCounts ==
    \A i \in up, k \in Keys : e.used[i][k] = Cardinality(Asking(e, i, k))

(* A browser's client is told that there is nothing more for now. *)
BrowserAnswered ==
    \A b \in Browsers : st[b] = "deferred" ~> b \in now \/ st[b] = "dead" \/ e.aborted

(* lookup_multicast_callback asserts that only records of the browser's own key
   go away (browse.c:302).                                                       *)
NoAbort == ~e.aborted

(* Clients and queriers agree with the caches: a client knows what they hold and
   is told of it once, and each querier counts the lookups that want it.         *)
BrowseSafe == BrowseTypeOK /\ ClientSeesCache /\ EventsAlternate /\ QuerierCounts

=============================================================================
