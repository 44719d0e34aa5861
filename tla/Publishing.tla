----------------------------- MODULE Publishing -----------------------------
(***************************************************************************)
(* Publishing a service on a link shared by several hosts: QZeroConf's     *)
(* publisher (avahicore.cpp), the entry group and its announcers           *)
(* (avahi-core entry.c, announce.c), the probe scheduler (probe-sched.c),  *)
(* the part of the response scheduler that announces and answers, and the  *)
(* handling of probes and responses in server.c.                           *)
(*                                                                         *)
(* Time is counted in ticks of a quarter of a second, the interval between *)
(* two probes; whatever the code delays by less (jitter, deferred packets, *)
(* the link) happens before the next tick.                                 *)
(***************************************************************************)
EXTENDS Integers, FiniteSets

CONSTANTS
    Hosts,      \* the hosts of the link
    Links,      \* the interfaces each of them has on it
    Offer,      \* Offer[h]: the records of the service h publishes
    ProbeEnd,   \* n_iteration at which probing is done (4 in announce.c)
    AnnounceEnd,\* n_iteration at which announcing is done (4 in announce.c)
    MaxStarts,  \* bound: calls of startServicePublish, over all hosts
    MaxFlaps,   \* bound: times an interface goes away
    MaxLoss     \* bound: packets the link loses

Record == UNION {Offer[h] : h \in Hosts}

ASSUME OfferAssumption ==
    \A r \in Record : /\ r.data \in Nat
                      /\ r.unique \in BOOLEAN
ASSUME CountAssumption ==
    /\ ProbeEnd \in Nat \ {0}
    /\ AnnounceEnd \in Nat \ {0}
    /\ {MaxStarts, MaxFlaps, MaxLoss} \subseteq Nat
    /\ IsFiniteSet(Links) /\ \A h \in Hosts : IsFiniteSet(Offer[h])

VARIABLES
    ready,      \* QZeroConfPrivate::ready
    waiting,    \* QZeroConfPrivate::registerWaiting
    wanted,     \* history: the last call was startServicePublish
    group,      \* state of QZeroConfPrivate::group, "none" for NULL
    n_probing,  \* AvahiSEntryGroup::n_probing
    ann,        \* the AvahiAnnouncer of each record and interface
    up,         \* AvahiInterface::announcing
    probes,     \* scheduled probe jobs
    sched,      \* scheduled response jobs
    sent,       \* response jobs in the history, with the ticks left
    net,        \* packets on the link
    starts, flaps, lost

qzVars  == <<ready, waiting, wanted>>
grpVars == <<group, n_probing, ann>>
outVars == <<probes, sched, sent>>
bounds  == <<starts, flaps, lost>>
vars    == <<qzVars, grpVars, up, outVars, net, bounds>>

Absent == [st |-> "none", n |-> 0, due |-> 0]
Pairs(h) == Offer[h] \X Links

(* equal records of the same owner name and type: avahi_record_equal_no_ttl *)
SameKey(r, q) == r.key = q.key

(* avahi_entry_is_registered *)
IsRegistered(A, r, l) ==
    \/ A[<<r, l>>].st \in {"ANNOUNCING", "ESTABLISHED"}
    \/ A[<<r, l>>].st = "WAITING" /\ ~r.unique

(* avahi_entry_is_probing *)
IsProbing(A, r, l) ==
    \/ A[<<r, l>>].st = "PROBING"
    \/ A[<<r, l>>].st = "WAITING" /\ r.unique

(* go_to_initial_state: the state, n_iteration and timeout of an announcer
   that starts while its group is in state gst; due: it acts before the next
   tick                                                                     *)
InitialState(r, gst) ==
    [st  |-> IF r.unique THEN "PROBING"
             ELSE IF gst = "ESTABLISHED" THEN "ANNOUNCING" ELSE "WAITING",
     n   |-> 1,
     due |-> 0]

(* avahi_s_entry_group_check_probed, not immediately: every announcer that waits
   for its group starts announcing after a jitter                            *)
Released(A) ==
    [p \in DOMAIN A |-> IF A[p].st = "WAITING"
                          THEN [st |-> "ANNOUNCING", n |-> 0, due |-> 0] ELSE A[p]]

Count(A) == Cardinality({p \in DOMAIN A : A[p].st = "PROBING"})

PubInit ==
    /\ ready = [h \in Hosts |-> FALSE]
    /\ waiting = [h \in Hosts |-> FALSE]
    /\ wanted = [h \in Hosts |-> FALSE]
    /\ group = [h \in Hosts |-> "none"]
    /\ n_probing = [h \in Hosts |-> 0]
    /\ ann = [h \in Hosts |-> [p \in Pairs(h) |-> Absent]]
    /\ up = [h \in Hosts |-> [l \in Links |-> TRUE]]
    /\ probes = [h \in Hosts |-> {}]
    /\ sched = [h \in Hosts |-> {}]
    /\ sent = [h \in Hosts |-> {}]
    /\ net = {}
    /\ starts = 0 /\ flaps = 0 /\ lost = 0

-----------------------------------------------------------------------------
(* The response scheduler. *)

(* A job in the history answers for a new one of the same kind. *)
InHistory(S, r, l, bye) == \E j \in S : j.rec = r /\ j.link = l /\ j.bye = bye

Others(S, r, l) == {j \in S : ~(j.rec = r /\ j.link = l)}

(* avahi_response_scheduler_post of the records and interfaces in P at h: what is
   in the history is dropped, what is already scheduled takes the new kind.   *)
PostResponses(h, P, bye) ==
    LET new == {p \in P : up[h][p[2]] /\ ~InHistory(sent[h], p[1], p[2], bye)}
        Rest(S) == {j \in S : <<j.rec, j.link>> \notin new}
    IN  /\ sched' = [sched EXCEPT ![h] =
                        Rest(@) \cup {[rec |-> p[1], link |-> p[2], bye |-> bye] : p \in new}]
        /\ sent'  = [sent EXCEPT ![h] = Rest(@)]

(* avahi_server_prepare_matching_responses *)
Matching(h, A, r, l) == {q \in Offer[h] : SameKey(q, r) /\ IsRegistered(A, q, l)} \X {l}

(* next_state in state ANNOUNCING: a unique record sends its whole set *)
Announcement(h, A, p) == IF p[1].unique THEN Matching(h, A, p[1], p[2]) ELSE {p}

NextAnnouncing(n) ==
    [st |-> IF n + 1 >= AnnounceEnd THEN "ESTABLISHED" ELSE "ANNOUNCING", n |-> n + 1, due |-> 0]

Packet(h, l, kind, recs, bye) ==
    {[to |-> g, link |-> l, kind |-> kind, recs |-> recs, bye |-> bye] : g \in Hosts \ {h}}

(* send_response_packet *)
SendResponse(h) ==
    \E j \in sched[h] :
       /\ sched' = [sched EXCEPT ![h] = @ \ {j}]
       /\ sent'  = [sent EXCEPT ![h] =
                       Others(@, j.rec, j.link)
                       \cup {[rec |-> j.rec, link |-> j.link, bye |-> j.bye, left |-> 2]}]
       /\ net' = IF up[h][j.link]
                   THEN net \cup Packet(h, j.link, "response", {j.rec}, j.bye)
                   ELSE net
       /\ UNCHANGED <<qzVars, grpVars, up, probes, bounds>>

-----------------------------------------------------------------------------
(* The probe scheduler. *)

(* elapse_callback, packet_add_probe_query: the job that is due and others
   that fit into the packet.                                                *)
SendProbes(h) ==
    \E l \in Links, S \in SUBSET Offer[h] :
       /\ S # {}
       /\ S \X {l} \subseteq probes[h]
       /\ probes' = [probes EXCEPT ![h] = @ \ (S \X {l})]
       /\ net' = IF up[h][l] THEN net \cup Packet(h, l, "probe", S, FALSE) ELSE net
       /\ UNCHANGED <<qzVars, grpVars, up, sched, sent, bounds>>

(* avahi_interface_post_probe, avahi_probe_scheduler_post: once per record *)
PostProbe(h, r, l) ==
    probes' = IF up[h][l] THEN [probes EXCEPT ![h] = @ \cup {<<r, l>>}] ELSE probes

-----------------------------------------------------------------------------
(* Announcers. *)

(* new_announcer for every record of h and every interface in L that has none *)
NewAnnouncers(h, A, L, gst) ==
    [p \in DOMAIN A |-> IF p[2] \in L /\ A[p] = Absent THEN InitialState(p[1], gst) ELSE A[p]]

NewProbing(A, B) == Count(B) - Count(A)

(* next_state in state PROBING, before the end: one more probe *)
Probe(h, r, l) ==
    LET a == ann[h][<<r, l>>] IN
    /\ a.st = "PROBING" /\ a.due = 0 /\ a.n < ProbeEnd
    /\ PostProbe(h, r, l)
    /\ ann' = [ann EXCEPT ![h][<<r, l>>] = [st |-> "PROBING", n |-> a.n + 1, due |-> 1]]
    /\ UNCHANGED <<qzVars, group, n_probing, up, sched, sent, net, bounds>>

(* Mistake: a record that has been probed is still counted. *)
ProbedUncounted(h, r, l) ==
    /\ ann[h][<<r, l>>].st = "PROBING" /\ ann[h][<<r, l>>].due = 0 /\ ann[h][<<r, l>>].n >= ProbeEnd
    /\ ann' = [ann EXCEPT ![h][<<r, l>>] = [@ EXCEPT !.st = "WAITING"]]
    /\ UNCHANGED <<qzVars, group, n_probing, up, outVars, net, bounds>>

(* next_state in state PROBING at the end: the record waits for its group, and
   the last one of the group lets it become ESTABLISHED; a record of a group
   that is past registering announces alone. Whatever may announce does so.   *)
Probed(h, r, l) ==
    LET left == n_probing[h] - 1
        done == group[h] = "REGISTERING" /\ left = 0
        A == [ann[h] EXCEPT ![<<r, l>>] =
                [@ EXCEPT !.st = IF group[h] = "REGISTERING" THEN "WAITING" ELSE "ANNOUNCING"]]
        go == IF done THEN {p \in Pairs(h) : A[p].st = "WAITING"}
              ELSE {<<r, l>>} \ {p \in Pairs(h) : A[p].st = "WAITING"}
        B == [p \in Pairs(h) |-> IF p \in go THEN [st |-> "ANNOUNCING", n |-> 1, due |-> 0] ELSE A[p]]
    IN
    /\ ann[h][<<r, l>>].st = "PROBING" /\ ann[h][<<r, l>>].due = 0 /\ ann[h][<<r, l>>].n >= ProbeEnd
    /\ n_probing' = [n_probing EXCEPT ![h] = left]
    /\ group' = IF done THEN [group EXCEPT ![h] = "ESTABLISHED"] ELSE group
    /\ ann' = [ann EXCEPT ![h] = [p \in Pairs(h) |-> IF p \in go THEN NextAnnouncing(1) ELSE B[p]]]
    /\ PostResponses(h, UNION {Announcement(h, B, p) : p \in go}, FALSE)
    /\ UNCHANGED <<qzVars, up, probes, net, bounds>>

(* next_state in state ANNOUNCING, when its timeout elapses *)
Announce(h, r, l) ==
    /\ ann[h][<<r, l>>].st = "ANNOUNCING"
    /\ PostResponses(h, Announcement(h, ann[h], <<r, l>>), FALSE)
    /\ ann' = [ann EXCEPT ![h][<<r, l>>] = NextAnnouncing(@.n)]
    /\ UNCHANGED <<qzVars, group, n_probing, up, probes, net, bounds>>

-----------------------------------------------------------------------------
(* The publisher. *)

(* registerService: a new group with all records, added and committed *)
RegisterService(h) ==
    LET A == NewAnnouncers(h, ann[h], {l \in Links : up[h][l]}, "REGISTERING")
        n == Count(A)
    IN  /\ n_probing' = [n_probing EXCEPT ![h] = n]
        /\ group' = [group EXCEPT ![h] = IF n = 0 THEN "ESTABLISHED" ELSE "REGISTERING"]
        /\ ann' = [ann EXCEPT ![h] = IF n = 0 THEN Released(A) ELSE A]

(* serverCallback: AVAHI_SERVER_RUNNING *)
ServerRunning(h) ==
    /\ ~ready[h]
    /\ ready' = [ready EXCEPT ![h] = TRUE]
    /\ waiting' = [waiting EXCEPT ![h] = FALSE]
    /\ IF waiting[h] THEN RegisterService(h) ELSE UNCHANGED grpVars
    /\ UNCHANGED <<wanted, up, outVars, net, bounds>>

(* QZeroConf::startServicePublish *)
startServicePublish(h) ==
    /\ group[h] = "none"
    /\ starts < MaxStarts /\ starts' = starts + 1
    /\ wanted' = [wanted EXCEPT ![h] = TRUE]
    /\ IF ready[h]
         THEN RegisterService(h) /\ UNCHANGED waiting
         ELSE waiting' = [waiting EXCEPT ![h] = TRUE] /\ UNCHANGED grpVars
    /\ UNCHANGED <<ready, up, outVars, net, flaps, lost>>

NoAnnouncers(h) == [p \in Pairs(h) |-> Absent]

(* QZeroConf::stopServicePublish, avahi_s_entry_group_free: a goodbye for each
   registered record, and every announcer goes                               *)
stopServicePublish(h) ==
    /\ wanted[h]
    /\ wanted' = [wanted EXCEPT ![h] = FALSE]
    /\ group' = [group EXCEPT ![h] = "none"]
    /\ n_probing' = [n_probing EXCEPT ![h] = 0]
    /\ ann' = [ann EXCEPT ![h] = NoAnnouncers(h)]
    /\ PostResponses(h, {p \in Pairs(h) : IsRegistered(ann[h], p[1], p[2])}, TRUE)
    /\ UNCHANGED <<ready, waiting, up, probes, net, bounds>>

-----------------------------------------------------------------------------
(* The interface. *)

(* avahi_interface_check_relevant: the interface goes. Its announcers are
   removed and its schedulers cleared; n_probing is left as it is.           *)
LinkDown(h, l) ==
    /\ up[h][l]
    /\ flaps < MaxFlaps /\ flaps' = flaps + 1
    /\ up' = [up EXCEPT ![h][l] = FALSE]
    /\ ann' = [ann EXCEPT ![h] = [p \in Pairs(h) |-> IF p[2] = l THEN Absent ELSE ann[h][p]]]
    /\ probes' = [probes EXCEPT ![h] = {p \in @ : p[2] # l}]
    /\ sched' = [sched EXCEPT ![h] = {j \in @ : j.link # l}]
    /\ sent' = [sent EXCEPT ![h] = {j \in @ : j.link # l}]
    /\ UNCHANGED <<qzVars, group, n_probing, net, starts, lost>>

(* avahi_interface_check_relevant, avahi_announce_interface *)
LinkUp(h, l) ==
    /\ ~up[h][l]
    /\ up' = [up EXCEPT ![h][l] = TRUE]
    /\ IF group[h] = "none" THEN UNCHANGED <<ann, n_probing>>
       ELSE LET A == NewAnnouncers(h, ann[h], {l}, group[h])
            IN  /\ ann' = [ann EXCEPT ![h] = A]
                /\ n_probing' = [n_probing EXCEPT ![h] = @ + NewProbing(ann[h], A)]
    /\ UNCHANGED <<qzVars, group, outVars, net, bounds>>

-----------------------------------------------------------------------------
(* Incoming packets. *)

(* withdraw_rrset, withdraw_entry: the group goes to COLLISION without a
   goodbye, and groupCallback frees it                                       *)
Withdraw(h) ==
    /\ group' = [group EXCEPT ![h] = "none"]
    /\ n_probing' = [n_probing EXCEPT ![h] = 0]
    /\ ann' = [ann EXCEPT ![h] = NoAnnouncers(h)]

(* incoming_probe: a record of ours loses to q if it is being probed for and
   is the lesser, unless q is ours as well                                   *)
Loses(h, q, l) ==
    /\ q \notin Offer[h]
    /\ \E r \in Offer[h] : SameKey(r, q) /\ IsProbing(ann[h], r, l) /\ r.data < q.data

(* handle_query_packet: what is registered under a name asked for is answered
   at once; then the probed records are compared with ours                   *)
ReceiveProbe(h, m) ==
    LET l == m.link
        answers == UNION {Matching(h, ann[h], q, l) : q \in m.recs}
    IN  /\ PostResponses(h, answers, FALSE)
        /\ IF \E q \in m.recs : Loses(h, q, l) THEN Withdraw(h) ELSE UNCHANGED grpVars
        /\ UNCHANGED <<probes>>

(* Mistake: a record that is still probed for is not defended by its owner. *)
DisputedRegistered(h, q, l) ==
    {r \in Offer[h] : SameKey(r, q) /\ q \notin Offer[h] /\ IsRegistered(ann[h], r, l)}

(* handle_conflict: our records that a record q, unique or not, disputes *)
Disputed(h, q, l) ==
    {r \in Offer[h] : /\ SameKey(r, q) /\ (r.unique \/ q.unique)
                      /\ q \notin Offer[h]
                      /\ IsProbing(ann[h], r, l) \/ IsRegistered(ann[h], r, l)}

(* Mistake: the probing counter is not increased. *)
ReturnUncounted(h, r, l) ==
    /\ ann' = [ann EXCEPT ![h][<<r, l>>] = InitialState(r, group[h])]
    /\ UNCHANGED <<group, n_probing>>

(* Mistake: a registered record is kept whatever the other host says. *)
ReturnIgnored(h, r, l) == UNCHANGED grpVars

(* avahi_entry_return_to_initial_state *)
ReturnToInitial(h, r, l) ==
    LET A == [ann[h] EXCEPT ![<<r, l>>] = InitialState(r, group[h])]
    IN  /\ ann' = [ann EXCEPT ![h] = A]
        /\ n_probing' = [n_probing EXCEPT ![h] = @ + NewProbing(ann[h], A)]
        /\ UNCHANGED group

(* handle_conflict: a goodbye for a record of ours is answered with the record *)
Refresh(h, q, l) ==
    /\ PostResponses(h, Matching(h, ann[h], q, l), FALSE)
    /\ UNCHANGED grpVars

(* handle_conflict: a disputed record is withdrawn while it is being probed for
   and else probed for again                                                  *)
Contest(h, D, l) ==
    /\ IF \E r \in D : IsProbing(ann[h], r, l) THEN Withdraw(h)
       ELSE \E r \in D : ReturnToInitial(h, r, l)
    /\ UNCHANGED <<sched, sent>>

(* avahi_response_scheduler_incoming: the answer takes the place of ours *)
Accept(h, q, l, bye) ==
    LET mine == {j \in sched[h] : j.rec = q /\ j.link = l}
        same == {j \in mine : j.bye = bye}
    IN  /\ sched' = [sched EXCEPT ![h] = @ \ same]
        /\ sent' = [sent EXCEPT ![h] =
                       IF mine # {} /\ same = {} THEN @
                       ELSE Others(@, q, l) \cup {[rec |-> q, link |-> l, bye |-> bye, left |-> 2]}]
        /\ UNCHANGED grpVars

(* handle_response_packet *)
ReceiveResponse(h, m) ==
    \E q \in m.recs :
    LET l == m.link
        ours == m.bye /\ group[h] # "none" /\ q \in Offer[h]
        D == IF m.bye THEN {} ELSE Disputed(h, q, l)
    IN
    \/ ours /\ Refresh(h, q, l)
    \/ D # {} /\ Contest(h, D, l)
    \/ ~ours /\ D = {} /\ Accept(h, q, l, m.bye)

(* dispatch_packet: nothing is taken from an interface that has gone *)
Receive(h) ==
    \E m \in net :
       /\ m.to = h
       /\ net' = net \ {m}
       /\ IF ~up[h][m.link] THEN UNCHANGED <<grpVars, outVars>>
         ELSE \/ m.kind = "probe" /\ ReceiveProbe(h, m)
              \/ m.kind = "response" /\ ReceiveResponse(h, m) /\ UNCHANGED probes
       /\ UNCHANGED <<qzVars, up, bounds>>

(* The link loses a packet. *)
Lose ==
    /\ lost < MaxLoss /\ lost' = lost + 1
    /\ \E m \in net : net' = net \ {m}
    /\ UNCHANGED <<qzVars, grpVars, up, outVars, starts, flaps>>

(* A quarter of a second passes: only when all that is due sooner has happened. *)
Tick ==
    /\ net = {}
    /\ \A h \in Hosts : /\ probes[h] = {} /\ sched[h] = {}
                        /\ \A p \in Pairs(h) : ann[h][p].st = "PROBING" => ann[h][p].due = 1
    /\ \E h \in Hosts : \/ sent[h] # {}
                        \/ \E p \in Pairs(h) : ann[h][p].st = "PROBING"
    /\ ann' = [h \in Hosts |-> [p \in Pairs(h) |->
                 IF ann[h][p].st = "PROBING" THEN [ann[h][p] EXCEPT !.due = 0] ELSE ann[h][p]]]
    /\ sent' = [h \in Hosts |-> {[j EXCEPT !.left = 1] : j \in {k \in sent[h] : k.left = 2}}]
    /\ UNCHANGED <<qzVars, group, n_probing, up, probes, sched, net, bounds>>

Timers(h) ==
    \/ SendProbes(h) \/ SendResponse(h)
    \/ \E r \in Offer[h], l \in Links : Probe(h, r, l) \/ Probed(h, r, l) \/ Announce(h, r, l)

Client(h) ==
    \/ ServerRunning(h) \/ startServicePublish(h) \/ stopServicePublish(h)

PubNext ==
    \/ \E h \in Hosts : Timers(h) \/ Client(h) \/ Receive(h)
    \/ \E h \in Hosts, l \in Links : LinkDown(h, l) \/ LinkUp(h, l)
    \/ Lose \/ Tick

PubSpec == PubInit /\ [][PubNext]_vars

(* avahi's timers fire, the sockets are read and time passes. *)
PubFairness ==
    /\ WF_vars(Tick)
    /\ \A h \in Hosts : WF_vars(Timers(h)) /\ WF_vars(Receive(h)) /\ WF_vars(ServerRunning(h))

PubFairSpec == PubSpec /\ PubFairness

-----------------------------------------------------------------------------
PubTypeOK ==
    /\ ready \in [Hosts -> BOOLEAN] /\ waiting \in [Hosts -> BOOLEAN]
    /\ wanted \in [Hosts -> BOOLEAN]
    /\ group \in [Hosts -> {"none", "REGISTERING", "ESTABLISHED"}]
    /\ \A h \in Hosts : n_probing[h] \in 0..((MaxFlaps + 1) * Cardinality(Pairs(h)))
    /\ \A h \in Hosts : probes[h] \subseteq Pairs(h)

(* assert(a->entry->group->n_probing) in next_state never fails, and a group is
   not ESTABLISHED early: n_probing never falls below the number of announcers
   that probe, whatever sequence of conflicts and interfaces coming and going
   (announce.c:126).                                                           *)
ProbingCounted == \A h \in Hosts : n_probing[h] >= Count(ann[h])

(* Nothing of a service is announced until all its records have been probed for
   (avahi_s_entry_group_check_probed).                                         *)
AnnouncedTogether ==
    \A h \in Hosts : group[h] = "REGISTERING" =>
        \A p \in Pairs(h) : ann[h][p].st \notin {"ANNOUNCING", "ESTABLISHED"}

Owns(h, k, l) ==
    \E r \in Offer[h] : r.key = k /\ r.unique /\ ann[h][<<r, l>>].st \in {"ANNOUNCING", "ESTABLISHED"}

TwoOwners ==
    \E h, g \in Hosts, r \in Record, l \in Links : h # g /\ Owns(h, r.key, l) /\ Owns(g, r.key, l)

(* As long as the link loses nothing, no two hosts have registered the same
   unique name on it: the three probes outlast the history in which the owner's
   answer may be suppressed (announce.c, response-sched.c, server.c). With several
   interfaces that come late it does not hold (OneLink).                        *)
OneOwner == lost = 0 => ~TwoOwners

(* What OneOwner rests on: the three probes of announce.c; different data of
   different hosts, as a service's SRV record names its host; and one interface,
   or interfaces that stay.                                                     *)
Rivals(h, r, g, q) == h # g /\ r \in Offer[h] /\ q \in Offer[g] /\ r.unique /\ q.unique /\ SameKey(r, q)
Distinct == \A h, g \in Hosts : \A r \in Offer[h], q \in Offer[g] : Rivals(h, r, g, q) => r.data # q.data
OneLink == (\A l, m \in Links : l = m) \/ MaxFlaps = 0
ProtocolAssumption == ProbeEnd >= 4 /\ OneLink /\ Distinct

(* When a lost packet has let two hosts register one name, they find out and
   one of them gives it up (handle_conflict, incoming_probe).                   *)
ConflictsResolve == TwoOwners ~> ~TwoOwners

(* While no interface goes away, a registration ends: the service is published
   or collides (next_state, check_probed).                                     *)
RegistrationEnds ==
    \A h \in Hosts : group[h] = "REGISTERING" ~> (group[h] # "REGISTERING" \/ flaps > 0)

(* README.md:73 of QtZeroConf: "QZeroConf will emit servicePublished() if
   successful, or the error() signal if registration fails."                   *)
PublishAnswered ==
    \A h \in Hosts : group[h] = "REGISTERING" ~> group[h] # "REGISTERING"

(* README.md:75 of QtZeroConf: "Service publishing can be stopped by calling
   stopServicePublish()."                                                      *)
StopStopsPublishing == \A h \in Hosts : group[h] # "none" => wanted[h]

(* Probing: the counter agrees with the announcers, and nothing is announced of
   a service that is not probed for as a whole (announce.c).                     *)
PublishingSafe == PubTypeOK /\ ProbingCounted /\ AnnouncedTogether

=============================================================================
