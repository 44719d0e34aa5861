----------------------------- MODULE EntryGroups -----------------------------
(***************************************************************************)
(* The local zone of an avahi server (entry.c): clients put records,       *)
(* services, addresses and DNS servers into entry groups, commit, update,  *)
(* reset and free the groups; what is removed is only marked dead, and     *)
(* freed by a timer; a commit waits for the hold-off since the last one.   *)
(*                                                                         *)
(* Probing is Publishing's; here a group that is registering is            *)
(* established or collides.  `peers' is what the other hosts hold of ours, *)
(* no packet being lost.                                                   *)
(***************************************************************************)
EXTENDS Integers, FiniteSets

CONSTANTS
    Groups,
    Interfaces,      \* of each group's entries: 0 for all
    Names, Data,     \* of services: the port and the TXT data are one value when it is added
    Hold, LongHold,  \* AVAHI_RR_HOLDOFF_MSEC, AVAHI_RR_HOLDOFF_MSEC_RATE_LIMIT, in ticks
    Limit,           \* AVAHI_RR_RATE_LIMIT_COUNT
    Young,           \* whole ticks after which an established group's tries are forgotten: 5 s
    MaxAdds, MaxDebt \* bounds: calls that add or update, how far commits reach ahead

ASSUME GroupsAssumption ==
    /\ Interfaces \in [Groups -> Nat]
    /\ Hold \in Nat \ {0} /\ LongHold \in Nat /\ Hold <= LongHold /\ Limit \in Nat /\ Young \in Nat
    /\ MaxAdds \in Nat /\ MaxDebt \in Nat

VARIABLES
    entries,    \* [rec: [key, data], group, uniq, multi, dead, n: tells equal ones apart]
    group,      \* [st, dead, try: n_register_try, age: ticks since register_time, timer:
                \* register_time_event, est: ticks since it was established,
                \* last: ticks since it began to register]
    cleanup,    \* cleanup_time_event
    peers,
    updated,    \* the keys whose records were updated
    adds

zoneVars == <<entries, group, cleanup, peers, updated, adds>>

NoGroup == [st |-> "none", dead |-> FALSE, try |-> 0, age |-> LongHold, timer |-> FALSE, est |-> 0, last |-> Hold]

ZoneInit ==
    /\ entries = {} /\ group = [g \in Groups |-> NoGroup]
    /\ cleanup = FALSE /\ peers = {} /\ updated = {} /\ adds = 0

Of(E, g) == {e \in E : e.group = g}
Living(E) == {e \in E : ~e.dead}
Alive(g) == group[g].st # "none" /\ ~group[g].dead

Overlap(g, h) == Interfaces[g] = 0 \/ Interfaces[h] = 0 \/ Interfaces[g] = Interfaces[h]

(* check_record_conflict *)
Conflicts(e, f) ==
    /\ e.rec.key = f.rec.key /\ e.rec # f.rec
    /\ e.uniq \/ f.uniq
    /\ ~(e.multi /\ f.multi)
    /\ Overlap(e.group, f.group)

Conflict(E, e) == \E f \in Living(E) : Conflicts(e, f)

(* An entry to be: flags UNIQUE and ALLOW_MULTIPLE. *)
Entry(g, rec, uniq, multi) == [rec |-> rec, group |-> g, uniq |-> uniq, multi |-> multi, dead |-> FALSE, n |-> 0]

Rec(kind, name, data) == [key |-> <<kind, name>>, data |-> data]

(* server_add_internal without UPDATE *)
Fits(E, e) == group[e.group].st \notin {"ESTABLISHED", "REGISTERING"} /\ ~Conflict(E, e)

Copy(E, e) ==
    [e EXCEPT !.n = CHOOSE k \in 0..Cardinality(E) : \A f \in E : f.rec = e.rec /\ f.group = e.group => f.n # k]

(* What a call has added so far, and whether all of it was. *)
Begin == [ok |-> TRUE, E |-> entries]

(* server_add_internal of one more entry, unless one before it failed *)
Add(a, e) ==
    IF a.ok /\ Fits(a.E, e) THEN [ok |-> TRUE, E |-> a.E \cup {Copy(a.E, e)}]
    ELSE [ok |-> FALSE, E |-> a.E]

(* The call ends with what it added; after a failure those that were added are freed
   again, except with UPDATE.                                                        *)
Adds(g, added, keep) ==
    /\ Alive(g) /\ adds < MaxAdds /\ adds' = adds + 1
    /\ entries' = IF added.ok \/ keep THEN added.E ELSE entries
    /\ UNCHANGED <<group, cleanup, peers, updated>>

(* server_add_service_strlst_nocopy: the flags of the call are not passed on *)
Service(g, name, data) ==
    LET type == Entry(g, Rec("ptr", "type", name), FALSE, FALSE)
        srv  == Entry(g, Rec("srv", name, data), TRUE, FALSE)
        txt  == Entry(g, Rec("txt", name, data), TRUE, FALSE)
        enum == Entry(g, Rec("ptr", "enum", "type"), FALSE, FALSE)
    IN  Add(Add(Add(Add(Begin, type), srv), txt), enum)

AddService(g, name, data, update) == Adds(g, Service(g, name, data), update)

(* avahi_server_add_address *)
Address(g, name) ==
    LET host == Entry(g, Rec("a", name, "address"), TRUE, TRUE)
        back == Entry(g, Rec("ptr", "address", name), TRUE, FALSE)
    IN  Add(Add(Begin, host), back)

AddAddress(g, name) == Adds(g, Address(g, name), FALSE)

(* avahi_server_add_dns_server_address *)
DNSServer(g) ==
    LET host == Entry(g, Rec("a", "ip-address", "address"), TRUE, TRUE)
        srv  == Entry(g, Rec("srv", "_domain", "ip-address"), FALSE, FALSE)
    IN  Add(Add(Begin, host), srv)

AddDNSServer(g) == Adds(g, DNSServer(g), FALSE)

(* avahi_server_add, avahi_server_add_ptr, avahi_server_add_service_subtype *)
AddSubtype(g, name) == Adds(g, Add(Begin, Entry(g, Rec("ptr", "subtype", name), FALSE, FALSE)), FALSE)

(* server_update_service_txt_strlst_nocopy and server_add_internal with UPDATE: no check
   for conflicts; an established group's entry is announced again                        *)
UpdateTxt(g, name, txt) ==
    /\ Alive(g) /\ adds < MaxAdds /\ adds' = adds + 1
    /\ \E e \in Living(Of(entries, g)) :
          /\ e.rec.key = <<"txt", name>> /\ e.rec.data # txt
          /\ LET f == [e EXCEPT !.rec.data = txt]
             IN  entries' = (entries \ {e}) \cup {Copy(entries \ {e}, f)}
          /\ peers' = IF group[g].st = "ESTABLISHED" THEN {r \in peers : r.key # e.rec.key} \cup {[e.rec EXCEPT !.data = txt]}
                      ELSE peers
          /\ updated' = updated \cup {e.rec.key}
    /\ UNCHANGED <<group, cleanup>>

(* avahi_entry_is_registered: a shared record is answered for while it waits *)
Registered(e) ==
    \/ group[e.group].st = "ESTABLISHED"
    \/ group[e.group].st = "REGISTERING" /\ ~group[e.group].timer /\ ~e.uniq

(* Mistake: a goodbye is sent for a record that another entry has too. *)
GoodbyesAlways(g) == {e.rec : e \in {f \in Living(Of(entries, g)) : Registered(f)}}

(* avahi_goodbye_entry for each entry of g, marked dead one after the other: the last
   living one of equal entries is said goodbye to                                     *)
Goodbyes(g) ==
    {e.rec : e \in {f \in Living(Of(entries, g)) :
        Registered(f) /\ ~\E d \in Living(entries) : d.rec = f.rec /\ d.group # g}}

Buried(g) == {IF e.group = g THEN [e EXCEPT !.dead = TRUE] ELSE e : e \in entries}

(* avahi_s_entry_group_new *)
GroupNew(g) ==
    /\ group[g].st = "none"
    /\ group' = [group EXCEPT ![g] = [NoGroup EXCEPT !.st = "UNCOMMITED"]]
    /\ UNCHANGED <<entries, cleanup, peers, updated, adds>>

(* avahi_s_entry_group_change_state *)
ChangeState(k, state) ==
    IF k.st = state THEN k
    ELSE [st |-> state, dead |-> k.dead, age |-> k.age, last |-> k.last,
          timer |-> k.timer /\ k.st # "REGISTERING",
          est |-> IF state = "ESTABLISHED" THEN 0 ELSE k.est,
          try |-> IF k.st = "ESTABLISHED" /\ k.est > Young THEN 0 ELSE k.try]

(* entry_group_commit_real *)
CommitReal(k) == ChangeState([[k EXCEPT !.age = 0] EXCEPT !.last = 0], "REGISTERING")

HoldOff(k) == IF k.try >= Limit THEN LongHold ELSE Hold

(* Mistake: register_time stays what it was when the commit has to wait. *)
GroupCommitOnce(g) ==
    /\ Alive(g) /\ group[g].st \in {"UNCOMMITED", "COLLISION"} /\ Living(Of(entries, g)) # {}
    /\ LET k == [group[g] EXCEPT !.try = IF @ < Limit THEN @ + 1 ELSE @]
       IN  group' = [group EXCEPT ![g] =
               IF k.age >= HoldOff(k) THEN CommitReal(k)
               ELSE [ChangeState(k, "REGISTERING") EXCEPT !.timer = TRUE]]
    /\ UNCHANGED <<entries, cleanup, peers, updated, adds>>

(* avahi_s_entry_group_commit *)
GroupCommit(g) ==
    /\ Alive(g) /\ group[g].st \in {"UNCOMMITED", "COLLISION"} /\ Living(Of(entries, g)) # {}
    /\ LET k == [group[g] EXCEPT !.try = IF @ < Limit THEN @ + 1 ELSE @]
           wait == [k EXCEPT !.age = @ - HoldOff(k)]
       IN  /\ wait.age >= -MaxDebt
           /\ group' = [group EXCEPT ![g] =
                  IF wait.age >= 0 THEN CommitReal(wait)
                  ELSE [ChangeState(wait, "REGISTERING") EXCEPT !.timer = TRUE]]
    /\ UNCHANGED <<entries, cleanup, peers, updated, adds>>

(* entry_group_register_time_event_callback *)
RegisterTimer(g) ==
    /\ group[g].timer /\ group[g].age >= 0
    /\ group' = [group EXCEPT ![g] = CommitReal([@ EXCEPT !.timer = FALSE])]
    /\ UNCHANGED <<entries, cleanup, peers, updated, adds>>

(* avahi_s_entry_group_reset *)
GroupReset(g) ==
    /\ Alive(g)
    /\ peers' = peers \ Goodbyes(g)
    /\ entries' = Buried(g) /\ cleanup' = TRUE
    /\ group' = [group EXCEPT ![g] = ChangeState(@, "UNCOMMITED")]
    /\ UNCHANGED <<updated, adds>>

(* avahi_s_entry_group_free *)
GroupFree(g) ==
    /\ Alive(g)
    /\ peers' = peers \ Goodbyes(g)
    /\ entries' = Buried(g) /\ cleanup' = TRUE
    /\ group' = [group EXCEPT ![g] = [[@ EXCEPT !.dead = TRUE] EXCEPT !.timer = FALSE]]
    /\ UNCHANGED <<updated, adds>>

(* cleanup_time_event_callback, avahi_cleanup_dead_entries *)
CleanupDead ==
    /\ cleanup /\ cleanup' = FALSE
    /\ group' = [g \in Groups |-> IF group[g].dead THEN NoGroup ELSE group[g]]
    /\ entries' = Living(entries)
    /\ UNCHANGED <<peers, updated, adds>>

(* The last record of g is probed for: avahi_s_entry_group_check_probed. *)
Establish(g) ==
    /\ Alive(g) /\ group[g].st = "REGISTERING" /\ ~group[g].timer
    /\ group' = [group EXCEPT ![g] = ChangeState(@, "ESTABLISHED")]
    /\ peers' = peers \cup {e.rec : e \in Living(Of(entries, g))}
    /\ UNCHANGED <<entries, cleanup, updated, adds>>

(* Another host has one of the names: withdraw_entry; our records are its own now. *)
Collide(g) ==
    /\ Alive(g) /\ group[g].st \in {"REGISTERING", "ESTABLISHED"} /\ ~group[g].timer
    /\ entries' = Buried(g) /\ cleanup' = TRUE
    /\ group' = [group EXCEPT ![g] = ChangeState(@, "COLLISION")]
    /\ UNCHANGED <<peers, updated, adds>>

Older(t, d) == IF t < d THEN t + 1 ELSE t

GroupLater(k) ==
    [[[k EXCEPT !.age = Older(@, LongHold)] EXCEPT !.est = Older(@, Young + 1)] EXCEPT !.last = Older(@, Hold)]

Tick ==
    /\ group' = [g \in Groups |-> GroupLater(group[g])]
    /\ group' # group
    /\ UNCHANGED <<entries, cleanup, peers, updated, adds>>

ZoneNext ==
    \/ \E g \in Groups :
          \/ GroupNew(g) \/ GroupCommit(g) \/ RegisterTimer(g) \/ GroupReset(g) \/ GroupFree(g)
          \/ Establish(g) \/ Collide(g) \/ AddDNSServer(g)
          \/ \E n \in Names : AddAddress(g, n) \/ AddSubtype(g, n)
          \/ \E n \in Names, d \in Data, u \in BOOLEAN : AddService(g, n, d, u)
          \/ \E n \in Names, t \in Data : UpdateTxt(g, n, t)
    \/ CleanupDead \/ Tick

ZoneFairness == WF_zoneVars(CleanupDead) /\ WF_zoneVars(Tick) /\ \A g \in Groups : WF_zoneVars(RegisterTimer(g))

ZoneSpec == ZoneInit /\ [][ZoneNext]_zoneVars /\ ZoneFairness

-----------------------------------------------------------------------------
(* A timer runs only for a group that is registering, dead entries are always going
   to be freed, and what is not dead belongs to a group that is there.              *)
ZoneTypeOK ==
    /\ \A g \in Groups : group[g].timer => group[g].st = "REGISTERING" /\ ~group[g].dead
    /\ \A e \in entries : e.dead => cleanup
    /\ \A e \in Living(entries) : Alive(e.group)

(* No two living entries contradict each other, unless one was updated, which is not
   checked.                                                                           *)
NoContradiction ==
    \A e, f \in Living(entries) : Conflicts(e, f) => e.rec.key \in updated

(* Every service that g enumerates under its type is there with its SRV and its TXT record. *)
Whole(E, g) ==
    LET mine == Living(Of(E, g))
    IN  \A e \in mine : e.rec.key = <<"ptr", "type">> =>
            {<<"srv", e.rec.data>>, <<"txt", e.rec.data>>} \subseteq {f.rec.key : f \in mine}

(* A step that no call without UPDATE takes *)
OnlyUpdates(g) == \E n \in Names, d \in Data : AddService(g, n, d, TRUE) /\ ~AddService(g, n, d, FALSE)

(* The services of a group stay whole through calls that fail at any of their records,
   updates, resets, collisions and the freeing of dead entries, also of other groups.
   Only a failed call with UPDATE may leave part of a service: it frees nothing again. *)
ServicesWhole ==
    [][\A g \in Groups : Whole(entries, g) => Whole(entries', g) \/ OnlyUpdates(g)]_zoneVars

(* The records of an established group stay with the peers whatever other groups with
   some of the same records do.                                                        *)
OthersKept ==
    \A e \in Living(entries) : group[e.group].st = "ESTABLISHED" => e.rec \in peers \/ e.rec.key \in updated

(* Its records are being probed for. *)
Probing(k) == k.st = "REGISTERING" /\ ~k.timer /\ ~k.dead

(* A group is registered at most once in a hold-off, however often it is reset and
   committed, or collides and is committed again.                                   *)
RateLimited ==
    [][\A g \in Groups : ~Probing(group[g]) /\ Probing(group'[g]) => group[g].last >= Hold]_zoneVars

(* A commit that waits leads to probing, however often the group was reset before. *)
CommitProbes ==
    \A g \in Groups : group[g].timer ~> (group[g].st # "REGISTERING" \/ group[g].dead \/ group[g].last = 0)

(* defs.h: AVAHI_PUBLISH_UPDATE is for changing the port of a service that is published. *)
UpdateModifies ==
    [][\A g \in Groups, n \in Names, d \in Data :
          /\ AddService(g, n, d, TRUE) /\ group[g].st = "ESTABLISHED"
          /\ \E e \in Living(Of(entries, g)) : e.rec.key = <<"srv", n>>
          => \E e \in Living(Of(entries', g)) : e.rec = Rec("srv", n, d)]_zoneVars

(* The zone does not contradict itself, and groups that share records do not
   withdraw each other's.                                                      *)
ZoneSafe == ZoneTypeOK /\ NoContradiction /\ OthersKept

=============================================================================
