----------------------------- MODULE HostRecords -----------------------------
(***************************************************************************)
(* How an avahi server registers its own host name: the server's state,    *)
(* the entry group of every address of its interfaces (iface.c), the       *)
(* commit of a group with its hold-off (entry.c), the count of groups      *)
(* that are still being registered, and what happens when the name         *)
(* collides or is changed (server.c).                                      *)
(*                                                                         *)
(* Probing itself is Publishing's; here a committed group becomes          *)
(* established or collides. The optional HINFO, browse-domain and          *)
(* workstation groups, off in QZeroConf's configuration, are left out.     *)
(***************************************************************************)
EXTENDS Integers, Sequences, SequencesExt, FiniteSets

CONSTANTS
    Addresses,      \* sequence: the addresses, in the order they are walked
    HostNames,          \* the host names a client may set
    FirstName,      \* the configured host name
    AnyTime,        \* the client may change the name while it is registered
    MaxChanges      \* bound: addresses that come or go, names set

HostAddress == ToSet(Addresses)

ASSUME NameAssumption ==
    /\ FirstName \in HostNames /\ AnyTime \in BOOLEAN /\ MaxChanges \in Nat
    /\ Addresses \in Seq(HostAddress) /\ "empty" \notin HostNames

VARIABLES
    s,          \* the server and its groups, see HostTypeOK
    changes

hostVars == <<s, changes>>

NoHostGroup == [st |-> "none", name |-> "empty", held |-> FALSE, recent |-> FALSE]

(* avahi_s_entry_group_is_empty *)
IsEmpty(g) == g.name = "empty"

(* avahi_interface_address_is_relevant and the other conditions under which an
   address is published                                                        *)
Published(t, a) == t.relevant[a] /\ t.state \in {"REGISTERING", "RUNNING"}

HostInit ==
    /\ s = [state |-> "INVALID", pending |-> 0, host |-> FirstName, failed |-> FALSE,
            relevant |-> [a \in HostAddress |-> FALSE],
            group |-> [a \in HostAddress |-> NoHostGroup]]
    /\ changes = 0

Registering(t) == {a \in HostAddress : t.group[a].st = "REGISTERING"}

-----------------------------------------------------------------------------
(* Entry groups. *)

With(t, a, g) == [t EXCEPT !.group = [@ EXCEPT ![a] = g]]
Count(t, n) == [t EXCEPT !.pending = n]
In(t, state) == [t EXCEPT !.state = state]

(* avahi_s_entry_group_commit, avahi_host_rr_entry_group_callback: a group that
   was registered a moment ago waits; the server counts it while it registers  *)
Commit(t, a) ==
    Count(With(t, a, [st |-> "REGISTERING", name |-> t.host, held |-> t.group[a].recent, recent |-> TRUE]),
          IF t.state = "REGISTERING" THEN t.pending + 1 ELSE t.pending)

(* avahi_s_entry_group_reset *)
Reset(t, a) == With(t, a, [st |-> "UNCOMMITED", name |-> "empty", held |-> FALSE, recent |-> t.group[a].recent])

(* avahi_interface_address_update_rrs: fill a group that is empty *)
Fill(t, a) == IF IsEmpty(t.group[a]) THEN Commit(t, a) ELSE t

(* avahi_interface_monitor_update_rrs, where none of the groups is counted: each is
   filled or cleared by itself                                                       *)
UpdateUncounted(t) ==
    [t EXCEPT !.group = [a \in HostAddress |->
        IF Published(t, a) THEN Fill(t, a).group[a]
        ELSE IF IsEmpty(t.group[a]) THEN t.group[a] ELSE Reset(t, a).group[a]]]

(* server_set_state(AVAHI_SERVER_RUNNING) *)
Running(t) == UpdateUncounted(In(t, "RUNNING"))

(* avahi_server_decrease_host_rr_pending, called when a group is done *)
Decrease(t) ==
    IF t.pending = 0 THEN [t EXCEPT !.failed = TRUE]
    ELSE IF t.pending = 1 THEN Running(Count(t, 0))
    ELSE Count(t, t.pending - 1)

(* avahi_interface_address_update_rrs: clear the group *)
Clear(t, a) ==
    IF IsEmpty(t.group[a]) THEN t
    ELSE Reset(IF t.group[a].st = "REGISTERING" /\ t.state = "REGISTERING"
                 THEN Decrease(t) ELSE t, a)

(* avahi_interface_address_update_rrs *)
UpdateAddress(t, a, remove) == IF Published(t, a) /\ ~remove THEN Fill(t, a) ELSE Clear(t, a)

(* avahi_interface_monitor_update_rrs: one address after the other *)
UpdateAll(t, remove) ==
    LET f[i \in 0..Len(Addresses)] ==
            IF i = 0 THEN t ELSE UpdateAddress(f[i - 1], Addresses[i], remove)
    IN  f[Len(Addresses)]

(* server_set_state *)
SetState(t, state) ==
    IF t.state = state THEN t
    ELSE IF state = "RUNNING" THEN Running(t)
    ELSE UpdateAll(In(t, state), FALSE)

-----------------------------------------------------------------------------
(* The host's records. *)

(* Mistake: the group that collided stays counted. *)
WithdrawCounted(t) == UpdateAll(t, TRUE)

(* withdraw_host_rrs *)
WithdrawHost(t) == Count(UpdateAll(t, TRUE), 0)

(* register_stuff *)
RegisterStuff(t) ==
    LET u == SetState(t, "REGISTERING")
        w == UpdateAll(Count(u, u.pending + 1), FALSE)
        v == Count(w, w.pending - 1)
    IN  IF v.pending = 0 THEN SetState(v, "RUNNING") ELSE v

(* avahi_server_new, after the interfaces have been listed *)
ServerNew ==
    /\ s.state = "INVALID"
    /\ \E R \in SUBSET HostAddress :
          s' = RegisterStuff([s EXCEPT !.relevant = [a \in HostAddress |-> a \in R]])
    /\ UNCHANGED changes

(* avahi_s_entry_group_check_probed: the group is established *)
Established(a) ==
    /\ s.group[a].st = "REGISTERING" /\ ~s.group[a].held
    /\ LET t == With(s, a, [s.group[a] EXCEPT !.st = "ESTABLISHED"])
       IN  s' = IF t.state = "REGISTERING" THEN Decrease(t) ELSE t
    /\ UNCHANGED changes

(* entry_group_register_time_event_callback: the hold-off has passed *)
HoldoffPassed(a) ==
    /\ s.group[a].held
    /\ s' = With(s, a, [[s.group[a] EXCEPT !.held = FALSE] EXCEPT !.recent = TRUE])
    /\ UNCHANGED changes

(* A second passes since the group was last registered. *)
Forget(a) ==
    /\ s.group[a].recent /\ ~s.group[a].held
    /\ s' = With(s, a, [s.group[a] EXCEPT !.recent = FALSE])
    /\ UNCHANGED changes

(* withdraw_entry: another host has the name; avahi_host_rr_entry_group_callback *)
Collision(a) ==
    /\ s.group[a].st \in {"REGISTERING", "ESTABLISHED"} /\ ~s.group[a].held
    /\ LET t == With(s, a, [[s.group[a] EXCEPT !.st = "COLLISION"] EXCEPT !.name = "empty"])
       IN  s' = IF t.state \in {"REGISTERING", "RUNNING"}
                  THEN SetState(WithdrawHost(t), "COLLISION") ELSE t
    /\ UNCHANGED changes

(* avahi_server_set_host_name *)
SetHostName(n) ==
    /\ s.state \in IF AnyTime THEN {"REGISTERING", "RUNNING", "COLLISION"} ELSE {"RUNNING", "COLLISION"}
    /\ s.host # n \/ s.state = "COLLISION"
    /\ changes < MaxChanges /\ changes' = changes + 1
    /\ s' = RegisterStuff([WithdrawHost(s) EXCEPT !.host = n])

(* avahi_interface_address_new, and the update that follows in iface-linux.c *)
AddressNew(a) ==
    /\ s.state # "INVALID" /\ ~s.relevant[a]
    /\ changes < MaxChanges /\ changes' = changes + 1
    /\ s' = UpdateAddress([s EXCEPT !.relevant = [@ EXCEPT ![a] = TRUE]], a, FALSE)

(* avahi_interface_address_free *)
AddressFree(a) ==
    /\ s.relevant[a]
    /\ changes < MaxChanges /\ changes' = changes + 1
    /\ LET t == With(UpdateAddress(s, a, TRUE), a, NoHostGroup)
       IN  s' = [t EXCEPT !.relevant = [@ EXCEPT ![a] = FALSE]]

HostNext ==
    \/ ServerNew
    \/ \E a \in HostAddress : \/ Established(a) \/ HoldoffPassed(a) \/ Forget(a) \/ Collision(a)
                          \/ AddressNew(a) \/ AddressFree(a)
    \/ \E n \in HostNames : SetHostName(n)

(* The timers of the groups fire, and probing ends. *)
HostFairness ==
    \A a \in HostAddress : WF_hostVars(HoldoffPassed(a)) /\ WF_hostVars(Established(a))

HostSpec == HostInit /\ [][~s.failed /\ HostNext]_hostVars /\ HostFairness

-----------------------------------------------------------------------------
GroupStates == [st : {"none", "UNCOMMITED", "REGISTERING", "ESTABLISHED", "COLLISION"},
           name : HostNames \cup {"empty"}, held : BOOLEAN, recent : BOOLEAN]

HostTypeOK ==
    /\ s.state \in {"INVALID", "REGISTERING", "RUNNING", "COLLISION"}
    /\ s.pending \in 0..Cardinality(HostAddress) /\ s.host \in HostNames
    /\ s.group \in [HostAddress -> GroupStates]
    /\ changes \in 0..MaxChanges

(* n_host_rr_pending counts the groups that are being registered while the server
   registers, and is zero otherwise: so the assertion of
   avahi_server_decrease_host_rr_pending (server.c:1107) holds.                  *)
PendingCounts ==
    /\ ~s.failed
    /\ s.pending = IF s.state = "REGISTERING" THEN Cardinality(Registering(s)) ELSE 0

(* Every published address record is under the server's host name, and only in a
   state in which the host publishes (withdraw_host_rrs).                        *)
RecordsUnderName ==
    \A a \in HostAddress : ~IsEmpty(s.group[a]) =>
        s.group[a].name = s.host /\ Published(s, a)

(* A hold-off runs only for a group that is REGISTERING and has records: the
   assertion of avahi_s_entry_group_commit (entry.c:1167).                       *)
HoldoffWaits ==
    \A a \in HostAddress : s.group[a].held => s.group[a].st = "REGISTERING" /\ ~IsEmpty(s.group[a])

(* Registering the host ends, in RUNNING or COLLISION. *)
HostRegistered == s.state = "REGISTERING" ~> s.state \in {"RUNNING", "COLLISION"}

(* The groups of the host's addresses, the count of those that are pending, and
   the server's state agree.                                                    *)
HostSafe == HostTypeOK /\ PendingCounts /\ RecordsUnderName /\ HoldoffWaits

=============================================================================
