----------------------------- MODULE Interfaces -----------------------------
(***************************************************************************)
(* How the Avahi server follows the kernel's interfaces and addresses,     *)
(* avahi-core/iface-linux.c, netlink.c and iface.c: it asks for a dump of  *)
(* the links, then of the addresses, while changes are reported on the     *)
(* same socket, and decides on which interface it joins the multicast      *)
(* group, announces, and which addresses it publishes.                     *)
(*                                                                         *)
(* One protocol; a server that is running and publishes addresses.  What   *)
(* an interface's queriers, announcers and cache do when it comes and goes *)
(* is in Publishing, RecordBrowser and RecordCache.                        *)
(***************************************************************************)
EXTENDS Naturals, Sequences, FiniteSets, SequencesExt

CONSTANTS Wires,       \* the kernel's links
          Addrs,       \* addresses a link may have
          GlobalAddrs, \* those of global scope
          MaxQueue,    \* bound: netlink messages waiting
          MaxChurn     \* bound: changes the kernel makes

ASSUME WireAssumption ==
  GlobalAddrs \subseteq Addrs /\ IsFiniteSet(Addrs) /\ IsFiniteSet(Wires) /\ {MaxQueue, MaxChurn} \subseteq Nat

VARIABLES kernel,  \* the links and addresses there are
          churn,   \* changes made so far
          dump,    \* links the dump under way has still to report
          queue,   \* messages on the netlink socket
          listing,    \* which dump: "iface", "addr", "done" (list_complete)
          ifs,     \* the server's AvahiInterface of each link
          refused  \* the kernel has refused to let it join

wireVars == <<kernel, churn, dump, queue, listing, ifs, refused>>
kernelVars == <<kernel, churn, dump>>

Scopes == {"none", "fresh", "deprecated"}
NoLink == [there |-> FALSE, up |-> FALSE, has |-> [a \in Addrs |-> "none"]]
NoIf == [there |-> FALSE, ok |-> FALSE, addrs |-> <<>>, pub |-> {},
         joined |-> FALSE, local |-> "none", announcing |-> FALSE]

IfInit ==
  /\ kernel \in [Wires -> {NoLink} \union {[there |-> TRUE, up |-> TRUE,
                   has |-> [a \in Addrs |-> IF a \in on THEN "fresh" ELSE "none"]] :
                   on \in SUBSET Addrs}]
  /\ churn = 0 /\ dump = Wires /\ queue = <<>> /\ listing = "iface"
  /\ ifs = [w \in Wires |-> NoIf] /\ refused = FALSE

LinkMsg(w) == [type |-> IF kernel'[w].there THEN "newlink" ELSE "dellink",
               wire |-> w, up |-> kernel'[w].up]
AddrMsg(w, a, d) == [type |-> IF d = "none" THEN "deladdr" ELSE "newaddr",
                     wire |-> w, addr |-> a, dep |-> d = "deprecated"]
Done == [type |-> "done"]

(***************************************************************************)
(* The kernel.  A change is reported when it is made; a dump is written as *)
(* the socket is read, so its parts and the changes are in order.          *)
(***************************************************************************)

Room == Len(queue) < MaxQueue
Change == Room /\ churn < MaxChurn /\ churn' = churn + 1 /\ UNCHANGED <<dump, listing, ifs, refused>>

ChangeLink(w) ==
  /\ Change
  /\ \E there, up \in BOOLEAN :
       /\ (up => there) /\ <<there, up>> # <<kernel[w].there, kernel[w].up>>
       /\ ~there => \A a \in Addrs : kernel[w].has[a] = "none"
       /\ kernel' = [kernel EXCEPT ![w].there = there, ![w].up = up]
  /\ queue' = Append(queue, LinkMsg(w))

ChangeAddress(w, a) ==
  /\ Change /\ kernel[w].there
  /\ \E d \in Scopes \ {kernel[w].has[a]} :
       /\ kernel' = [kernel EXCEPT ![w].has[a] = d]
       /\ queue' = Append(queue, AddrMsg(w, a, d))

DumpNext ==
  /\ Room /\ listing # "done" /\ dump # {}
  /\ LET w == CHOOSE x \in dump : TRUE
         held == SetToSeq({a \in Addrs : kernel[w].has[a] # "none"})
     IN /\ dump' = dump \ {w}
        /\ queue' = queue
             \o (IF listing = "addr" THEN [i \in 1..Len(held) |-> AddrMsg(w, held[i], kernel[w].has[held[i]])]
                 ELSE IF kernel[w].there
                   THEN <<[type |-> "newlink", wire |-> w, up |-> kernel[w].up]>> ELSE <<>>)
             \o (IF dump = {w} THEN <<Done>> ELSE <<>>)
  /\ UNCHANGED <<kernel, churn, listing, ifs, refused>>

(***************************************************************************)
(* The server.  Operators on one AvahiInterface give the set of what it    *)
(* may become: setsockopt may refuse a membership.                         *)
(***************************************************************************)

AddrNames(h) == {h.addrs[i].addr : i \in 1..Len(h.addrs)}
Prime(x) == x.addr \in GlobalAddrs /\ ~x.dep

(* avahi_interface_address_is_relevant *)
AddressRelevant(h, x) ==
  Prime(x) \/ \A y \in ToSet(h.addrs) : y.addr # x.addr => ~Prime(y)

Relevant(h) == h.ok /\ \E x \in ToSet(h.addrs) : AddressRelevant(h, x)

(* interface_mdns_mcast_join: the first global address, else the first.    *)
Join(h) ==
  LET global == {i \in 1..Len(h.addrs) : h.addrs[i].addr \in GlobalAddrs}
      a == h.addrs[IF global = {} THEN 1 ELSE CHOOSE i \in global : \A j \in global : i <= j].addr
  IN IF h.joined \/ h.addrs = <<>> THEN {h}
     ELSE {[h EXCEPT !.joined = j, !.local = a] : j \in BOOLEAN}

Leave(h) == [h EXCEPT !.joined = FALSE]

(* interface_mdns_mcast_rejoin: leave and join again when the address is   *)
(* gone, or was not global and a global one has come.                      *)
Rejoin(h) ==
  IF ~h.joined \/ /\ h.local \in AddrNames(h)
                  /\ h.local \in GlobalAddrs \/ AddrNames(h) \intersect GlobalAddrs = {}
    THEN {h} ELSE Join(Leave(h))

CheckRelevant(h, complete) ==
  IF complete /\ Relevant(h) /\ ~h.announcing
    THEN {[x EXCEPT !.announcing = x.joined] : x \in Join(h)}
  ELSE IF ~Relevant(h) /\ h.announcing
    THEN {[Leave(h) EXCEPT !.announcing = FALSE]}
  ELSE Rejoin(h)

(* Every address of the interface is looked at again.                      *)
UpdateRrs(h, complete) ==
  [h EXCEPT !.pub = {x.addr : x \in {y \in ToSet(h.addrs) :
                       complete /\ Relevant(h) /\ AddressRelevant(h, y)}}]

Settle(h, complete) == {UpdateRrs(x, complete) : x \in CheckRelevant(h, complete)}

(* avahi_interface_monitor_get_address: where the address is, if it is.    *)
AddressPlace(h, a) ==
  IF a \in AddrNames(h) THEN CHOOSE i \in 1..Len(h.addrs) : h.addrs[i].addr = a ELSE 0

(* RTM_NEWADDR: a new address is prepended, a known one updated.           *)
AddressNews(h, m) ==
  LET i == AddressPlace(h, m.addr)
      x == [addr |-> m.addr, dep |-> m.dep]
  IN [h EXCEPT !.addrs = IF i = 0 THEN <<x>> \o @ ELSE [@ EXCEPT ![i] = x]]

(* avahi_interface_address_free withdraws, unlinks and rejoins.            *)
AddressGone(h, a) ==
  Rejoin([h EXCEPT !.addrs = RemoveAt(@, AddressPlace(h, a)), !.pub = @ \ {a}])

(* A mistake: an address that goes during the dumps is not removed.        *)
HandleAfterDump(h, m, complete) ==
  IF m.type = "newlink" THEN Settle([h EXCEPT !.there = TRUE, !.ok = m.up], complete)
  ELSE IF ~h.there THEN {h}
  ELSE IF m.type = "dellink" THEN {NoIf}
  ELSE IF m.type = "newaddr" THEN Settle(AddressNews(h, m), complete)
  ELSE IF m.addr \notin AddrNames(h) \/ ~complete THEN {h}
  ELSE UNION {Settle(x, complete) : x \in AddressGone(h, m.addr)}

(* netlink_callback's changes to the interface a message is about.         *)
Handle(h, m, complete) ==
  IF m.type = "newlink" THEN Settle([h EXCEPT !.there = TRUE, !.ok = m.up], complete)
  ELSE IF ~h.there THEN {h}
  ELSE IF m.type = "dellink" THEN {NoIf}
  ELSE IF m.type = "newaddr" THEN Settle(AddressNews(h, m), complete)
  ELSE IF m.addr \notin AddrNames(h) THEN {h}
  ELSE UNION {Settle(x, complete) : x \in AddressGone(h, m.addr)}

(* A join that was tried and is not in force was refused.                  *)
Tried(old, new) == new.there /\ new.addrs # <<>> /\ ~new.joined
                   /\ (old.joined \/ new.local # old.local \/ Relevant(new))

LinkEvent ==
  /\ queue # <<>> /\ Head(queue) # Done
  /\ LET m == Head(queue)  w == m.wire
     IN \E h \in Handle(ifs[w], m, listing = "done") :
          /\ ifs' = [ifs EXCEPT ![w] = h]
          /\ refused' = (refused \/ Tried(ifs[w], h))
  /\ queue' = Tail(queue)
  /\ UNCHANGED <<kernel, churn, dump, listing>>

(* NLMSG_DONE: the addresses are asked for, or the dumps are complete and  *)
(* every interface is looked at.                                           *)
DumpDone ==
  /\ queue # <<>> /\ Head(queue) = Done
  /\ queue' = Tail(queue)
  /\ \/ /\ listing = "iface"
        /\ listing' = "addr" /\ dump' = Wires
        /\ UNCHANGED <<ifs, refused>>
     \/ /\ listing = "addr"
        /\ listing' = "done"
        /\ \E f \in [Wires -> UNION {Settle(ifs[w], TRUE) : w \in Wires}] :
             /\ \A w \in Wires : f[w] \in IF ifs[w].there THEN Settle(ifs[w], TRUE) ELSE {NoIf}
             /\ ifs' = f
             /\ refused' = (refused \/ \E w \in Wires : Tried(ifs[w], f[w]))
        /\ UNCHANGED dump
  /\ UNCHANGED <<kernel, churn>>

IfNext ==
  \/ \E w \in Wires : ChangeLink(w) \/ \E a \in Addrs : ChangeAddress(w, a)
  \/ DumpNext \/ LinkEvent \/ DumpDone

(* The kernel writes the dump, and the event loop reads the socket.        *)
IfFairness == WF_wireVars(DumpNext) /\ WF_wireVars(LinkEvent) /\ WF_wireVars(DumpDone)

IfSpec == IfInit /\ [][IfNext]_wireVars /\ IfFairness

(***************************************************************************)
(* Properties.                                                             *)
(***************************************************************************)

IfTypeOK ==
  /\ listing \in {"iface", "addr", "done"} /\ dump \subseteq Wires
  /\ \A w \in Wires :
       /\ ifs[w] \in [there : BOOLEAN, ok : BOOLEAN, joined : BOOLEAN, announcing : BOOLEAN,
                      pub : SUBSET Addrs, local : Addrs \union {"none"},
                      addrs : Seq([addr : Addrs, dep : BOOLEAN])]
       /\ Cardinality(AddrNames(ifs[w])) = Len(ifs[w].addrs)
       /\ ~ifs[w].there => ifs[w] = NoIf

(* The membership is held for an address the interface still has, and for  *)
(* one of global scope if there is one.                                    *)
JoinedWithBest ==
  \A w \in Wires : ifs[w].joined =>
    /\ ifs[w].local \in AddrNames(ifs[w])
    /\ AddrNames(ifs[w]) \intersect GlobalAddrs # {} => ifs[w].local \in GlobalAddrs

(* Once the dumps are complete, whatever came and went: the interfaces     *)
(* that have an address and are up announce, and hold the membership,      *)
(* unless the kernel refused one; no others announce.                      *)
AnnouncesWhereRelevant ==
  \A w \in Wires :
    /\ ifs[w].announcing => listing = "done" /\ Relevant(ifs[w])
    /\ listing = "done" /\ Relevant(ifs[w]) /\ ~refused => ifs[w].announcing /\ ifs[w].joined

(* Addresses of limited scope, and deprecated ones, are published only     *)
(* where there is nothing better, and are withdrawn when it comes.         *)
BestPublished ==
  \A w \in Wires :
    LET best == {x \in ToSet(ifs[w].addrs) : Prime(x)}
    IN ifs[w].pub = IF listing # "done" \/ ~ifs[w].ok THEN {}
                    ELSE IF best = {} THEN AddrNames(ifs[w]) ELSE {x.addr : x \in best}

(* When nothing is left to read, the server knows the kernel's links and   *)
(* addresses, though they changed between the two dumps.                   *)
KnowsKernel ==
  listing = "done" /\ queue = <<>> =>
    \A w \in Wires :
      /\ ifs[w].there = kernel[w].there /\ ifs[w].ok = kernel[w].up
      /\ \A a \in Addrs : (a \in AddrNames(ifs[w])) = (kernel[w].has[a] # "none")

(* avahi_interface_monitor_sync waits for the dumps: they end.             *)
DumpsEnd == <>(listing = "done")

(* The server's interfaces, memberships and published addresses follow     *)
(* the kernel's.                                                           *)
InterfacesSafe ==
    IfTypeOK /\ KnowsKernel /\ JoinedWithBest /\ AnnouncesWhereRelevant /\ BestPublished

=============================================================================
