--------------------------- MODULE BonjourBrowser ---------------------------
(***************************************************************************)
(* QZeroConf's browser over Bonjour (bonjour.cpp), the one WinGretio uses. *)
(* A Resolver is made for every service reported that is not listed; its   *)
(* first operation finds host and port, its second one the addresses, and  *)
(* the first address adds the service to the list.                         *)
(*                                                                         *)
(* A Resolver and its service are one number.  resolvers is a QHash from   *)
(* keys to Resolvers: making a second one for a key replaces the first,    *)
(* which runs on; cleaning up any of them removes the key.                 *)
(*                                                                         *)
(* The daemon reports a service again only after it has withdrawn it, and  *)
(* any of its sockets may fail at any time (kDNSServiceErr_Timeout, no     *)
(* address, the daemon ends).                                              *)
(***************************************************************************)
EXTENDS Naturals, Sequences

CONSTANTS
    Instances,     \* the services on the network
    Keys, KeyOf,   \* name + QString::number(interfaceIndex)
    Ips,           \* the addresses they may have
    MaxResolvers   \* BOUND: the Resolvers made

ASSUME BonjourAssumption ==
    /\ KeyOf \in [Instances -> Keys]
    /\ MaxResolvers \in Nat

NoResolver == 0
NoIp == "none"

ASSUME IpAssumption == NoIp \notin Ips

VARIABLES
    browser,       \* BOOLEAN: pri->browser # nullptr
    announced,     \* the services the daemon has reported and not withdrawn
    zcs,           \* a sequence: the service of each Resolver made
    alive,         \* the Resolvers not cleaned up
    addressing,    \* those of them with a DNSaddressRef
    resolvers,     \* pri->resolvers: the Resolver at each key, or NoResolver
    services,      \* pub->services: the service at each key, or NoResolver
    told,          \* by the signals: added and not removed since
    crashed        \* BOOLEAN: a null Resolver was cleaned up

bonjourVars == <<browser, announced, zcs, alive, addressing, resolvers,
                 services, told, crashed>>

Listed == {k \in Keys : services[k] # NoResolver}
KeyOfResolver(r) == KeyOf[zcs[r].inst]

BonjourInit ==
    /\ browser = FALSE
    /\ announced = {}
    /\ zcs = <<>>
    /\ alive = {}
    /\ addressing = {}
    /\ resolvers = [k \in Keys |-> NoResolver]
    /\ services = [k \in Keys |-> NoResolver]
    /\ told = {}
    /\ crashed = FALSE

\* Mistake: the key stays.
cleanUpKeepsKey(R) ==
    /\ alive' = alive \ R
    /\ addressing' = addressing \ R
    /\ UNCHANGED resolvers

(***************************************************************************)
(* Resolver::cleanUp, for a set of Resolvers: frees them and removes their *)
(* keys, whichever Resolver is there.                                      *)
(***************************************************************************)
cleanUpResolvers(R) ==
    /\ alive' = alive \ R
    /\ addressing' = addressing \ R
    /\ resolvers' = [k \in Keys |->
          IF \E r \in R : KeyOfResolver(r) = k THEN NoResolver ELSE resolvers[k]]

\* As in AvahiBrowser, the program does not go on from here.
Crash == /\ crashed' = TRUE
         /\ UNCHANGED <<browser, announced, zcs, alive, addressing, resolvers,
                        services, told>>

\* Mistake: the list is cleared and nobody is told.
cleanUpSilent ==
    /\ browser' = FALSE
    /\ announced' = {}
    /\ cleanUpResolvers({resolvers[k] : k \in Listed} \ {NoResolver})
    /\ services' = [k \in Keys |-> NoResolver]
    /\ UNCHANGED <<zcs, told, crashed>>

\* QZeroConfPrivate::cleanUp(browser): the Resolvers of the listed services
\* are cleaned up, the others are not; resolvers[key] is null for a key that
\* is not there.
cleanUpBrowser ==
    IF \E k \in Listed : resolvers[k] = NoResolver
      THEN Crash
      ELSE /\ browser' = FALSE
           /\ announced' = {}
           /\ cleanUpResolvers({resolvers[k] : k \in Listed})
           /\ told' = told \ Listed
           /\ services' = [k \in Keys |-> NoResolver]
           /\ UNCHANGED <<zcs, crashed>>

(***************************************************************************)
(* The user's side                                                         *)
(***************************************************************************)
\* An error of DNSServiceBrowse, or a browser that exists, is reported and
\* changes nothing.
startBrowser ==
    /\ ~browser
    /\ browser' = TRUE
    /\ UNCHANGED <<announced, zcs, alive, addressing, resolvers, services,
                   told, crashed>>

stopBrowser == browser /\ cleanUpBrowser

(***************************************************************************)
(* browserRead and browseCallback                                          *)
(***************************************************************************)
BrowserFails == browser /\ cleanUpBrowser

\* resolve(zcs): DNSServiceResolve succeeds, or fails and the new Resolver is
\* cleaned up at once.
resolve(i) ==
    LET r == Len(zcs) + 1 IN
    /\ Len(zcs) < MaxResolvers
    /\ zcs' = Append(zcs, [inst |-> i, ip |-> NoIp])
    /\ \/ /\ alive' = alive \union {r}
          /\ resolvers' = [resolvers EXCEPT ![KeyOf[i]] = r]
       \/ /\ resolvers' = [resolvers EXCEPT ![KeyOf[i]] = NoResolver]
          /\ UNCHANGED alive
    /\ UNCHANGED addressing

BrowseAdd(i) ==
    /\ browser /\ i \notin announced
    /\ announced' = announced \union {i}
    /\ IF KeyOf[i] \in Listed
         THEN UNCHANGED <<zcs, alive, addressing, resolvers>>
         ELSE resolve(i)
    /\ UNCHANGED <<browser, services, told, crashed>>

\* The removal of a service that is not listed is ignored.
BrowseRemove(i) ==
    /\ browser /\ i \in announced
    /\ announced' = announced \ {i}
    /\ IF KeyOf[i] \in Listed
         THEN /\ services' = [services EXCEPT ![KeyOf[i]] = NoResolver]
              /\ cleanUpResolvers({resolvers[KeyOf[i]]} \ {NoResolver})
              /\ told' = told \ {KeyOf[i]}
         ELSE UNCHANGED <<services, alive, addressing, resolvers, told>>
    /\ UNCHANGED <<browser, zcs, crashed>>

(***************************************************************************)
(* The sockets of a Resolver                                               *)
(***************************************************************************)
\* resolverReady and resolverCallback, addressReady and addressReply with an
\* error: the Resolver is cleaned up, and a listed service stays listed.
ResolverFails(r) ==
    /\ r \in alive
    /\ cleanUpResolvers({r})
    /\ UNCHANGED <<browser, announced, zcs, services, told, crashed>>

\* resolverCallback: the host is known, and DNSServiceGetAddrInfo starts (or
\* starts anew; its failure is ResolverFails).
Resolved(r) ==
    /\ r \in alive
    /\ addressing' = addressing \union {r}
    /\ UNCHANGED <<browser, announced, zcs, alive, resolvers, services, told,
                   crashed>>

\* addressReply: serviceAdded, or serviceUpdated for a key that is listed.  The
\* reply comes from the interface the service was found on.
AddressReply(r, ip) ==
    /\ r \in addressing
    /\ zcs' = [zcs EXCEPT ![r].ip = ip]
    /\ IF KeyOfResolver(r) \in Listed
         THEN UNCHANGED <<services, told>>
         ELSE /\ services' = [services EXCEPT ![KeyOfResolver(r)] = r]
              /\ told' = told \union {KeyOfResolver(r)}
    /\ UNCHANGED <<browser, announced, alive, addressing, resolvers, crashed>>

Daemon ==
    \/ BrowserFails
    \/ \E i \in Instances : BrowseAdd(i) \/ BrowseRemove(i)
    \/ \E r \in alive : ResolverFails(r) \/ Resolved(r)
    \/ \E r \in addressing, ip \in Ips : AddressReply(r, ip)

BonjourNext == ~crashed /\ (startBrowser \/ stopBrowser \/ Daemon)

BonjourSpec == BonjourInit /\ [][BonjourNext]_bonjourVars

(***************************************************************************)
(* Properties                                                              *)
(***************************************************************************)
Made == 1..Len(zcs)

\* Every variable keeps to its values; only a live Resolver has an operation
\* for addresses.
BonjourTypeOK ==
    /\ browser \in BOOLEAN /\ crashed \in BOOLEAN
    /\ announced \subseteq Instances
    /\ zcs \in Seq([inst : Instances, ip : Ips \union {NoIp}])
    /\ alive \subseteq Made /\ addressing \subseteq alive
    /\ resolvers \in [Keys -> Made \union {NoResolver}]
    /\ services \in [Keys -> Made \union {NoResolver}]
    /\ told \subseteq Keys

\* No entry of the hash dangles, although a Resolver that is cleaned up removes
\* its key without asking which Resolver is there.
ResolversLive ==
    \A k \in Keys : resolvers[k] # NoResolver =>
        resolvers[k] \in alive /\ KeyOfResolver(resolvers[k]) = k

Sole(r) == \A q \in Made : KeyOfResolver(q) = KeyOfResolver(r) => q = r

\* A Resolver that was never replaced is found under its key while it lives:
\* cleanUp(browser) can free it.
SoleResolverTracked ==
    \A r \in alive : Sole(r) => resolvers[KeyOfResolver(r)] = r

\* A listed service is kept under its own key and has an address.
ListedUnderKey ==
    \A k \in Listed : /\ KeyOfResolver(services[k]) = k
                      /\ zcs[services[k]].ip # NoIp

\* Added and removed alternate for each service, and all are removed when the
\* browser ends.
Directory == INSTANCE ServiceDirectory WITH browsing <- browser, listed <- told
ImplementsSignals == Directory!LooseSpec

\* QtZeroConf/README.md:96, "Optionally connect a slot to QZeroConf's
\* serviceRemoved() signal to received status when the service is unpublished":
\* while it browses, what is listed is announced.
ListedIsAnnounced ==
    browser => \A k \in told : \E i \in announced : KeyOf[i] = k

\* QtZeroConf/README.md:129 calls stopBrowser() and startBrowser() "The only way
\* around" a browser and publisher that sleep has broken: stopBrowser() works
\* when operations have failed.
StopBrowserWorks == ~crashed

=============================================================================
