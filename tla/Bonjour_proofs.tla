--------------------------- MODULE Bonjour_proofs ---------------------------
(***************************************************************************)
(* Proofs about the parts that speak with the Bonjour daemon, for any      *)
(* values of the constants: the hash of Resolvers never dangles and the    *)
(* signals alternate (BonjourBrowser, DeviceList); whatever a callback     *)
(* frees and makes, DNSServiceProcessResult never goes on with a reference *)
(* that was freed, and every reply goes to whom it was meant for           *)
(* (ClientStub); the registration of a service, the reference to it and    *)
(* what the user was told agree (BonjourPublisher).                        *)
(***************************************************************************)
EXTENDS DeviceList, ClientStub, BonjourPublisher, TLAPS

-----------------------------------------------------------------------------
(***************************************************************************)
(* BonjourBrowser and DeviceList                                           *)
(***************************************************************************)

\* The signals say what the list holds.
ToldListed == told = Listed

BonjourInv == /\ BonjourTypeOK /\ ResolversLive /\ SoleResolverTracked
              /\ ListedUnderKey /\ ToldListed

Record == [inst : Instances, ip : Ips \union {NoIp}]

USE DEF NoResolver

LEMMA MadeNat ==
    ASSUME zcs \in Seq(Record)
    PROVE  /\ Len(zcs) \in Nat /\ NoResolver \notin Made
           /\ \A r \in Made : /\ r \in Nat /\ zcs[r] \in Record
                              /\ KeyOfResolver(r) \in Keys
<1>1. Len(zcs) \in Nat /\ \A r \in 1..Len(zcs) : zcs[r] \in Record
  OBVIOUS
<1>2. \A r \in Made : r \in 1..Len(zcs) /\ zcs[r].inst \in Instances
  BY <1>1 DEF Made, Record
<1> QED
  BY <1>1, <1>2, BonjourAssumption DEF Made, KeyOfResolver

LEMMA BonjourInitInv == BonjourInit => BonjourInv
<1> SUFFICES ASSUME BonjourInit PROVE BonjourInv
  OBVIOUS
<1>1. Made = {} /\ Listed = {} /\ zcs \in Seq(Record)
  BY DEF BonjourInit, Made, Listed
<1> QED
  BY <1>1 DEF BonjourInit, BonjourInv, BonjourTypeOK, ResolversLive,
              SoleResolverTracked, ListedUnderKey, ToldListed, Record

LEMMA BonjourStutterInv == BonjourInv /\ UNCHANGED bonjourVars => BonjourInv'
  BY DEF bonjourVars, BonjourInv, BonjourTypeOK, ResolversLive,
         SoleResolverTracked, ListedUnderKey, ToldListed, Listed, Made, Sole,
         KeyOfResolver

\* What only the browser, the announcements or a crash change.
LEMMA QuietInv ==
    ASSUME BonjourInv, browser' \in BOOLEAN, crashed' \in BOOLEAN,
           announced' \subseteq Instances,
           UNCHANGED <<zcs, alive, addressing, resolvers, services, told>>
    PROVE  BonjourInv'
  BY DEF BonjourInv, BonjourTypeOK, ResolversLive, SoleResolverTracked,
         ListedUnderKey, ToldListed, Listed, Made, Sole, KeyOfResolver

(***************************************************************************)
(* Resolver::cleanUp: whichever Resolvers are freed, with the entries of   *)
(* their keys go only entries for them, or for a Resolver that is not the  *)
(* only one of its key.                                                    *)
(***************************************************************************)
LEMMA CleanUpLive ==
    ASSUME BonjourInv, NEW R \in SUBSET Made, cleanUpResolvers(R), zcs' = zcs
    PROVE  /\ alive' \subseteq Made' /\ addressing' \subseteq alive'
           /\ resolvers' \in [Keys -> Made' \union {NoResolver}]
           /\ ResolversLive' /\ SoleResolverTracked'
<1>1. /\ alive' = alive \ R /\ addressing' = addressing \ R
      /\ \A k \in Keys : resolvers'[k] =
            IF \E r \in R : KeyOfResolver(r) = k THEN NoResolver ELSE resolvers[k]
      /\ resolvers' \in [Keys -> Made \union {NoResolver}]
  BY DEF cleanUpResolvers, BonjourInv, BonjourTypeOK
<1>2. Made' = Made /\ \A r : KeyOfResolver(r)' = KeyOfResolver(r)
  BY DEF Made, KeyOfResolver
<1>3. alive' \subseteq Made' /\ addressing' \subseteq alive'
  BY <1>1, <1>2 DEF BonjourInv, BonjourTypeOK
<1>4. ResolversLive'
  BY <1>1, <1>2 DEF BonjourInv, ResolversLive
<1>5. SoleResolverTracked'
  <2> SUFFICES ASSUME NEW r \in alive', Sole(r)
               PROVE  resolvers'[KeyOfResolver(r)] = r
    BY <1>2 DEF SoleResolverTracked, Sole
  <2>1. r \in alive /\ r \in Made /\ r \notin R
    BY <1>1 DEF BonjourInv, BonjourTypeOK
  <2>2. resolvers[KeyOfResolver(r)] = r /\ KeyOfResolver(r) \in Keys
    BY <2>1, MadeNat DEF BonjourInv, BonjourTypeOK, SoleResolverTracked, Record
  <2>3. ~ \E q \in R : KeyOfResolver(q) = KeyOfResolver(r)
    BY <2>1 DEF Sole
  <2> QED
    BY <1>1, <2>2, <2>3
<1> QED
  BY <1>1, <1>2, <1>3, <1>4, <1>5

LEMMA CleanUpBrowserInv ==
    ASSUME BonjourInv, cleanUpBrowser PROVE BonjourInv'
<1>1. CASE Crash
  BY <1>1, QuietInv DEF Crash, BonjourInv, BonjourTypeOK
<1>2. CASE ~Crash
  <2> DEFINE R == {resolvers[k] : k \in Listed}
  <2>1. /\ browser' = FALSE /\ announced' = {} /\ cleanUpResolvers(R)
        /\ told' = told \ Listed /\ services' = [k \in Keys |-> NoResolver]
        /\ zcs' = zcs /\ crashed' = crashed
        /\ \A k \in Listed : resolvers[k] # NoResolver
    BY <1>2 DEF cleanUpBrowser
  <2>2. R \in SUBSET Made
    BY <2>1 DEF BonjourInv, BonjourTypeOK, Listed
  <2>3. /\ alive' \subseteq Made' /\ addressing' \subseteq alive'
        /\ resolvers' \in [Keys -> Made' \union {NoResolver}]
        /\ ResolversLive' /\ SoleResolverTracked'
    BY <2>1, <2>2, CleanUpLive
  <2>4. BonjourTypeOK'
    BY <2>1, <2>3 DEF BonjourInv, BonjourTypeOK
  <2>5. ListedUnderKey' /\ ToldListed'
    BY <2>1 DEF BonjourInv, ListedUnderKey, ToldListed, Listed
  <2> QED
    BY <2>3, <2>4, <2>5 DEF BonjourInv
<1> QED
  BY <1>1, <1>2

(***************************************************************************)
(* resolve: a new Resolver takes the entry of its key; those that had it   *)
(* before are no longer the only ones of the key.                          *)
(***************************************************************************)
LEMMA ResolveInv ==
    ASSUME BonjourInv, NEW i \in Instances, resolve(i),
           announced' \subseteq Instances,
           UNCHANGED <<browser, services, told, crashed>>
    PROVE  BonjourInv'
<1> DEFINE new == [inst |-> i, ip |-> NoIp]
<1>0. zcs \in Seq(Record) /\ new \in Record /\ KeyOf[i] \in Keys
  BY BonjourAssumption DEF BonjourInv, BonjourTypeOK, Record
<1> PICK n \in Nat : n = Len(zcs) + 1
  BY <1>0
<1>1. /\ zcs' \in Seq(Record) /\ zcs'[n] = new /\ Len(zcs') = n
      /\ \A r \in 1..Len(zcs) : zcs'[r] = zcs[r]
  BY <1>0 DEF resolve
<1>2. /\ Made' = Made \union {n} /\ n \notin Made /\ n # NoResolver
      /\ KeyOf[zcs'[n].inst] = KeyOf[i]
      /\ \A r \in Made : zcs'[r] = zcs[r] /\ KeyOfResolver(r) \in Keys
  BY <1>0, <1>1, MadeNat DEF Made
<1>3. /\ addressing' = addressing
      /\ \/ /\ alive' = alive \union {n}
            /\ resolvers' = [resolvers EXCEPT ![KeyOf[i]] = n]
         \/ /\ alive' = alive
            /\ resolvers' = [resolvers EXCEPT ![KeyOf[i]] = NoResolver]
  BY <1>0 DEF resolve
<1>4. BonjourTypeOK'
  BY <1>0, <1>1, <1>2, <1>3 DEF BonjourInv, BonjourTypeOK, Record
<1>5. ResolversLive'
  BY <1>0, <1>2, <1>3
  DEF BonjourInv, BonjourTypeOK, ResolversLive, KeyOfResolver
<1>6. SoleResolverTracked'
  <2> SUFFICES ASSUME NEW r \in alive', Sole(r)'
               PROVE  resolvers'[KeyOf[zcs'[r].inst]] = r
    BY DEF SoleResolverTracked, KeyOfResolver
  <2>1. CASE r = n
    <3>1. alive' = alive \union {n}
      BY <1>2, <1>3, <2>1 DEF BonjourInv, BonjourTypeOK
    <3>2. n \notin alive
      BY <1>2 DEF BonjourInv, BonjourTypeOK
    <3> QED
      BY <1>0, <1>2, <1>3, <2>1, <3>1, <3>2 DEF BonjourInv, BonjourTypeOK
  <2>2. CASE r # n
    <3>1. r \in alive /\ r \in Made
      BY <1>3, <2>2 DEF BonjourInv, BonjourTypeOK
    <3>2. zcs'[r] = zcs[r] /\ KeyOfResolver(r) # KeyOf[i]
      BY <1>2, <2>2, <3>1 DEF Sole, KeyOfResolver
    <3>3. Sole(r)
      BY <1>2, <3>1 DEF Sole, KeyOfResolver
    <3>4. resolvers[KeyOfResolver(r)] = r /\ KeyOfResolver(r) \in Keys
      BY <1>2, <3>1, <3>3 DEF BonjourInv, SoleResolverTracked
    <3> QED
      BY <1>3, <3>2, <3>4 DEF BonjourInv, BonjourTypeOK, KeyOfResolver
  <2> QED
    BY <2>1, <2>2
<1>7. ListedUnderKey' /\ ToldListed'
  <2>1. Listed' = Listed /\ \A k \in Listed : services[k] \in Made
    BY DEF Listed, BonjourInv, BonjourTypeOK
  <2> QED
    BY <1>2, <2>1 DEF BonjourInv, ListedUnderKey, ToldListed, KeyOfResolver
<1> QED
  BY <1>4, <1>5, <1>6, <1>7 DEF BonjourInv

LEMMA BrowseAddInv ==
    ASSUME BonjourInv, NEW i \in Instances, BrowseAdd(i) PROVE BonjourInv'
<1>1. announced' \subseteq Instances /\ UNCHANGED <<browser, services, told, crashed>>
  BY DEF BrowseAdd, BonjourInv, BonjourTypeOK
<1>2. CASE KeyOf[i] \in Listed
  BY <1>1, <1>2, QuietInv DEF BrowseAdd, BonjourInv, BonjourTypeOK
<1>3. CASE KeyOf[i] \notin Listed
  BY <1>1, <1>3, ResolveInv DEF BrowseAdd
<1> QED
  BY <1>2, <1>3

LEMMA BrowseRemoveInv ==
    ASSUME BonjourInv, NEW i \in Instances, BrowseRemove(i) PROVE BonjourInv'
<1> DEFINE k0 == KeyOf[i]
           R == {resolvers[k0]} \ {NoResolver}
<1>0. k0 \in Keys
  BY BonjourAssumption
<1>1. CASE k0 \notin Listed
  BY <1>1, QuietInv DEF BrowseRemove, BonjourInv, BonjourTypeOK
<1>2. CASE k0 \in Listed
  <2>1. /\ services' = [services EXCEPT ![k0] = NoResolver]
        /\ cleanUpResolvers(R) /\ told' = told \ {k0}
        /\ announced' = announced \ {i}
        /\ UNCHANGED <<browser, zcs, crashed>>
    BY <1>2 DEF BrowseRemove
  <2>2. R \in SUBSET Made
    BY <1>0 DEF BonjourInv, BonjourTypeOK
  <2>3. /\ alive' \subseteq Made' /\ addressing' \subseteq alive'
        /\ resolvers' \in [Keys -> Made' \union {NoResolver}]
        /\ ResolversLive' /\ SoleResolverTracked'
    BY <2>1, <2>2, CleanUpLive
  <2>4. /\ Listed' = Listed \ {k0} /\ Made' = Made
        /\ \A k \in Listed' : services'[k] = services[k]
        /\ services' \in [Keys -> Made' \union {NoResolver}]
    BY <2>1 DEF BonjourInv, BonjourTypeOK, Listed, Made
  <2>5. BonjourTypeOK'
    BY <2>1, <2>3, <2>4 DEF BonjourInv, BonjourTypeOK
  <2>6. ListedUnderKey' /\ ToldListed'
    BY <2>1, <2>4 DEF BonjourInv, ListedUnderKey, ToldListed, KeyOfResolver
  <2> QED
    BY <2>3, <2>5, <2>6 DEF BonjourInv
<1> QED
  BY <1>1, <1>2

LEMMA ResolverFailsInv ==
    ASSUME BonjourInv, NEW r \in alive, ResolverFails(r) PROVE BonjourInv'
<1>1. cleanUpResolvers({r}) /\ UNCHANGED <<browser, announced, zcs, services, told, crashed>>
  BY DEF ResolverFails
<1>2. {r} \in SUBSET Made
  BY DEF BonjourInv, BonjourTypeOK
<1>3. /\ alive' \subseteq Made' /\ addressing' \subseteq alive'
      /\ resolvers' \in [Keys -> Made' \union {NoResolver}]
      /\ ResolversLive' /\ SoleResolverTracked'
  BY <1>1, <1>2, CleanUpLive
<1>4. BonjourTypeOK' /\ ListedUnderKey' /\ ToldListed'
  BY <1>1, <1>3 DEF BonjourInv, BonjourTypeOK, ListedUnderKey, ToldListed,
                    Listed, Made, KeyOfResolver
<1> QED
  BY <1>3, <1>4 DEF BonjourInv

LEMMA ResolvedInv ==
    ASSUME BonjourInv, NEW r \in alive, Resolved(r) PROVE BonjourInv'
  BY DEF Resolved, BonjourInv, BonjourTypeOK, ResolversLive,
         SoleResolverTracked, ListedUnderKey, ToldListed, Listed, Made, Sole,
         KeyOfResolver

LEMMA AddressReplyInv ==
    ASSUME BonjourInv, NEW r \in addressing, NEW ip \in Ips, AddressReply(r, ip)
    PROVE  BonjourInv'
<1>0. zcs \in Seq(Record) /\ r \in Made /\ KeyOfResolver(r) \in Keys
  BY MadeNat DEF BonjourInv, BonjourTypeOK, Record
<1>1. /\ zcs' = [zcs EXCEPT ![r].ip = ip]
      /\ UNCHANGED <<browser, announced, alive, addressing, resolvers, crashed>>
  BY DEF AddressReply
<1>2. /\ zcs' \in Seq(Record) /\ Len(zcs') = Len(zcs)
      /\ zcs'[r].ip = ip /\ ip # NoIp
      /\ \A q \in Made : zcs'[q].inst = zcs[q].inst
      /\ \A q \in Made : zcs[q].ip # NoIp => zcs'[q].ip # NoIp
  <2>1. \A q \in Made : zcs[q] \in Record
    BY <1>0, MadeNat
  <2>2. [zcs[r] EXCEPT !.ip = ip] \in Record
    BY <1>0, <2>1 DEF Record
  <2>3. zcs' = [zcs EXCEPT ![r] = [zcs[r] EXCEPT !.ip = ip]]
    BY <1>1
  <2>4. zcs' \in Seq(Record) /\ Len(zcs') = Len(zcs)
    BY <1>0, <2>2, <2>3 DEF Made
  <2>5. /\ zcs'[r] = [zcs[r] EXCEPT !.ip = ip]
        /\ \A q \in Made \ {r} : zcs'[q] = zcs[q]
    BY <1>0, <2>3 DEF Made
  <2>6. zcs'[r].ip = ip /\ zcs'[r].inst = zcs[r].inst
    BY <1>0, <2>1, <2>5 DEF Record
  <2> QED
    BY <2>4, <2>5, <2>6, IpAssumption
<1>3. Made' = Made /\ \A q \in Made : KeyOf[zcs'[q].inst] = KeyOf[zcs[q].inst]
  BY <1>2 DEF Made
<1>4. /\ services' \in [Keys -> Made \union {NoResolver}]
      /\ \A k \in Keys : services'[k] = services[k]
                            \/ (services'[k] = r /\ k = KeyOfResolver(r))
      /\ told' = Listed' /\ told' \subseteq Keys
  <2>1. r # NoResolver /\ services \in [Keys -> Made \union {NoResolver}]
    BY <1>0, MadeNat DEF BonjourInv, BonjourTypeOK
  <2> QED
    BY <1>0, <2>1 DEF AddressReply, BonjourInv, ToldListed, Listed
<1>5. BonjourTypeOK' /\ ToldListed'
  BY <1>1, <1>2, <1>3, <1>4
  DEF BonjourInv, BonjourTypeOK, ToldListed, Record
<1>6. ResolversLive' /\ SoleResolverTracked'
  BY <1>1, <1>3
  DEF BonjourInv, BonjourTypeOK, ResolversLive, SoleResolverTracked, Sole,
      KeyOfResolver
<1>7. ListedUnderKey'
  <2> SUFFICES ASSUME NEW k \in Listed'
               PROVE  /\ KeyOf[zcs'[services'[k]].inst] = k
                      /\ zcs'[services'[k]].ip # NoIp
    BY DEF ListedUnderKey, KeyOfResolver
  <2>1. k \in Keys /\ services'[k] # NoResolver
    BY DEF Listed
  <2>2. CASE services'[k] = r /\ k = KeyOfResolver(r)
    BY <1>0, <1>2, <1>3, <2>2 DEF KeyOfResolver
  <2>3. CASE services'[k] = services[k]
    <3>1. k \in Listed /\ services[k] \in Made
      BY <2>1, <2>3 DEF Listed, BonjourInv, BonjourTypeOK
    <3> QED
      BY <1>2, <1>3, <2>3, <3>1 DEF BonjourInv, ListedUnderKey, KeyOfResolver
  <2> QED
    BY <1>4, <2>1, <2>2, <2>3
<1> QED
  BY <1>5, <1>6, <1>7 DEF BonjourInv

LEMMA BonjourNextInv == BonjourInv /\ [BonjourNext]_bonjourVars => BonjourInv'
<1> SUFFICES ASSUME BonjourInv, BonjourNext PROVE BonjourInv'
  BY BonjourStutterInv
<1>1. CASE startBrowser
  BY <1>1, QuietInv DEF startBrowser, BonjourInv, BonjourTypeOK
<1>2. CASE stopBrowser \/ BrowserFails
  BY <1>2, CleanUpBrowserInv DEF stopBrowser, BrowserFails
<1>3. CASE \E i \in Instances : BrowseAdd(i) \/ BrowseRemove(i)
  BY <1>3, BrowseAddInv, BrowseRemoveInv
<1>4. CASE \E r \in alive : ResolverFails(r) \/ Resolved(r)
  BY <1>4, ResolverFailsInv, ResolvedInv
<1>5. CASE \E r \in addressing, ip \in Ips : AddressReply(r, ip)
  BY <1>5, AddressReplyInv
<1> QED
  BY <1>1, <1>2, <1>3, <1>4, <1>5 DEF BonjourNext, Daemon

LEMMA BonjourInvariant == BonjourSpec => []BonjourInv
  BY BonjourInitInv, BonjourNextInv, PTL DEF BonjourSpec

(***************************************************************************)
(* The invariants the run checks                                           *)
(***************************************************************************)
\* bonjour.cpp: every variable keeps to its values.
THEOREM BonjourTypeCorrect == BonjourSpec => []BonjourTypeOK
  BY BonjourInvariant, PTL DEF BonjourInv

\* bonjour.cpp:46-54, 138-144: although a Resolver removes its key without
\* asking whose entry is there, no entry points to a Resolver that was freed.
THEOREM NoDanglingResolver == BonjourSpec => []ResolversLive
  BY BonjourInvariant, PTL DEF BonjourInv

\* bonjour.cpp:84: the only Resolver of a key is found under it while it lives.
THEOREM SoleResolverFound == BonjourSpec => []SoleResolverTracked
  BY BonjourInvariant, PTL DEF BonjourInv

\* bonjour.cpp:217-222: a listed service has an address and its own key.
THEOREM ListedWithAddress == BonjourSpec => []ListedUnderKey
  BY BonjourInvariant, PTL DEF BonjourInv

(***************************************************************************)
(* The list of devices                                                     *)
(***************************************************************************)
ListInv == BonjourInv /\ ListTypeOK /\ ListedHasRow

Row == [zcs : Made, ip : Ips]

LEMMA ListInitInv == ListInit => ListInv
<1> SUFFICES ASSUME ListInit PROVE ListInv
  OBVIOUS
<1>1. Listed = {} /\ rows \in Seq(Row)
  BY DEF ListInit, BonjourInit, Listed
<1>2. isFinding \in BOOLEAN
  BY DEF ListInit
<1> QED
  BY <1>1, <1>2, BonjourInitInv DEF ListInit, ListInv, ListTypeOK, ListedHasRow, Row

LEMMA SeqGrows ==
    ASSUME NEW S, NEW T, S \subseteq T, NEW q \in Seq(S) PROVE q \in Seq(T)
  OBVIOUS

\* The services there are stay where they are when the list gets no new one.
LEMMA OldRows ==
    ASSUME ListInv, BonjourInv', isFinding' \in BOOLEAN, UNCHANGED rows,
           Made \subseteq Made',
           \A k \in Listed' : k \in Listed /\ services'[k] = services[k]
    PROVE  ListInv'
<1>1. Row \subseteq Row' /\ rows \in Seq(Row)
  BY DEF Row, ListInv, ListTypeOK
<1>2. rows' \in Seq(Row')
  BY <1>1, SeqGrows
<1>3. ListedHasRow'
  BY DEF ListInv, ListedHasRow
<1> QED
  BY <1>2, <1>3 DEF ListInv, ListTypeOK, Row

LEMMA MadeGrows == ASSUME BonjourInv, ListNext \/ UNCHANGED listVars
                   PROVE  Made \subseteq Made'
<1>0. zcs \in Seq(Record)
  BY DEF BonjourInv, BonjourTypeOK, Record
<1>1. CASE UNCHANGED zcs
  BY <1>1 DEF Made
<1>2. ASSUME NEW i \in Instances, resolve(i) PROVE Made \subseteq Made'
  BY <1>0, <1>2 DEF resolve, Made
<1>3. ASSUME NEW r \in addressing, NEW ip \in Ips, AddressReply(r, ip)
      PROVE  Made \subseteq Made'
  <2> DEFINE z == [zcs EXCEPT ![r].ip = ip]
  <2>1. z = [zcs EXCEPT ![r] = [zcs[r] EXCEPT !.ip = ip]]
    OBVIOUS
  <2>2. DOMAIN z = DOMAIN zcs /\ DOMAIN zcs = 1..Len(zcs) /\ Len(zcs) \in Nat
    BY <1>0, <2>1
  <2>3. r \in Made /\ zcs[r] \in Record
    <3>1. r \in Made
      BY DEF BonjourInv, BonjourTypeOK
    <3> QED
      BY <1>0, <3>1, MadeNat
  <2>4. [zcs[r] EXCEPT !.ip = ip] \in Record
    BY <2>3 DEF Record
  <2>5. Len(z) = Len(zcs)
    BY <1>0, <2>1, <2>2, <2>3, <2>4 DEF Made
  <2> QED
    BY <1>3, <2>5 DEF AddressReply, Made
<1> QED
  BY <1>1, <1>2, <1>3
  DEF ListNext, listVars, bonjourVars, findServices, stopFindingServices,
      Discovery, Daemon, startBrowser, stopBrowser, BrowserFails,
      cleanUpBrowser, Crash, BrowseAdd, BrowseRemove, ResolverFails, Resolved

\* What the browser does by itself, and the row it leads to.
LEMMA DiscoveryInv == ASSUME ListInv, Discovery, ~crashed PROVE ListInv'
<1>1. BonjourInv' /\ isFinding' \in BOOLEAN /\ Made \subseteq Made'
  BY BonjourNextInv, MadeGrows
  DEF Discovery, ListInv, ListTypeOK, BonjourNext, ListNext
<1>2. ASSUME UNCHANGED rows, told' \subseteq told,
             \A k \in Listed' : k \in told => services'[k] = services[k]
      PROVE  ListInv'
  BY <1>1, <1>2, OldRows DEF ListInv, BonjourInv, ToldListed
<1>3. ASSUME told' \subseteq told PROVE UNCHANGED rows
  BY <1>3 DEF Discovery, addService
<1>4. CASE BrowserFails
  BY <1>2, <1>3, <1>4
  DEF BrowserFails, cleanUpBrowser, Crash, Listed
<1>5. CASE \E i \in Instances : BrowseAdd(i)
  BY <1>2, <1>3, <1>5 DEF BrowseAdd, Listed
<1>6. CASE \E i \in Instances : BrowseRemove(i)
  BY <1>2, <1>3, <1>6, BonjourAssumption
  DEF BrowseRemove, Listed, ListInv, BonjourInv, BonjourTypeOK
<1>7. CASE \E r \in alive : ResolverFails(r) \/ Resolved(r)
  BY <1>2, <1>3, <1>7 DEF ResolverFails, Resolved, Listed
<1>8. ASSUME NEW r \in addressing, NEW ip \in Ips, AddressReply(r, ip)
      PROVE  ListInv'
  <2> DEFINE k0 == KeyOfResolver(r)
  <2>0. zcs \in Seq(Record) /\ r \in Made /\ k0 \in Keys /\ r # NoResolver
        /\ services \in [Keys -> Made \union {NoResolver}]
    BY MadeNat DEF ListInv, BonjourInv, BonjourTypeOK, Record
  <2>1. CASE k0 \in Listed
    BY <1>2, <1>3, <1>8, <2>1 DEF AddressReply, Listed
  <2>2. CASE k0 \notin Listed
    <3>1. /\ services' = [services EXCEPT ![k0] = r]
          /\ told' = told \union {k0} /\ k0 \notin told
      BY <1>8, <2>2 DEF AddressReply, ListInv, BonjourInv, ToldListed
    <3>2. services'[k0] = r /\ Listed' = Listed \union {k0}
          /\ \A k \in Listed : services'[k] = services[k]
      BY <2>0, <2>2, <3>1 DEF Listed
    <3>3. zcs'[r].ip \in Ips
      <4>1. zcs' = [zcs EXCEPT ![r] = [zcs[r] EXCEPT !.ip = ip]]
        BY <1>8 DEF AddressReply
      <4>2. zcs[r] \in Record /\ r \in DOMAIN zcs
        BY <2>0 DEF Made
      <4>3. zcs'[r] = [zcs[r] EXCEPT !.ip = ip]
        BY <4>1, <4>2
      <4> QED
        BY <4>2, <4>3 DEF Record
    <3> DEFINE new == [zcs |-> r, ip |-> zcs'[r].ip]
    <3>4. rows' = Append(rows, new)
      <4>1. {k \in Keys : k \in told' /\ k \notin told} = {k0}
        BY <2>0, <3>1
      <4> QED
        BY <3>2, <4>1 DEF Discovery, addService
    <3>5. rows \in Seq(Row') /\ new \in Row'
      <4>1. rows \in Seq(Row) /\ Row \subseteq Row'
        BY <1>1 DEF ListInv, ListTypeOK, Row
      <4>2. r \in Made'
        BY <1>1, <2>0
      <4> QED
        BY <3>3, <4>1, <4>2, SeqGrows DEF Row
    <3>6. /\ rows' \in Seq(Row') /\ Len(rows') = Len(rows) + 1 /\ Len(rows) \in Nat
          /\ rows'[Len(rows')] = new
          /\ \A n \in 1..Len(rows) : rows'[n] = rows[n]
      BY <3>4, <3>5
    <3>7. ListTypeOK'
      BY <1>1, <3>6 DEF ListTypeOK, Row
    <3>8. ListedHasRow'
      <4> SUFFICES ASSUME NEW k \in Listed'
                   PROVE  \E n \in 1..Len(rows') : rows'[n].zcs = services'[k]
        BY DEF ListedHasRow
      <4>1. CASE k = k0
        BY <3>2, <3>6, <4>1
      <4>2. CASE k # k0
        <5>1. PICK n \in 1..Len(rows) : rows[n].zcs = services[k]
          BY <3>2, <4>2 DEF ListInv, ListedHasRow
        <5> QED
          BY <3>2, <3>6, <4>2, <5>1
      <4> QED
        BY <4>1, <4>2
    <3> QED
      BY <1>1, <3>7, <3>8 DEF ListInv
  <2> QED
    BY <2>1, <2>2
<1> QED
  BY <1>4, <1>5, <1>6, <1>7, <1>8 DEF Discovery, Daemon

LEMMA ListNextInv == ListInv /\ [ListNext]_listVars => ListInv'
<1> SUFFICES ASSUME ListInv, ListNext \/ UNCHANGED listVars PROVE ListInv'
  OBVIOUS
<1>0. Made \subseteq Made'
  BY MadeGrows DEF ListInv
<1>1. CASE UNCHANGED listVars
  <2>1. UNCHANGED <<bonjourVars, isFinding, rows>>
    BY <1>1 DEF listVars
  <2>2. BonjourInv' /\ UNCHANGED services
    BY <2>1, BonjourStutterInv DEF ListInv, bonjourVars
  <2> QED
    BY <1>0, <2>1, <2>2, OldRows DEF ListInv, ListTypeOK, Listed
<1>2. CASE findServices /\ ~crashed
  <2>1. BonjourInv'
    BY <1>2, BonjourNextInv DEF findServices, BonjourNext, ListInv
  <2>2. isFinding' \in BOOLEAN /\ UNCHANGED <<rows, services>>
    BY <1>2 DEF findServices, startBrowser, bonjourVars
  <2> QED
    BY <1>0, <2>1, <2>2, OldRows DEF Listed
<1>3. CASE stopFindingServices /\ ~crashed
  <2>1. BonjourInv'
    BY <1>3, BonjourNextInv DEF stopFindingServices, BonjourNext, ListInv
  <2>2. isFinding' \in BOOLEAN /\ UNCHANGED rows
    BY <1>3 DEF stopFindingServices
  <2>3. UNCHANGED services \/ services' = [k \in Keys |-> NoResolver]
    BY <1>3
    DEF stopFindingServices, stopBrowser, cleanUpBrowser, Crash, bonjourVars
  <2> QED
    BY <1>0, <2>1, <2>2, <2>3, OldRows DEF Listed
<1>4. CASE Discovery /\ ~crashed
  BY <1>4, DiscoveryInv
<1> QED
  BY <1>1, <1>2, <1>3, <1>4 DEF ListNext

LEMMA ListInvariant == ListSpec => []ListInv
  BY ListInitInv, ListNextInv, PTL DEF ListSpec

\* gretiomainwindow.cpp:66-81: the rows are those of services that were found.
THEOREM ListTypeCorrect == ListSpec => []ListTypeOK
  BY ListInvariant, PTL DEF ListInv

\* gretiomainwindow.cpp:66-81, gretioservicefinder.cpp:3-6: whatever is listed
\* can be selected, however many services come, go and are found again.
THEOREM ListedSelectable == ListSpec => []ListedHasRow
  BY ListInvariant, PTL DEF ListInv

\* bonjour.cpp:46-144, gretiomainwindow.cpp:66-81: the table, the list, the
\* hash and the Resolvers agree.
THEOREM ListCorrect == ListSpec => []ListSafe
  BY ListInvariant, PTL DEF ListInv, BonjourInv, ListSafe

(***************************************************************************)
(* Refinement                                                              *)
(***************************************************************************)
USE DEF Directory!DirInit, Directory!DirNext, Directory!LooseNext,
        Directory!BrowserStarts, Directory!BrowserEnds,
        Directory!ServiceAdded, Directory!ServiceRemoved, Directory!dirVars

LEMMA SignalsInit == BonjourInit => Directory!DirInit
  BY DEF BonjourInit

LEMMA SignalsStep ==
    ASSUME BonjourInv, BonjourNext
    PROVE  [Directory!LooseNext]_(Directory!dirVars)
<1>1. CASE startBrowser
  BY <1>1 DEF startBrowser
<1>2. CASE browser /\ cleanUpBrowser
  <2>1. CASE Crash
    BY <2>1 DEF Crash
  <2>2. CASE ~Crash
    BY <1>2, <2>2 DEF cleanUpBrowser, BonjourInv, ToldListed
  <2> QED
    BY <2>1, <2>2
<1>3. ASSUME NEW i \in Instances, BrowseAdd(i) \/ BrowseRemove(i)
      PROVE  [Directory!LooseNext]_(Directory!dirVars)
  BY <1>3, BonjourAssumption
  DEF BrowseAdd, BrowseRemove, BonjourInv, ToldListed
<1>4. CASE \E r \in alive : ResolverFails(r) \/ Resolved(r)
  BY <1>4 DEF ResolverFails, Resolved
<1>5. ASSUME NEW r \in addressing, NEW ip \in Ips, AddressReply(r, ip)
      PROVE  [Directory!LooseNext]_(Directory!dirVars)
  <2>1. KeyOfResolver(r) \in Keys
    BY MadeNat DEF BonjourInv, BonjourTypeOK, Record
  <2>2. UNCHANGED told \/ Directory!ServiceAdded(KeyOfResolver(r))
    BY <1>5 DEF AddressReply, BonjourInv, ToldListed
  <2> QED
    BY <1>5, <2>1, <2>2 DEF AddressReply
<1> QED
  BY <1>1, <1>2, <1>3, <1>4, <1>5 DEF BonjourNext, Daemon, stopBrowser, BrowserFails

\* The signals of the browser over Bonjour alternate, and a browser that ends
\* reports every listed service removed.
THEOREM BonjourImplementsSignals == BonjourSpec => ImplementsSignals
<1>1. BonjourInv /\ [BonjourNext]_bonjourVars
         => [Directory!LooseNext]_(Directory!dirVars)
  BY SignalsStep DEF bonjourVars
<1> QED
  BY <1>1, SignalsInit, BonjourInvariant, PTL
  DEF BonjourSpec, ImplementsSignals, Directory!LooseSpec

-----------------------------------------------------------------------------
(***************************************************************************)
(* ClientStub                                                              *)
(***************************************************************************)

ConnOK ==
    /\ conn \in [state : {"none", "open", "deaf"}, id : Nat, uid : Uids, max : Nat,
                 kind : {"none", "connection", "lookup", "service"}]
    /\ made \in Nat

\* The reader has its fields, whatever the last reply was.
ReaderOK ==
    \E pc \in {"idle", "read", "callback"}, more \in BOOLEAN : \E of, to, got, failed :
        reader = [pc |-> pc, of |-> of, more |-> more, to |-> to, got |-> got, failed |-> failed]

\* While it reads, or is going to, its connection is there and is the one it
\* was called for; while it reads, no call waits.
ReaderHasConn == reader.pc = "read" \/ reader.more => conn.state = "open" /\ conn.id = reader.of

NobodyWaits == reader.pc = "read" => wait = NoWait

StubInv == ConnOK /\ ReaderOK /\ ReaderHasConn /\ NobodyWaits

(***************************************************************************)
(* At most one request will be answered, and only while a call waits.      *)
(***************************************************************************)
Fresh(q) == ~q.late /\ q.op # "cancel"
NoneFresh(s) == \A i \in 1..Len(s) : ~Fresh(s[i])

IsRequest(q) == \E op, id, uid, late : q = [op |-> op, id |-> id, uid |-> uid, late |-> late]

RequestsOK(s) ==
    /\ s \in Seq({s[i] : i \in 1..Len(s)})
    /\ \A i \in 1..Len(s) : IsRequest(s[i])
    /\ \A i, j \in 1..Len(s) : Fresh(s[i]) /\ Fresh(s[j]) => i = j

RequestInv ==
    /\ RequestsOK(requests)
    /\ wait = NoWait \/ wait.answer # "none" => NoneFresh(requests)

LEMMA OwnRange ==
    ASSUME NEW S, NEW s \in Seq(S)
    PROVE  s \in Seq({s[i] : i \in 1..Len(s)}) /\ Len(s) \in Nat
  OBVIOUS

LEMMA EmptyRequests == RequestsOK(<<>>) /\ NoneFresh(<<>>)
  BY DEF RequestsOK, NoneFresh

LEMMA AppendRequest ==
    ASSUME NEW s, RequestsOK(s), NEW op, NEW id, NEW uid, NoneFresh(s) \/ op = "cancel"
    PROVE  /\ RequestsOK(Append(s, Request(op, id, uid)))
           /\ op = "cancel" /\ NoneFresh(s) => NoneFresh(Append(s, Request(op, id, uid)))
<1> DEFINE q == Request(op, id, uid)
           t == Append(s, q)
<1>1. q = [op |-> op, id |-> id, uid |-> uid, late |-> FALSE]
  BY DEF Request
<1>2. IsRequest(q) /\ (op = "cancel" => ~Fresh(q))
  <2>1. IsRequest(q)
    BY <1>1, Zenon DEF IsRequest
  <2>2. q.op = op
    BY <1>1
  <2> QED
    BY <2>1, <2>2 DEF Fresh
<1> HIDE DEF q
<1>3. s \in Seq({s[i] : i \in 1..Len(s)} \cup {q}) /\ Len(s) \in Nat
  <2> DEFINE S == {s[i] : i \in 1..Len(s)}
  <2>1. s \in Seq(S)
    BY DEF RequestsOK
  <2> HIDE DEF S
  <2>2. s \in Seq(S \cup {q}) /\ Len(s) \in Nat
    BY <2>1
  <2> QED
    BY <2>2 DEF S
<1>4. /\ t \in Seq({s[i] : i \in 1..Len(s)} \cup {q})
      /\ Len(t) = Len(s) + 1
      /\ \A i \in 1..Len(t) : t[i] = IF i <= Len(s) THEN s[i] ELSE q
  BY <1>3
<1> HIDE DEF t
<1>5. \A i \in 1..Len(t) : (i \in 1..Len(s) /\ t[i] = s[i]) \/ (i = Len(s) + 1 /\ t[i] = q)
  BY <1>3, <1>4
<1>6. t \in Seq({t[i] : i \in 1..Len(t)})
  BY <1>4, OwnRange
<1>7. \A i \in 1..Len(t) : IsRequest(t[i])
  BY <1>2, <1>5 DEF RequestsOK
<1>8. \A i, j \in 1..Len(t) : Fresh(t[i]) /\ Fresh(t[j]) => i = j
  BY <1>2, <1>5 DEF RequestsOK, NoneFresh
<1>9. op = "cancel" /\ NoneFresh(s) => NoneFresh(t)
  BY <1>2, <1>5 DEF NoneFresh
<1>10. RequestsOK(t)
  BY <1>6, <1>7, <1>8 DEF RequestsOK
<1> QED
  BY <1>9, <1>10 DEF q, t

LEMMA TailRequests ==
    ASSUME NEW s, RequestsOK(s), s # <<>>
    PROVE  /\ RequestsOK(Tail(s)) /\ (Fresh(Head(s)) \/ NoneFresh(s) => NoneFresh(Tail(s)))
           /\ NoneFresh(s) => ~Fresh(Head(s))
<1>1. s \in Seq({s[i] : i \in 1..Len(s)}) /\ Len(s) \in Nat
  BY DEF RequestsOK
<1>2. /\ Tail(s) \in Seq({s[i] : i \in 1..Len(s)}) /\ Len(Tail(s)) = Len(s) - 1 /\ Len(s) > 0
      /\ \A i \in 1..Len(Tail(s)) : Tail(s)[i] = s[i + 1] /\ i + 1 \in 1..Len(s)
      /\ Head(s) = s[1] /\ 1 \in 1..Len(s)
  BY <1>1
<1> DEFINE t == Tail(s)
<1> HIDE DEF t
<1>3. t \in Seq({t[i] : i \in 1..Len(t)}) /\ Len(t) \in Nat
  BY <1>2, OwnRange DEF t
<1>4. \A i \in 1..Len(t) : t[i] = s[i + 1] /\ i + 1 \in 1..Len(s) /\ i \in Nat /\ i + 1 # 1
  BY <1>2, <1>3 DEF t
<1>5. RequestsOK(t)
  <2>1. \A i \in 1..Len(t) : IsRequest(t[i])
    BY <1>4 DEF RequestsOK
  <2>2. \A i, j \in 1..Len(t) : Fresh(t[i]) /\ Fresh(t[j]) => i = j
    <3> SUFFICES ASSUME NEW i \in 1..Len(t), NEW j \in 1..Len(t), Fresh(t[i]), Fresh(t[j])
                 PROVE  i = j
      OBVIOUS
    <3>1. i + 1 = j + 1
      BY <1>4 DEF RequestsOK
    <3> QED
      BY <3>1, <1>3
  <2> QED
    BY <1>3, <2>1, <2>2 DEF RequestsOK
<1>6. Fresh(Head(s)) \/ NoneFresh(s) => NoneFresh(t)
  BY <1>2, <1>4 DEF RequestsOK, NoneFresh
<1>7. NoneFresh(s) => ~Fresh(Head(s))
  BY <1>2 DEF NoneFresh
<1> QED
  BY <1>5, <1>6, <1>7 DEF t

LEMMA LateRequests ==
    ASSUME NEW s, RequestsOK(s)
    PROVE  /\ RequestsOK([i \in 1..Len(s) |-> [s[i] EXCEPT !.late = TRUE]])
           /\ NoneFresh([i \in 1..Len(s) |-> [s[i] EXCEPT !.late = TRUE]])
<1> DEFINE t == [i \in 1..Len(s) |-> [s[i] EXCEPT !.late = TRUE]]
<1>1. Len(s) \in Nat
  BY DEF RequestsOK
<1>2. \A i \in 1..Len(s) : t[i] = [s[i] EXCEPT !.late = TRUE]
  OBVIOUS
<1>3. t \in [1..Len(s) -> {t[i] : i \in 1..Len(s)}]
  OBVIOUS
<1> HIDE DEF t
<1>4. t \in Seq({t[i] : i \in 1..Len(s)}) /\ Len(t) = Len(s)
  BY <1>1, <1>3
<1>5. ASSUME NEW i \in 1..Len(t)
      PROVE  IsRequest(t[i]) /\ ~Fresh(t[i])
  <2>1. PICK op, id, uid, late : s[i] = [op |-> op, id |-> id, uid |-> uid, late |-> late]
    BY <1>4 DEF RequestsOK, IsRequest
  <2>2. t[i] = [op |-> op, id |-> id, uid |-> uid, late |-> TRUE]
    BY <1>2, <1>4, <2>1
  <2>3. IsRequest(t[i])
    BY <2>2, Zenon DEF IsRequest
  <2>4. t[i].late = TRUE
    BY <2>2
  <2> QED
    BY <2>3, <2>4 DEF Fresh
<1>6. RequestsOK(t) /\ NoneFresh(t)
  BY <1>4, <1>5 DEF RequestsOK, NoneFresh
<1> QED
  BY <1>6 DEF t

LEMMA RequestInitInv == StubInit => RequestInv
  BY EmptyRequests DEF StubInit, RequestInv

LEMMA DeliverInv ==
    ASSUME RequestInv, wait = NoWait, NEW call, NEW op, NEW id, NEW uid,
           call # "none", Deliver(call, op, id, uid)
    PROVE  RequestInv'
<1>1. NoneFresh(requests)
  BY DEF RequestInv
<1>2. CASE peer = "up"
  <2>1. requests' = Append(requests, Request(op, id, uid)) /\ wait' # NoWait /\ wait'.answer = "none"
    BY <1>2 DEF Deliver, NoWait
  <2> QED
    BY <1>1, <2>1, AppendRequest DEF RequestInv
<1>3. CASE peer # "up"
  BY <1>1, <1>3 DEF Deliver, RequestInv
<1> QED
  BY <1>2, <1>3

LEMMA ConnectRequest ==
    ASSUME RequestInv, NEW kind, NEW call, NEW op, call # "none", ConnectToServer(kind, call, op)
    PROVE  RequestInv'
<1>1. requests' = Append(<<>>, Request(op, made + 1, <<0, 0>>))
  BY DEF ConnectToServer
<1>2. RequestsOK(requests')
  BY <1>1, EmptyRequests, AppendRequest
<1>3. wait' # NoWait /\ wait'.answer = "none"
  BY DEF ConnectToServer, NoWait
<1> QED
  BY <1>2, <1>3 DEF RequestInv

LEMMA FreeRequest ==
    ASSUME RequestInv, wait = NoWait \/ wait.answer # "none", NEW r, FreeSubordinate(r)
    PROVE  RequestsOK(requests') /\ NoneFresh(requests')
<1>1. RequestsOK(requests) /\ NoneFresh(requests)
  BY DEF RequestInv
<1>2. CASE peer = "up"
  <2>1. requests' = Append(requests, Request("cancel", r.id, r.uid))
    BY <1>2 DEF FreeSubordinate
  <2> QED
    BY <1>1, <2>1, AppendRequest
<1>3. CASE peer # "up"
  BY <1>1, <1>3 DEF FreeSubordinate
<1> QED
  BY <1>2, <1>3

LEMMA RequestNextInv == RequestInv /\ [StubNext]_stubVars => RequestInv'
<1> SUFFICES ASSUME RequestInv, [StubNext]_stubVars
             PROVE  RequestInv'
  OBVIOUS
<1>1. CASE \E kind, call, op : call # "none" /\ ConnectToServer(kind, call, op)
  BY <1>1, ConnectRequest
<1>2. CASE \E call, op, id, uid : wait = NoWait /\ call # "none" /\ Deliver(call, op, id, uid)
  BY <1>2, DeliverInv
<1>3. CASE UNCHANGED <<wait, requests>>
  BY <1>3 DEF RequestInv
<1>4. CASE RefDeallocate
  <2>1. wait = NoWait /\ UNCHANGED wait
    BY <1>4 DEF RefDeallocate, Callable
  <2>2. CASE FreeConnection
    BY <2>1, <2>2, EmptyRequests DEF FreeConnection, RequestInv
  <2>3. CASE \E r : FreeSubordinate(r)
    BY <2>1, <2>3, FreeRequest DEF RequestInv
  <2> QED
    BY <1>4, <2>2, <2>3 DEF RefDeallocate
<1>5. CASE CallReturns
  <2>1. wait.answer # "none" /\ wait' = NoWait
    BY <1>5 DEF CallReturns
  <2>2. FreeConnection \/ (\E r : FreeSubordinate(r)) \/ UNCHANGED requests
    BY <1>5 DEF CallReturns, StartFailed, RecordFailed, unread
  <2>3. RequestsOK(requests') /\ NoneFresh(requests')
    BY <2>1, <2>2, FreeRequest, EmptyRequests DEF FreeConnection, RequestInv
  <2> QED
    BY <2>3 DEF RequestInv
<1>6. CASE TimeOut
  BY <1>6, LateRequests DEF TimeOut, RequestInv
<1>7. CASE DaemonReads
  <2> DEFINE q == Head(requests)
  <2>1. requests # <<>> /\ requests' = Tail(requests) /\ RequestsOK(requests)
    BY <1>7 DEF DaemonReads, RequestInv
  <2>2. RequestsOK(requests') /\ (Fresh(q) \/ NoneFresh(requests) => NoneFresh(requests'))
    BY <2>1, TailRequests
  <2>3. Fresh(q) \/ UNCHANGED wait
    BY <1>7 DEF DaemonReads, Answer, Fresh
  <2> HIDE DEF q
  <2> QED
    BY <2>2, <2>3 DEF RequestInv
<1>8. CASE DaemonDies
  BY <1>8, EmptyRequests DEF DaemonDies, RequestInv
<1> QED
  <2>1. CASE CreateConnection
    BY <1>1, <2>1 DEF CreateConnection
  <2>2. CASE \E kind : Start(kind)
    BY <1>1, <1>2, <2>2 DEF Start, ShareConnection, Callable
  <2>3. CASE RegisterRecord \/ AddRecord \/ UpdateRecord \/ RemoveRecord
    BY <1>2, <2>3 DEF RegisterRecord, AddRecord, UpdateRecord, RemoveRecord, Callable
  <2>4. CASE ProcessResult \/ ReadFails \/ ReadReply \/ CallbackReturns \/ DaemonReplies
    BY <1>3, <2>4 DEF ProcessResult, ReadFails, ReadReply, CallbackReturns, DaemonReplies, unread
  <2>5. CASE UNCHANGED stubVars
    BY <1>3, <2>5 DEF stubVars
  <2> QED
    BY <1>4, <1>5, <1>6, <1>7, <1>8, <2>1, <2>2, <2>3, <2>4, <2>5
    DEF StubNext, DNSServiceResolve, DNSServiceQueryRecord, DNSServiceGetAddrInfo,
        DNSServiceBrowse, DNSServiceRegister, DNSServiceEnumerateDomains,
        DNSServiceNATPortMappingCreate

(***************************************************************************)
(* The reader and its connection.                                          *)
(***************************************************************************)
LEMMA BumpUid == ASSUME NEW u \in Uids PROVE Bump(u) \in Uids
<1>1. W \in Nat /\ W > 1
  BY StubAssumption
<1>2. \A n \in 0..W - 1 : (n + 1) % W \in 0..W - 1
  BY <1>1
<1>3. u[1] \in 0..W - 1 /\ u[2] \in 0..W - 1
  BY DEF Uids
<1> QED
  BY <1>2, <1>3 DEF Bump, Uids

LEMMA StubInitInv == StubInit => StubInv
<1> SUFFICES ASSUME StubInit PROVE StubInv
  OBVIOUS
<1>1. <<0, 0>> \in Uids
  BY StubAssumption DEF Uids
<1> QED
  BY <1>1 DEF StubInit, StubInv, ConnOK, ReaderOK, ReaderHasConn, NobodyWaits, NoConn, Idle

\* What keeps the reader and the connection's identity.
LEMMA SameReader ==
    ASSUME StubInv, ConnOK', reader' = reader,
           conn'.state = conn.state, conn'.id = conn.id,
           Callable \/ wait' = wait \/ reader.pc # "read"
    PROVE  StubInv'
<1>1. reader.pc = "read" => wait' = wait
  BY DEF Callable
<1>2. ReaderOK'
  BY DEF StubInv, ReaderOK
<1>3. ReaderHasConn'
  BY DEF StubInv, ReaderHasConn
<1>4. NobodyWaits'
  BY <1>1 DEF StubInv, NobodyWaits
<1> QED
  BY <1>2, <1>3, <1>4 DEF StubInv

\* A socket of its own: there is no connection, so nobody goes on with one.
LEMMA ConnectInv ==
    ASSUME StubInv, NEW kind \in {"connection", "lookup", "service"}, NEW call, NEW op,
           ConnectToServer(kind, call, op)
    PROVE  StubInv'
<1>1. <<0, 0>> \in Uids
  BY StubAssumption DEF Uids
<1>2. ConnOK'
  <2>1. made \in Nat /\ made' = made + 1
    BY DEF StubInv, ConnOK, ConnectToServer
  <2>2. conn' = [state |-> "open", kind |-> kind, id |-> made + 1, uid |-> <<0, 0>>, max |-> 0]
    BY DEF ConnectToServer, NoConn
  <2> QED
    BY <1>1, <2>1, <2>2 DEF ConnOK
<1>3. conn.state = "none" /\ reader.pc # "read" /\ reader' = reader
  BY DEF ConnectToServer, NoConn, Callable
<1>4. ~reader.more \/ reader.pc = "read"
  BY <1>3 DEF StubInv, ReaderHasConn
<1> QED
  BY <1>2, <1>3, <1>4 DEF StubInv, ReaderOK, ReaderHasConn, NobodyWaits

LEMMA ShareInv ==
    ASSUME StubInv, NEW kind, ShareConnection(kind)
    PROVE  StubInv'
<1>1. Bump(conn.uid) \in Uids
  BY BumpUid DEF StubInv, ConnOK
<1>2. ConnOK' /\ conn'.state = conn.state /\ conn'.id = conn.id
  BY <1>1 DEF ShareConnection, StubInv, ConnOK
<1> QED
  BY <1>2, SameReader DEF ShareConnection

LEMMA StartInv ==
    ASSUME StubInv,
           \/ CreateConnection \/ DNSServiceResolve \/ DNSServiceQueryRecord
           \/ DNSServiceGetAddrInfo \/ DNSServiceBrowse \/ DNSServiceRegister
           \/ DNSServiceEnumerateDomains \/ DNSServiceNATPortMappingCreate
    PROVE  StubInv'
<1>1. CASE CreateConnection
  BY <1>1, ConnectInv DEF CreateConnection
<1>2. CASE \E kind \in {"lookup", "service"} : Start(kind)
  BY <1>2, ConnectInv, ShareInv DEF Start
<1> QED
  BY <1>1, <1>2 DEF DNSServiceResolve, DNSServiceQueryRecord, DNSServiceGetAddrInfo,
     DNSServiceBrowse, DNSServiceRegister, DNSServiceEnumerateDomains,
     DNSServiceNATPortMappingCreate

LEMMA RecordInv ==
    ASSUME StubInv, RegisterRecord \/ AddRecord \/ UpdateRecord \/ RemoveRecord
    PROVE  StubInv'
<1>1. CASE RegisterRecord
  <2>1. Bump(conn.uid) \in Uids
    BY BumpUid DEF StubInv, ConnOK
  <2>2. conn' = [conn EXCEPT !.uid = Bump(@), !.max = @ + 1] /\ made' = made + 1
    BY <1>1 DEF RegisterRecord
  <2>3. conn.max + 1 \in Nat /\ made + 1 \in Nat
    BY DEF StubInv, ConnOK
  <2>4. ConnOK' /\ conn'.state = conn.state /\ conn'.id = conn.id
    BY <2>1, <2>2, <2>3 DEF StubInv, ConnOK
  <2> QED
    BY <1>1, <2>4, SameReader DEF RegisterRecord
<1>2. CASE AddRecord
  <2>1. conn' = [conn EXCEPT !.max = @ + 1] \/ conn' = conn
    BY <1>2 DEF AddRecord
  <2>2. ConnOK' /\ conn'.state = conn.state /\ conn'.id = conn.id
    BY <1>2, <2>1 DEF AddRecord, StubInv, ConnOK
  <2> QED
    BY <1>2, <2>2, SameReader DEF AddRecord
<1>3. CASE UpdateRecord \/ RemoveRecord
  <2>1. UNCHANGED <<conn, made, reader>> /\ Callable
    BY <1>3 DEF UpdateRecord, RemoveRecord
  <2> QED
    BY <2>1, SameReader DEF StubInv, ConnOK
<1> QED
  BY <1>1, <1>2, <1>3

\* The connection goes: the reader that works on it stops.
LEMMA FreeConnectionInv ==
    ASSUME StubInv, FreeConnection, reader.pc # "read", made' = made
    PROVE  StubInv'
<1>1. <<0, 0>> \in Uids
  BY StubAssumption DEF Uids
<1>2. ConnOK'
  BY <1>1 DEF StubInv, ConnOK, FreeConnection, NoConn
<1>3. /\ reader'.pc = reader.pc /\ ReaderOK'
      /\ reader'.more => reader' = reader /\ reader.of # conn.id
  <2>1. CASE reader.of = conn.id
    <3>1. reader' = [reader EXCEPT !.more = FALSE]
      BY <2>1 DEF FreeConnection
    <3>2. PICK pc \in {"idle", "read", "callback"}, more \in BOOLEAN : \E of, to, got, failed :
             reader = [pc |-> pc, of |-> of, more |-> more, to |-> to, got |-> got, failed |-> failed]
      BY DEF StubInv, ReaderOK
    <3>3. PICK of, to, got, failed :
             reader = [pc |-> pc, of |-> of, more |-> more, to |-> to, got |-> got, failed |-> failed]
      BY <3>2
    <3>4. reader' = [pc |-> pc, of |-> of, more |-> FALSE, to |-> to, got |-> got, failed |-> failed]
      BY <3>1, <3>3
    <3>5. ReaderOK'
      BY <3>4, Zenon DEF ReaderOK
    <3> QED
      BY <3>3, <3>4, <3>5
  <2>2. CASE reader.of # conn.id
    BY <2>2 DEF FreeConnection, StubInv, ReaderOK
  <2> QED
    BY <2>1, <2>2
<1>4. ~reader'.more
  BY <1>3 DEF StubInv, ReaderHasConn
<1> QED
  BY <1>2, <1>3, <1>4 DEF StubInv, ReaderHasConn, NobodyWaits

LEMMA RefDeallocateInv == ASSUME StubInv, RefDeallocate PROVE StubInv'
<1>1. Callable /\ UNCHANGED <<made, wait>> /\ reader.pc # "read"
  BY DEF RefDeallocate, Callable
<1>2. CASE FreeConnection
  BY <1>1, <1>2, FreeConnectionInv
<1>3. CASE UNCHANGED <<conn, reader>>
  BY <1>1, <1>3, SameReader DEF StubInv, ConnOK
<1> QED
  BY <1>2, <1>3 DEF RefDeallocate, FreeSubordinate

LEMMA CallReturnsInv == ASSUME StubInv, CallReturns PROVE StubInv'
<1>1. reader.pc # "read" /\ made' = made
  BY DEF CallReturns, StubInv, NobodyWaits, NoWait
<1>2. FreeConnection \/ UNCHANGED <<conn, reader>>
  BY DEF CallReturns, StartFailed, RecordFailed, FreeSubordinate
<1>3. CASE FreeConnection
  BY <1>1, <1>3, FreeConnectionInv
<1>4. CASE UNCHANGED <<conn, reader>>
  BY <1>1, <1>4, SameReader DEF StubInv, ConnOK
<1> QED
  BY <1>2, <1>3, <1>4

\* DNSServiceProcessResult itself.
LEMMA ReaderInv ==
    ASSUME StubInv, ProcessResult \/ ReadFails \/ ReadReply \/ CallbackReturns
    PROVE  StubInv'
<1>1. CASE ProcessResult
  BY <1>1 DEF ProcessResult, StubInv, ConnOK, ReaderOK, ReaderHasConn, NobodyWaits, Idle
<1>2. CASE ReadFails
  BY <1>2 DEF ReadFails, StubInv, ConnOK, ReaderOK, ReaderHasConn, NobodyWaits, Idle
<1>3. CASE ReadReply
  <2>1. /\ reader.pc = "read" /\ UNCHANGED <<conn, made, wait>>
        /\ \/ reader' = reader \/ reader' = Idle
           \/ \E more \in BOOLEAN : \E to, got, failed :
                 reader' = [reader EXCEPT !.pc = "callback", !.more = more,
                                          !.to = to, !.got = got, !.failed = failed]
    BY <1>3 DEF ReadReply
  <2>2. CASE reader' = reader \/ reader' = Idle
    <3>1. ConnOK' /\ ReaderOK' /\ NobodyWaits'
      BY <2>1, <2>2 DEF StubInv, ConnOK, ReaderOK, NobodyWaits, Idle
    <3>2. ReaderHasConn'
      <4>1. reader' = Idle => ~(reader'.pc = "read" \/ reader'.more)
        BY DEF Idle
      <4> QED
        BY <2>1, <2>2, <4>1 DEF StubInv, ReaderHasConn, Idle
    <3> QED
      BY <3>1, <3>2 DEF StubInv
  <2>3. CASE \E more \in BOOLEAN : \E to, got, failed :
                 reader' = [reader EXCEPT !.pc = "callback", !.more = more,
                                          !.to = to, !.got = got, !.failed = failed]
    <3>1. ReaderOK' /\ reader'.pc = "callback" /\ reader'.of = reader.of
      BY <2>3 DEF StubInv, ReaderOK
    <3> QED
      BY <2>1, <3>1 DEF StubInv, ConnOK, ReaderHasConn, NobodyWaits
  <2> QED
    BY <2>1, <2>2, <2>3
<1>4. CASE CallbackReturns
  <2>1. UNCHANGED <<conn, made, wait>> /\ wait = NoWait
    BY <1>4 DEF CallbackReturns
  <2>2. \/ reader.more /\ reader' = [Idle EXCEPT !.pc = "read", !.of = reader.of]
        \/ reader' = Idle
    BY <1>4 DEF CallbackReturns
  <2> QED
    <3>1. ConnOK' /\ ReaderOK' /\ NobodyWaits'
      BY <2>1, <2>2 DEF StubInv, ConnOK, ReaderOK, NobodyWaits, Idle
    <3>2. ReaderHasConn'
      <4>1. reader' = Idle => ~(reader'.pc = "read" \/ reader'.more)
        BY DEF Idle
      <4> QED
        BY <2>1, <2>2, <4>1 DEF StubInv, ReaderHasConn, Idle
    <3> QED
      BY <3>1, <3>2 DEF StubInv
<1> QED
  BY <1>1, <1>2, <1>3, <1>4

\* The daemon, and a call's time limit.
LEMMA DaemonInv ==
    ASSUME StubInv, RequestInv, TimeOut \/ DaemonReads \/ DaemonReplies \/ DaemonDies
    PROVE  StubInv'
<1>1. UNCHANGED <<conn, made, reader>>
  BY DEF TimeOut, DaemonReads, DaemonReplies, DaemonDies
<1>2. ConnOK'
  BY <1>1 DEF StubInv, ConnOK
<1>3. CASE TimeOut
  BY <1>1, <1>2, <1>3, SameReader DEF TimeOut, StubInv, NobodyWaits
<1>4. CASE DaemonReplies
  BY <1>1, <1>2, <1>4, SameReader DEF DaemonReplies
<1>5. CASE DaemonDies
  <2>1. wait = NoWait => wait' = wait
    BY <1>5 DEF DaemonDies
  <2> QED
    BY <1>1, <1>2, <2>1, SameReader DEF StubInv, NobodyWaits
<1>6. CASE DaemonReads
  <2>1. requests # <<>> /\ RequestsOK(requests)
    BY <1>6 DEF DaemonReads, RequestInv
  <2>2. wait = NoWait => ~Fresh(Head(requests))
    BY <2>1, TailRequests DEF RequestInv
  <2>3. wait = NoWait => wait' = wait
    BY <1>6, <2>2 DEF DaemonReads, Answer, Fresh
  <2> QED
    BY <1>1, <1>2, <2>3, SameReader DEF StubInv, NobodyWaits
<1> QED
  BY <1>3, <1>4, <1>5, <1>6

LEMMA StubNextInv == StubInv /\ RequestInv /\ [StubNext]_stubVars => StubInv'
<1> SUFFICES ASSUME StubInv, RequestInv, [StubNext]_stubVars
             PROVE  StubInv'
  OBVIOUS
<1>1. CASE UNCHANGED stubVars
  BY <1>1 DEF stubVars, StubInv, ConnOK, ReaderOK, ReaderHasConn, NobodyWaits
<1> QED
  BY <1>1, StartInv, RecordInv, RefDeallocateInv, CallReturnsInv, ReaderInv, DaemonInv DEF StubNext

LEMMA StubInvariance == StubSpec => [](StubInv /\ RequestInv)
BY StubInitInv, StubNextInv, RequestInitInv, RequestNextInv, PTL DEF StubSpec

(***************************************************************************)
(* The theorem                                                             *)
(***************************************************************************)
\* DNSServiceProcessResult never goes on with a reference its callback freed,
\* even if the client has made another one since, and however many references
\* it makes (moreptr, dnssd_clientstub.c:976-1119).
THEOREM ReaderKeepsConnection == StubSpec => []LoopIsLive
<1>1. StubInv => LoopIsLive
  BY DEF StubInv, ReaderHasConn, LoopIsLive
<1> QED
  BY StubInvariance, <1>1, PTL

-----------------------------------------------------------------------------
(***************************************************************************)
(* Uids are numbers: the uid of the last operation or record that got one  *)
(* is as many steps from <<0, 0>> as there were.                           *)
(***************************************************************************)
Num(u) == u[1] + W * u[2]

LEMMA NumType == ASSUME NEW u \in Uids PROVE Num(u) \in Nat
<1>1. u[1] \in Nat /\ u[2] \in Nat /\ W \in Nat
  BY StubAssumption DEF Uids
<1> QED
  BY <1>1 DEF Num

LEMMA BumpCounts ==
    ASSUME NEW u \in Uids, Num(u) + 1 < W * W
    PROVE  Bump(u) \in Uids /\ Num(Bump(u)) = Num(u) + 1
<1>1. W \in Nat /\ W > 1
  BY StubAssumption
<1>2. PICK a \in 0..W - 1, b \in 0..W - 1 : u = <<a, b>>
  BY DEF Uids
<1>3. a + W * b + 1 < W * W
  BY <1>2 DEF Num
<1>4. CASE a + 1 < W
  <2>1. (a + 1) % W = a + 1 /\ a + 1 # 0
    BY <1>1, <1>4
  <2>2. Bump(u) = <<a + 1, b>>
    BY <1>2, <2>1 DEF Bump
  <2>3. a + 1 \in 0..W - 1
    BY <1>1, <1>4
  <2>4. PICK p \in Nat : p = W * b
    BY <1>1
  <2>5. Num(u) = a + p /\ Num(Bump(u)) = a + 1 + p
    BY <1>2, <2>2, <2>4 DEF Num
  <2>6. Bump(u) \in Uids
    BY <2>2, <2>3 DEF Uids
  <2> QED
    BY <2>5, <2>6
<1>5. CASE ~ (a + 1 < W)
  <2>1. a + 1 = W /\ W % W = 0
    BY <1>1, <1>5
  <2>2. W * (b + 1) = W * b + W
    BY <1>1
  <2>3. W * (b + 1) < W * W
    BY <1>1, <1>3, <2>1, <2>2
  <2>4. b + 1 < W
    <3>1. b + 1 >= W => W * (b + 1) >= W * W
      BY <1>1
    <3> QED
      BY <1>1, <2>3, <3>1
  <2>5. (b + 1) % W = b + 1
    BY <1>1, <2>4
  <2>6. Bump(u) = <<0, b + 1>>
    BY <1>2, <2>1, <2>5 DEF Bump
  <2>7. b + 1 \in 0..W - 1 /\ 0 \in 0..W - 1
    BY <1>1, <2>4
  <2>8. PICK p \in Nat : p = W * b
    BY <1>1
  <2>9. Num(u) = a + p /\ Num(Bump(u)) = p + W
    <3>1. Num(u) = a + p
      BY <1>2, <2>8 DEF Num
    <3>2. PICK r \in Nat : r = W * (b + 1)
      BY <1>1
    <3>3. r = p + W
      BY <2>2, <2>8, <3>2
    <3>4. Num(Bump(u)) = 0 + r
      BY <2>6, <3>2 DEF Num
    <3> QED
      BY <3>1, <3>3, <3>4
  <2>10. Bump(u) \in Uids
    BY <2>6, <2>7 DEF Uids
  <2> QED
    BY <1>1, <2>1, <2>9, <2>10
<1> QED
  BY <1>4, <1>5

-----------------------------------------------------------------------------
(***************************************************************************)
(* The lists of the connection, and what is under way                      *)
(***************************************************************************)
Subordinates == [id : Nat, uid : Uids, kind : {"lookup", "service"}, max : Nat]
ConnRecords == [id : Nat, owner : Nat, uid : Uids, index : Nat, failed : BOOLEAN]

\* Owners precede what they own; max is above every index it has given.
ListsInv ==
    /\ subs \subseteq Subordinates /\ recs \subseteq ConnRecords /\ made <= MaxMade
    /\ conn.id + conn.max <= made
    /\ conn.state # "none" => conn.id > 0
    /\ subs # {} => conn.kind = "connection"
    /\ \A s \in subs : conn.id < s.id /\ s.id <= made
    /\ \A s, t \in subs : s.id = t.id => s = t
    /\ \A r \in recs : r.owner \in {conn.id} \union Ids(subs)
    /\ \A r \in recs : r.owner = conn.id => r.index < conn.max
    /\ \A r \in recs, s \in subs : r.owner = s.id => r.index < s.max
    /\ IndicesDistinct

\* Without a connection there is nothing.
MailInv ==
    /\ peer \in {"up", "gone"}
    /\ peer = "gone" => requests = <<>> /\ known = {}
    /\ conn.state = "none" => conn = NoConn /\ subs = {} /\ recs = {} /\ peer = "gone" /\ stream = <<>>
    /\ stream \in Seq({stream[i] : i \in 1..Len(stream)})

\* What the daemon may answer, answers or is asked to, and what the stub finds by its uid.
Talk == {"lookup", "service", "record"}
KnownAs(id, uid) == \E k \in known : k.op \in Talk /\ k.id = id /\ k.uid = uid
RepliedAs(id, uid) == \E i \in 1..Len(stream) : stream[i].id = id /\ stream[i].uid = uid
AskedAs(id, uid) ==
    \E i \in 1..Len(requests) : requests[i].op \in Talk /\ requests[i].id = id /\ requests[i].uid = uid
Mailed(id, uid) == KnownAs(id, uid) \/ RepliedAs(id, uid) \/ AskedAs(id, uid)
Mine(id, uid) ==
    \/ \E s \in subs : s.id = id /\ s.uid = uid
    \/ \E r \in recs : r.owner = conn.id /\ r.id = id /\ r.uid = uid
Tagged(id, uid) == Mailed(id, uid) \/ Mine(id, uid)

\* On a shared connection no uid stands for two identities, though one of them be gone
\* and its replies be under way; a socket of its own carries one operation.
TagsInv ==
    /\ conn.kind = "connection" =>
          /\ Num(conn.uid) + conn.id <= made
          /\ \A id, uid : Tagged(id, uid) => uid \in Uids /\ Num(uid) <= Num(conn.uid)
          /\ \A id, jd, uid : Tagged(id, uid) /\ Tagged(jd, uid) => id = jd
    /\ conn.kind # "connection" => \A id, uid : Mailed(id, uid) => id = conn.id

StubAll == StubInv /\ RequestInv /\ ListsInv /\ MailInv /\ TagsInv /\ GivenUpIsCancelled /\ RightCallback

LEMMA TagsKept ==
    ASSUME ConnOK, TagsInv, conn'.kind = conn.kind, conn'.id = conn.id, conn'.uid = conn.uid,
           made' \in Nat, made' >= made,
           \A id, uid : Mailed(id, uid)' => Mailed(id, uid),
           \A id, uid : Mine(id, uid)' => Mine(id, uid)
    PROVE  TagsInv'
<1>1. \A id, uid : Tagged(id, uid)' => Tagged(id, uid)
  BY DEF Tagged
<1>2. CASE conn.kind = "connection"
  <2>1. conn.uid \in Uids /\ conn.id \in Nat /\ made \in Nat
    BY DEF ConnOK
  <2>2. Num(conn.uid) \in Nat
    BY <2>1, NumType
  <2>3. Num(conn.uid)' = Num(conn.uid)
    BY DEF Num
  <2>4. Num(conn.uid)' + conn'.id <= made'
    BY <1>2, <2>1, <2>2, <2>3 DEF TagsInv
  <2>5. \A id, uid : Tagged(id, uid)' => uid \in Uids /\ Num(uid) <= Num(conn.uid)'
    BY <1>1, <1>2, <2>3 DEF TagsInv
  <2>6. \A id, jd, uid : Tagged(id, uid)' /\ Tagged(jd, uid)' => id = jd
    BY <1>1, <1>2 DEF TagsInv
  <2> QED
    BY <1>2, <2>4, <2>5, <2>6 DEF TagsInv
<1>3. CASE conn.kind # "connection"
  BY <1>3 DEF TagsInv
<1> QED
  BY <1>2, <1>3

\* An operation or record that gets the next uid.
LEMMA TagsGrow ==
    ASSUME MaxMade <= W * W, ConnOK, ListsInv, TagsInv, conn.kind = "connection",
           conn.id > 0, made < MaxMade,
           conn'.kind = conn.kind, conn'.id = conn.id, conn'.uid = Bump(conn.uid), made' = made + 1,
           \A id, uid : Tagged(id, uid)' => Tagged(id, uid) \/ (id = made + 1 /\ uid = Bump(conn.uid))
    PROVE  TagsInv'
<1>1. conn.uid \in Uids /\ conn.id \in Nat /\ made \in Nat /\ MaxMade \in Nat /\ W * W \in Nat
  BY StubAssumption DEF ConnOK
<1>2. Num(conn.uid) \in Nat
  BY <1>1, NumType
<1>3. Num(conn.uid) + 1 < W * W
  BY <1>1, <1>2 DEF TagsInv
<1>4. Bump(conn.uid) \in Uids /\ Num(Bump(conn.uid)) = Num(conn.uid) + 1
  BY <1>1, <1>3, BumpCounts
<1> PICK u : u = Bump(conn.uid)
  OBVIOUS
<1>5. u \in Uids /\ Num(u) = Num(conn.uid) + 1 /\ Num(u) \in Nat
  BY <1>2, <1>4
<1>6. Num(conn.uid)' = Num(u)
  <2>1. conn'.uid = u
    OBVIOUS
  <2> QED
    BY <2>1 DEF Num
<1>7. Num(u) + conn'.id <= made'
  BY <1>1, <1>2, <1>5 DEF TagsInv
<1>8. ASSUME NEW id, NEW uid, Tagged(id, uid)
      PROVE  uid \in Uids /\ Num(uid) \in Nat /\ Num(uid) <= Num(conn.uid) /\ uid # u
  <2>1. uid \in Uids /\ Num(uid) <= Num(conn.uid)
    BY <1>8 DEF TagsInv
  <2>2. Num(uid) \in Nat
    BY <2>1, NumType
  <2> QED
    BY <1>2, <1>5, <2>1, <2>2
<1>9. \A id, uid : Tagged(id, uid)' => uid \in Uids /\ Num(uid) <= Num(u)
  BY <1>2, <1>5, <1>8
<1>10. \A id, jd, uid : Tagged(id, uid)' /\ Tagged(jd, uid)' => id = jd
  <2> SUFFICES ASSUME NEW id, NEW jd, NEW uid, Tagged(id, uid)', Tagged(jd, uid)'
               PROVE  id = jd
    OBVIOUS
  <2>1. CASE uid = u
    <3>1. ~ Tagged(id, uid) /\ ~ Tagged(jd, uid)
      BY <1>8, <2>1
    <3> QED
      BY <3>1
  <2>2. CASE uid # u
    <3>1. Tagged(id, uid) /\ Tagged(jd, uid)
      BY <2>2
    <3> QED
      BY <3>1 DEF TagsInv
  <2> QED
    BY <2>1, <2>2
<1> QED
  BY <1>6, <1>7, <1>9, <1>10 DEF TagsInv

-----------------------------------------------------------------------------
(* The steps *)

LEMMA AppendFacts ==
    ASSUME NEW S, NEW s \in Seq(S), NEW x, NEW t, t = Append(s, x)
    PROVE  /\ Len(s) \in Nat /\ Len(t) = Len(s) + 1
           /\ \A i \in 1..Len(s) : t[i] = s[i] /\ i \in 1..Len(t)
           /\ t[Len(s) + 1] = x /\ Len(s) + 1 \in 1..Len(t)
           /\ \A i \in 1..Len(t) : i \in 1..Len(s) \/ i = Len(s) + 1
           /\ t \in Seq(S \cup {x})
<1>1. s \in Seq(S \cup {x}) /\ Len(s) \in Nat
  OBVIOUS
<1>2. /\ t \in Seq(S \cup {x}) /\ Len(t) = Len(s) + 1
      /\ \A i \in 1..Len(t) : t[i] = IF i <= Len(s) THEN s[i] ELSE x
  BY <1>1
<1>3. \A i \in 1..Len(s) : t[i] = s[i] /\ i \in 1..Len(t)
  BY <1>1, <1>2
<1>4. t[Len(s) + 1] = x /\ Len(s) + 1 \in 1..Len(t)
  BY <1>1, <1>2
<1>5. \A i \in 1..Len(t) : i \in 1..Len(s) \/ i = Len(s) + 1
  BY <1>1, <1>2
<1> QED
  BY <1>1, <1>2, <1>3, <1>4, <1>5

LEMMA TailFacts ==
    ASSUME NEW S, NEW s \in Seq(S), s # <<>>, NEW t, t = Tail(s)
    PROVE  /\ Head(s) = s[1] /\ 1 \in 1..Len(s)
           /\ \A i \in 1..Len(t) : t[i] = s[i + 1] /\ i + 1 \in 1..Len(s)
           /\ \A i \in 1..Len(s) : i # 1 => i - 1 \in 1..Len(t) /\ t[i - 1] = s[i]
           /\ t \in Seq(S)
<1>1. /\ t \in Seq(S) /\ Len(t) = Len(s) - 1 /\ Len(s) > 0 /\ Len(s) \in Nat
      /\ Head(s) = s[1] /\ 1 \in 1..Len(s)
      /\ \A i \in 1..Len(t) : t[i] = s[i + 1] /\ i + 1 \in 1..Len(s)
  OBVIOUS
<1>2. \A i \in 1..Len(s) : i # 1 => i - 1 \in 1..Len(t) /\ t[i - 1] = s[i]
  <2> SUFFICES ASSUME NEW i \in 1..Len(s), i # 1
               PROVE  i - 1 \in 1..Len(t) /\ t[i - 1] = s[i]
    OBVIOUS
  <2>1. i - 1 \in 1..Len(t) /\ (i - 1) + 1 = i
    BY <1>1
  <2> QED
    BY <1>1, <2>1
<1> QED
  BY <1>1, <1>2

\* The requests are those there were, and perhaps one more at the end.
AtMostAppends(q) == requests' = requests \/ requests' = Append(requests, q)

LEMMA AppendedAs ==
    ASSUME RequestInv, NEW q, AtMostAppends(q)
    PROVE  /\ \A id, uid : AskedAs(id, uid)' => AskedAs(id, uid) \/ (q.op \in Talk /\ q.id = id /\ q.uid = uid)
           /\ \A id, i : i \in 1..Len(requests) /\ Cancelled(id, i) => Cancelled(id, i)'
           /\ \A i \in 1..Len(requests') :
                 \/ i \in 1..Len(requests) /\ requests'[i] = requests[i]
                 \/ requests'[i] = q /\ requests' # requests
<1>1. CASE requests' = requests
  <2>1. \A id, uid : AskedAs(id, uid)' <=> AskedAs(id, uid)
    BY <1>1 DEF AskedAs
  <2>2. \A id, i : Cancelled(id, i)' <=> Cancelled(id, i)
    BY <1>1 DEF Cancelled
  <2> QED
    BY <1>1, <2>1, <2>2
<1>2. CASE requests' = Append(requests, q)
  <2> PICK S : S = {requests[i] : i \in 1..Len(requests)}
    OBVIOUS
  <2>1. requests \in Seq(S)
    BY DEF RequestInv, RequestsOK
  <2> PICK t : t = requests'
    OBVIOUS
  <2>2. /\ Len(requests) \in Nat /\ Len(t) = Len(requests) + 1
        /\ \A i \in 1..Len(requests) : t[i] = requests[i] /\ i \in 1..Len(t)
        /\ t[Len(requests) + 1] = q
        /\ \A i \in 1..Len(t) : i \in 1..Len(requests) \/ i = Len(requests) + 1
    BY <1>2, <2>1, AppendFacts
  <2>3. \A id, uid : AskedAs(id, uid)' => AskedAs(id, uid) \/ (q.op \in Talk /\ q.id = id /\ q.uid = uid)
    <3> SUFFICES ASSUME NEW id, NEW uid, AskedAs(id, uid)'
                 PROVE  AskedAs(id, uid) \/ (q.op \in Talk /\ q.id = id /\ q.uid = uid)
      OBVIOUS
    <3>1. PICK i \in 1..Len(t) : t[i].op \in Talk /\ t[i].id = id /\ t[i].uid = uid
      BY DEF AskedAs
    <3> QED
      BY <2>2, <3>1 DEF AskedAs
  <2>4. \A id, i : i \in 1..Len(requests) /\ Cancelled(id, i) => Cancelled(id, i)'
    <3> SUFFICES ASSUME NEW id, NEW i, i \in 1..Len(requests), Cancelled(id, i)
                 PROVE  Cancelled(id, i)'
      OBVIOUS
    <3>1. PICK j \in i..Len(requests) : requests[j].op = "cancel" /\ requests[j].id = id
      BY DEF Cancelled
    <3>2. j \in i..Len(t) /\ t[j].op = "cancel" /\ t[j].id = id
      BY <2>2, <3>1
    <3> QED
      BY <3>2 DEF Cancelled
  <2>5. requests' # requests
    BY <2>2
  <2> QED
    BY <2>2, <2>3, <2>4, <2>5
<1> QED
  BY <1>1, <1>2 DEF AtMostAppends

LEMMA GivenMeans ==
    ASSUME \A k \in known' : k.op \in {"lookup", "service"} /\ ~ Held(k.id)' => Cancelled(k.id, 1)',
           \A i \in 1..Len(requests') : \A x :
              x = requests'[i] /\ x.op \in {"lookup", "service"} /\ ~ Held(x.id)' => Cancelled(x.id, i)'
    PROVE  GivenUpIsCancelled'
  BY DEF GivenUpIsCancelled, Held, Cancelled

\* Whoever is held and not given up keeps the cancels where they are.
LEMMA GivenKept ==
    ASSUME RequestInv, GivenUpIsCancelled, NEW q, AtMostAppends(q), known' \subseteq known,
           \A id : Held(id)  => Held(id)' \/ (\E c : c = id /\ requests' = Append(requests, q) /\ q.op = "cancel" /\ q.id = c),
           requests' # requests => q.op \notin {"lookup", "service"} \/ Held(q.id)'
    PROVE  GivenUpIsCancelled'
<1> PICK S : S = {requests[i] : i \in 1..Len(requests)}
  OBVIOUS
<1>1. requests \in Seq(S) /\ Len(requests) \in Nat
  BY DEF RequestInv, RequestsOK
<1>2. \A id : Held(id) /\ ~ Held(id)' => \A i \in 1..(Len(requests) + 1) : Cancelled(id, i)'
  <2> SUFFICES ASSUME NEW id, Held(id), ~ Held(id)', NEW i \in 1..(Len(requests) + 1)
               PROVE  Cancelled(id, i)'
    OBVIOUS
  <2>1. requests' = Append(requests, q) /\ q.op = "cancel" /\ q.id = id
    OBVIOUS
  <2> PICK t : t = requests'
    OBVIOUS
  <2>2. Len(t) = Len(requests) + 1 /\ t[Len(requests) + 1] = q
    BY <1>1, <2>1, AppendFacts
  <2>3. Len(requests) + 1 \in i..Len(t) /\ t[Len(requests) + 1].op = "cancel" /\ t[Len(requests) + 1].id = id
    BY <1>1, <2>1, <2>2
  <2> QED
    BY <2>3 DEF Cancelled
<1>3. \A id, i : i \in 1..Len(requests) /\ Cancelled(id, i) => Cancelled(id, i)'
  BY AppendedAs
<1>4. ASSUME NEW k \in known', k.op \in {"lookup", "service"}, ~ Held(k.id)'
      PROVE  Cancelled(k.id, 1)'
  <2>1. CASE Held(k.id)
    <3>1. 1 \in 1..(Len(requests) + 1)
      BY <1>1
    <3> QED
      BY <1>2, <1>4, <2>1, <3>1
  <2>2. CASE ~ Held(k.id)
    <3>1. Cancelled(k.id, 1)
      BY <1>4, <2>2 DEF GivenUpIsCancelled
    <3>2. 1 \in 1..Len(requests)
      BY <1>1, <3>1 DEF Cancelled
    <3> QED
      BY <1>3, <3>1, <3>2
  <2> QED
    BY <2>1, <2>2
<1>5. ASSUME NEW i \in 1..Len(requests'), NEW x, x = requests'[i],
             x.op \in {"lookup", "service"}, ~ Held(x.id)'
      PROVE  Cancelled(x.id, i)'
  <2>1. i \in 1..Len(requests) /\ x = requests[i]
    BY <1>5, AppendedAs
  <2>2. CASE Held(x.id)
    <3>1. i \in 1..(Len(requests) + 1)
      BY <1>1, <2>1
    <3> QED
      BY <1>2, <1>5, <2>1, <2>2, <3>1
  <2>3. CASE ~ Held(x.id)
    <3>1. Cancelled(x.id, i)
      BY <1>5, <2>1, <2>3 DEF GivenUpIsCancelled
    <3> QED
      BY <1>3, <2>1, <3>1
  <2> QED
    BY <2>2, <2>3
<1> QED
  BY <1>4, <1>5, GivenMeans

StubRest == ListsInv /\ MailInv /\ TagsInv /\ GivenUpIsCancelled /\ RightCallback

LEMMA RequestFields ==
    \A op, id, uid : LET q == Request(op, id, uid)
                     IN  q.op = op /\ q.id = id /\ q.uid = uid
  BY DEF Request

LEMMA SameCallback ==
    ASSUME RightCallback, reader'.pc = reader.pc, reader'.got = reader.got, reader'.to = reader.to
    PROVE  RightCallback'
  BY DEF RightCallback

\* Nothing moves but who waits, and the reader, which calls nobody.
LEMMA NothingMoves ==
    ASSUME StubAll, StubInv', UNCHANGED <<subs, recs, made, unread>>,
           conn'.id = conn.id, conn'.kind = conn.kind, conn'.uid = conn.uid, conn'.max = conn.max,
           conn'.state = conn.state \/ (conn'.state # "none" /\ conn.state # "none"),
           RightCallback'
    PROVE  StubRest'
<1>0. subs' = subs /\ recs' = recs /\ made' = made /\ peer' = peer /\ requests' = requests
      /\ known' = known /\ stream' = stream
  BY DEF unread
<1>1. ListsInv'
  <2>1. Ids(subs)' = Ids(subs)
    BY <1>0 DEF Ids
  <2> QED
    BY <1>0, <2>1 DEF StubAll, ListsInv, IndicesDistinct
<1>2. MailInv'
  <2>1. conn'.state = "none" => conn' = conn
    BY DEF StubAll, StubInv, ConnOK
  <2> QED
    BY <1>0, <2>1 DEF StubAll, MailInv
<1>3. TagsInv'
  <2>1. \A id, uid : Mailed(id, uid)' => Mailed(id, uid)
    BY <1>0 DEF Mailed, KnownAs, RepliedAs, AskedAs
  <2>2. \A id, uid : Mine(id, uid)' => Mine(id, uid)
    BY <1>0 DEF Mine
  <2>3. made' \in Nat /\ made' >= made
    BY <1>0 DEF StubAll, StubInv, ConnOK
  <2> QED
    BY <2>1, <2>2, <2>3, TagsKept DEF StubAll, StubInv
<1>4. GivenUpIsCancelled'
  BY <1>0 DEF StubAll, GivenUpIsCancelled, Held, Ids, Cancelled
<1> QED
  BY <1>1, <1>2, <1>3, <1>4 DEF StubRest

LEMMA ConnectRest ==
    ASSUME StubAll, NEW kind \in {"connection", "lookup", "service"}, NEW call,
           ConnectToServer(kind, call, kind)
    PROVE  StubRest'
<1>1. conn = NoConn /\ conn.state = "none" /\ subs = {} /\ recs = {} /\ known = {} /\ stream = <<>>
  BY DEF ConnectToServer, StubAll, MailInv, NoConn
<1>2. subs' = {} /\ recs' = {} /\ known' = {} /\ stream' = <<>> /\ peer' = "up" /\ made' = made + 1
      /\ reader' = reader /\ made < MaxMade
  BY <1>1 DEF ConnectToServer
<1>3. conn' = [state |-> "open", kind |-> kind, id |-> made + 1, uid |-> <<0, 0>>, max |-> 0]
  BY DEF ConnectToServer, NoConn
<1>4. made \in Nat /\ MaxMade \in Nat
  BY StubAssumption DEF StubAll, StubInv, ConnOK
<1> PICK q : q = Request(kind, made + 1, <<0, 0>>)
  OBVIOUS
<1>5. q.op = kind /\ q.id = made + 1 /\ q.uid = <<0, 0>>
  BY RequestFields
<1>6. requests' = <<q>> /\ Len(requests') = 1 /\ requests'[1] = q /\ \A i \in 1..Len(requests') : requests'[i] = q
  BY DEF ConnectToServer
<1>7. ListsInv'
  BY <1>2, <1>3, <1>4 DEF ListsInv, IndicesDistinct
<1>8. MailInv'
  BY <1>2, <1>3 DEF MailInv
<1>9. TagsInv'
  <2>1. \A id, uid : Mailed(id, uid)' => kind # "connection" /\ id = made + 1
    BY <1>2, <1>5, <1>6 DEF Mailed, KnownAs, RepliedAs, AskedAs, Talk
  <2>2. \A id, uid : ~ Mine(id, uid)'
    BY <1>2 DEF Mine
  <2>3. Num(conn.uid)' = 0
    <3>1. conn'.uid = <<0, 0>>
      BY <1>3
    <3> QED
      BY <3>1, StubAssumption DEF Num
  <2>4. \A id, uid : Tagged(id, uid)' => kind # "connection"
    BY <2>1, <2>2 DEF Tagged
  <2> QED
    BY <1>2, <1>3, <1>4, <2>1, <2>3, <2>4 DEF TagsInv
<1>10. GivenUpIsCancelled'
  BY <1>2, <1>3, <1>5, <1>6 DEF GivenUpIsCancelled, Held
<1>11. RightCallback'
  BY <1>2, SameCallback DEF StubAll
<1> QED
  BY <1>7, <1>8, <1>9, <1>10, <1>11 DEF StubRest

LEMMA DeliverMail ==
    ASSUME StubAll, NEW call, NEW op, NEW id, NEW uid, Deliver(call, op, id, uid),
           peer' = peer, known' = known, stream' = stream, conn.state # "none", conn'.state = conn.state
    PROVE  /\ AtMostAppends(Request(op, id, uid))
           /\ MailInv'
           /\ \A jd, u : Mailed(jd, u)' => Mailed(jd, u) \/ (op \in Talk /\ jd = id /\ u = uid)
<1> PICK q : q = Request(op, id, uid)
  OBVIOUS
<1>0. q.op = op /\ q.id = id /\ q.uid = uid
  BY RequestFields
<1>1. AtMostAppends(q)
  BY DEF Deliver, AtMostAppends
<1>2. MailInv'
  BY DEF Deliver, StubAll, MailInv
<1>3. \A jd, u : AskedAs(jd, u)' => AskedAs(jd, u) \/ (op \in Talk /\ jd = id /\ u = uid)
  BY <1>0, <1>1, AppendedAs DEF StubAll
<1>4. \A jd, u : Mailed(jd, u)' => Mailed(jd, u) \/ (op \in Talk /\ jd = id /\ u = uid)
  BY <1>3 DEF Mailed, KnownAs, RepliedAs
<1> QED
  BY <1>1, <1>2, <1>4

\* What is held before is held after, and what is started is held.
LEMMA DeliverGiven ==
    ASSUME StubAll, NEW call, NEW op, NEW id, NEW uid, Deliver(call, op, id, uid), known' = known,
           \A jd : Held(jd) => Held(jd)', op \in {"lookup", "service"} => Held(id)'
    PROVE  GivenUpIsCancelled'
<1> PICK q : q = Request(op, id, uid)
  OBVIOUS
<1>0. q.op = op /\ q.id = id
  BY RequestFields
<1>1. AtMostAppends(q)
  BY DEF Deliver, AtMostAppends
<1>2. requests' # requests => q.op \notin {"lookup", "service"} \/ Held(q.id)'
  <2>1. q.op \in {"lookup", "service"} => Held(q.id)'
    BY <1>0 DEF Held
  <2> QED
    BY <2>1
<1> QED
  BY <1>1, <1>2, GivenKept DEF StubAll

LEMMA ShareRest ==
    ASSUME MaxMade <= W * W, StubAll, NEW kind \in {"lookup", "service"}, ShareConnection(kind)
    PROVE  StubRest'
<1>0. /\ conn.state # "none" /\ conn.kind = "connection" /\ made < MaxMade
      /\ conn' = [conn EXCEPT !.uid = Bump(@)]
      /\ made' = made + 1 /\ recs' = recs /\ reader' = reader /\ peer' = peer
      /\ known' = known /\ stream' = stream
      /\ Deliver("start", kind, made + 1, Bump(conn.uid))
  BY DEF ShareConnection
<1>1. ConnOK /\ made \in Nat /\ MaxMade \in Nat /\ conn.id \in Nat /\ conn.max \in Nat /\ conn.uid \in Uids
  BY StubAssumption DEF StubAll, StubInv, ConnOK
<1> PICK u : u = Bump(conn.uid)
  OBVIOUS
<1>2. u \in Uids
  BY <1>1, BumpUid
<1>3. conn'.id = conn.id /\ conn'.kind = conn.kind /\ conn'.max = conn.max /\ conn'.state = conn.state /\ conn'.uid = u
  BY <1>0, <1>1 DEF ConnOK
<1> PICK n : n = [id |-> made + 1, uid |-> u, kind |-> kind, max |-> 0]
  OBVIOUS
<1>4. n \in Subordinates /\ n.id = made + 1 /\ n.uid = u /\ n.max = 0
  BY <1>1, <1>2 DEF Subordinates
<1>5. subs' = subs \union {n}
  BY DEF ShareConnection
<1>6. ListsInv /\ \A s \in subs : s.id \in Nat /\ s.id # made + 1
  BY <1>1 DEF StubAll, ListsInv, Subordinates
<1>7. Ids(subs') = Ids(subs) \union {made + 1}
  BY <1>4, <1>5 DEF Ids
<1>8. ListsInv'
  <2>1. \A r \in recs : r.owner \in {conn.id} \union Ids(subs) /\ r.owner # made + 1
    <3>1. \A x \in Ids(subs) : x # made + 1
      BY <1>6 DEF Ids
    <3>2. conn.id # made + 1
      BY <1>1, <1>6 DEF ListsInv
    <3> QED
      BY <1>6, <3>1, <3>2 DEF ListsInv
  <2>2. subs' \subseteq Subordinates /\ recs' \subseteq ConnRecords /\ made' <= MaxMade
        /\ conn'.id + conn'.max <= made'
        /\ (conn'.state # "none" => conn'.id > 0)
        /\ (subs' # {} => conn'.kind = "connection")
    BY <1>0, <1>1, <1>3, <1>4, <1>5, <1>6 DEF ListsInv
  <2>3. \A s \in subs' : conn'.id < s.id /\ s.id <= made'
    BY <1>0, <1>1, <1>3, <1>4, <1>5, <1>6 DEF ListsInv
  <2>4. \A s, t \in subs' : s.id = t.id => s = t
    BY <1>4, <1>5, <1>6 DEF ListsInv
  <2>5. \A r \in recs' : r.owner \in {conn'.id} \union Ids(subs')
    BY <1>0, <1>3, <1>7, <2>1
  <2>6. \A r \in recs' : r.owner = conn'.id => r.index < conn'.max
    BY <1>0, <1>3, <1>6 DEF ListsInv
  <2>7. \A r \in recs', s \in subs' : r.owner = s.id => r.index < s.max
    BY <1>0, <1>4, <1>5, <1>6, <2>1 DEF ListsInv
  <2>8. IndicesDistinct'
    BY <1>0, <1>6 DEF ListsInv, IndicesDistinct
  <2> QED
    BY <2>2, <2>3, <2>4, <2>5, <2>6, <2>7, <2>8 DEF ListsInv
<1>9. MailInv' /\ \A jd, v : Mailed(jd, v)' => Mailed(jd, v) \/ (jd = made + 1 /\ v = u)
  BY <1>0, <1>3, DeliverMail
<1>10. TagsInv'
  <2>1. \A id, v : Mine(id, v)' => Mine(id, v) \/ (id = made + 1 /\ v = u)
    BY <1>0, <1>3, <1>4, <1>5 DEF Mine
  <2>2. \A id, v : Tagged(id, v)' => Tagged(id, v) \/ (id = made + 1 /\ v = Bump(conn.uid))
    BY <1>9, <2>1 DEF Tagged
  <2>3. conn.id > 0
    BY <1>0, <1>6 DEF ListsInv
  <2> QED
    BY <1>0, <1>1, <1>3, <1>6, <2>2, <2>3, TagsGrow DEF StubAll
<1>11. GivenUpIsCancelled'
  <2>1. \A jd : Held(jd) => Held(jd)'
    BY <1>3, <1>7 DEF Held
  <2>2. PICK m : m = made + 1
    OBVIOUS
  <2>3. Held(m)'
    BY <1>7, <2>2 DEF Held
  <2>4. Deliver("start", kind, m, u)
    BY <1>0, <2>2
  <2> QED
    BY <1>0, <2>1, <2>3, <2>4, DeliverGiven
<1>12. RightCallback'
  BY <1>0, SameCallback DEF StubAll
<1> QED
  BY <1>8, <1>9, <1>10, <1>11, <1>12 DEF StubRest

\* A record that is new in the lists: its index is below the owner's max, and above those before.
LEMMA RecordAdded ==
    ASSUME ListsInv, ConnOK, NEW n, n \in ConnRecords, recs' = recs \union {n},
           made' = made + 1, made < MaxMade,
           conn'.id = conn.id, conn'.kind = conn.kind, conn'.state = conn.state,
           \/ /\ subs' = subs /\ conn'.max = conn.max + 1
              /\ n.owner = conn.id /\ n.index = conn.max
           \/ \E s \in subs, t \in Subordinates :
              /\ conn'.max = conn.max
              /\ subs' = (subs \ {s}) \union {t}
              /\ t.id = s.id /\ t.max = s.max + 1
              /\ n.owner = s.id /\ n.index = s.max
    PROVE  ListsInv' /\ Ids(subs') = Ids(subs)
<1>0. made \in Nat /\ MaxMade \in Nat /\ conn.id \in Nat /\ conn.max \in Nat
  BY StubAssumption DEF ConnOK
<1>1. \A r \in recs : r.index \in Nat /\ r.owner \in Nat
  BY DEF ListsInv, ConnRecords
<1>2. \A s \in subs : s.id \in Nat /\ s.max \in Nat /\ conn.id < s.id
  BY DEF ListsInv, Subordinates
<1>3. CASE subs' = subs /\ conn'.max = conn.max + 1 /\ n.owner = conn.id /\ n.index = conn.max
  <2>1. Ids(subs') = Ids(subs)
    BY <1>3
  <2>2. IndicesDistinct'
    <3>1. \A r \in recs : ~ (r.owner = n.owner /\ r.index = n.index)
      BY <1>0, <1>1, <1>3 DEF ListsInv
    <3> QED
      BY <3>1 DEF ListsInv, IndicesDistinct
  <2>3. \A r \in recs' : r.owner \in {conn'.id} \union Ids(subs')
    BY <1>3, <2>1 DEF ListsInv
  <2>4. \A r \in recs' : r.owner = conn'.id => r.index < conn'.max
    BY <1>0, <1>1, <1>3 DEF ListsInv
  <2>5. \A r \in recs', s \in subs' : r.owner = s.id => r.index < s.max
    BY <1>0, <1>2, <1>3 DEF ListsInv
  <2>6. conn'.id + conn'.max <= made' /\ made' <= MaxMade /\ \A s \in subs' : s.id <= made'
    BY <1>0, <1>2, <1>3 DEF ListsInv
  <2> QED
    BY <1>3, <2>1, <2>2, <2>3, <2>4, <2>5, <2>6 DEF ListsInv
<1>4. CASE \E s \in subs, t \in Subordinates :
              /\ conn'.max = conn.max
              /\ subs' = (subs \ {s}) \union {t}
              /\ t.id = s.id /\ t.max = s.max + 1
              /\ n.owner = s.id /\ n.index = s.max
  <2> PICK s \in subs, t \in Subordinates :
              /\ conn'.max = conn.max
              /\ subs' = (subs \ {s}) \union {t}
              /\ t.id = s.id /\ t.max = s.max + 1
              /\ n.owner = s.id /\ n.index = s.max
    BY <1>4
  <2>1. Ids(subs') = Ids(subs)
    BY DEF Ids
  <2>2. IndicesDistinct'
    <3>1. \A r \in recs : ~ (r.owner = n.owner /\ r.index = n.index)
      BY <1>1, <1>2 DEF ListsInv
    <3> QED
      BY <3>1 DEF ListsInv, IndicesDistinct
  <2>3. \A r \in recs' : r.owner \in {conn'.id} \union Ids(subs')
    <3>1. s.id \in Ids(subs)
      BY DEF Ids
    <3> QED
      BY <2>1, <3>1 DEF ListsInv
  <2>4. \A r \in recs' : r.owner = conn'.id => r.index < conn'.max
    <3>1. n.owner # conn'.id
      BY <1>0, <1>2
    <3> QED
      BY <3>1 DEF ListsInv
  <2>5. \A r \in recs', x \in subs' : r.owner = x.id => r.index < x.max
    <3> SUFFICES ASSUME NEW r \in recs', NEW x \in subs', r.owner = x.id
                 PROVE  r.index < x.max
      OBVIOUS
    <3>1. CASE x = t
      <4>1. r = n \/ r.index < s.max
        BY <3>1 DEF ListsInv
      <4>2. r.index \in Nat
        BY <1>1 DEF ConnRecords
      <4> QED
        BY <1>2, <3>1, <4>1, <4>2
    <3>2. CASE x # t
      <4>1. x \in subs /\ x # s /\ r \in recs
        BY <3>2 DEF ListsInv
      <4> QED
        BY <4>1 DEF ListsInv
    <3> QED
      BY <3>1, <3>2
  <2>6. conn'.id + conn'.max <= made' /\ made' <= MaxMade
        /\ \A x \in subs' : conn'.id < x.id /\ x.id <= made'
    BY <1>0, <1>2 DEF ListsInv
  <2>7. \A x, y \in subs' : x.id = y.id => x = y
    BY DEF ListsInv
  <2>8. subs' \subseteq Subordinates /\ (subs' # {} => conn'.kind = "connection") /\ recs' \subseteq ConnRecords
    BY DEF ListsInv
  <2> QED
    BY <2>1, <2>2, <2>3, <2>4, <2>5, <2>6, <2>7, <2>8 DEF ListsInv
<1> QED
  BY <1>3, <1>4

LEMMA RegisterRest ==
    ASSUME MaxMade <= W * W, StubAll, RegisterRecord
    PROVE  StubRest'
<1>0. /\ conn.state # "none" /\ conn.kind = "connection" /\ made < MaxMade
      /\ conn' = [conn EXCEPT !.uid = Bump(@), !.max = @ + 1]
      /\ made' = made + 1 /\ subs' = subs /\ reader' = reader /\ peer' = peer
      /\ known' = known /\ stream' = stream
      /\ Deliver("record", "record", made + 1, Bump(conn.uid))
  BY DEF RegisterRecord
<1>1. ConnOK /\ made \in Nat /\ MaxMade \in Nat /\ conn.id \in Nat /\ conn.max \in Nat /\ conn.uid \in Uids
      /\ ListsInv
  BY StubAssumption DEF StubAll, StubInv, ConnOK
<1> PICK u : u = Bump(conn.uid)
  OBVIOUS
<1>2. u \in Uids
  BY <1>1, BumpUid
<1>3. conn'.id = conn.id /\ conn'.kind = conn.kind /\ conn'.max = conn.max + 1
      /\ conn'.state = conn.state /\ conn'.uid = u
  BY <1>0, <1>1 DEF ConnOK
<1> PICK n : n = NewRecord(conn.id, u, conn.max)
  OBVIOUS
<1>4. n \in ConnRecords /\ n.id = made + 1 /\ n.uid = u /\ n.owner = conn.id /\ n.index = conn.max
  BY <1>1, <1>2 DEF NewRecord, ConnRecords
<1>5. recs' = recs \union {n}
  BY DEF RegisterRecord
<1>6. ListsInv' /\ Ids(subs') = Ids(subs)
  BY <1>0, <1>1, <1>3, <1>4, <1>5, RecordAdded
<1>7. MailInv' /\ \A jd, v : Mailed(jd, v)' => Mailed(jd, v) \/ (jd = made + 1 /\ v = u)
  BY <1>0, <1>3, DeliverMail
<1>8. TagsInv'
  <2>1. \A id, v : Mine(id, v)' => Mine(id, v) \/ (id = made + 1 /\ v = u)
    BY <1>0, <1>3, <1>4, <1>5 DEF Mine
  <2>2. \A id, v : Tagged(id, v)' => Tagged(id, v) \/ (id = made + 1 /\ v = Bump(conn.uid))
    BY <1>7, <2>1 DEF Tagged
  <2>3. conn.id > 0
    BY <1>0, <1>1 DEF ListsInv
  <2> QED
    BY <1>0, <1>1, <1>3, <2>2, <2>3, TagsGrow DEF StubAll
<1>9. GivenUpIsCancelled'
  <2>1. \A jd : Held(jd) => Held(jd)'
    BY <1>3, <1>6 DEF Held
  <2>2. PICK m : m = made + 1
    OBVIOUS
  <2>3. Deliver("record", "record", m, u)
    BY <1>0, <2>2
  <2> QED
    BY <1>0, <2>1, <2>3, DeliverGiven
<1>10. RightCallback'
  BY <1>0, SameCallback DEF StubAll
<1> QED
  BY <1>6, <1>7, <1>8, <1>9, <1>10 DEF StubRest

LEMMA AddRest == ASSUME StubAll, AddRecord PROVE StubRest'
<1>0. /\ conn.state # "none" /\ made < MaxMade
      /\ made' = made + 1 /\ reader' = reader /\ peer' = peer /\ known' = known /\ stream' = stream
  BY DEF AddRecord
<1>1. ConnOK /\ made \in Nat /\ MaxMade \in Nat /\ conn.id \in Nat /\ conn.max \in Nat /\ <<0, 0>> \in Uids
      /\ ListsInv
  BY StubAssumption DEF StubAll, StubInv, ConnOK, Uids
<1> PICK m : m = made + 1
  OBVIOUS
<1>2. PICK n, u :
        /\ n \in ConnRecords /\ recs' = recs \union {n} /\ Deliver("record", "added", m, u)
        /\ conn'.id = conn.id /\ conn'.kind = conn.kind /\ conn'.state = conn.state /\ conn'.uid = conn.uid
        /\ \/ /\ subs' = subs /\ conn'.max = conn.max + 1 /\ conn.kind = "service"
              /\ n.owner = conn.id /\ n.index = conn.max
           \/ \E s \in subs, t \in Subordinates :
              /\ conn'.max = conn.max
              /\ subs' = (subs \ {s}) \union {t}
              /\ t.id = s.id /\ t.max = s.max + 1 /\ t.uid = s.uid
              /\ n.owner = s.id /\ n.index = s.max
  <2>1. CASE /\ conn.kind = "service"
             /\ conn' = [conn EXCEPT !.max = @ + 1]
             /\ recs' = recs \union {NewRecord(conn.id, <<0, 0>>, conn.max)}
             /\ Deliver("record", "added", made + 1, conn.uid)
             /\ UNCHANGED subs
    <3> PICK n : n = NewRecord(conn.id, <<0, 0>>, conn.max)
      OBVIOUS
    <3>1. n \in ConnRecords /\ n.owner = conn.id /\ n.index = conn.max
      BY <1>1 DEF NewRecord, ConnRecords
    <3>2. conn'.id = conn.id /\ conn'.kind = conn.kind /\ conn'.state = conn.state
          /\ conn'.uid = conn.uid /\ conn'.max = conn.max + 1
      BY <1>1, <2>1 DEF ConnOK
    <3>3. Deliver("record", "added", m, conn.uid) /\ recs' = recs \union {n} /\ subs' = subs
      BY <2>1
    <3> QED
      BY <2>1, <3>1, <3>2, <3>3
  <2>2. ASSUME NEW s \in subs, s.kind = "service",
               subs' = (subs \ {s}) \union {[s EXCEPT !.max = @ + 1]},
               recs' = recs \union {NewRecord(s.id, <<0, 0>>, s.max)},
               Deliver("record", "added", made + 1, s.uid), UNCHANGED conn
        PROVE  \E n, u :
        /\ n \in ConnRecords /\ recs' = recs \union {n} /\ Deliver("record", "added", m, u)
        /\ conn'.id = conn.id /\ conn'.kind = conn.kind /\ conn'.state = conn.state /\ conn'.uid = conn.uid
        /\ \E x \in subs, t \in Subordinates :
              /\ conn'.max = conn.max
              /\ subs' = (subs \ {x}) \union {t}
              /\ t.id = x.id /\ t.max = x.max + 1 /\ t.uid = x.uid
              /\ n.owner = x.id /\ n.index = x.max
    <3>0. s \in Subordinates /\ s.id \in Nat /\ s.max \in Nat
      BY <1>1, <2>2 DEF ListsInv, Subordinates
    <3> PICK n : n = NewRecord(s.id, <<0, 0>>, s.max)
      OBVIOUS
    <3>1. n \in ConnRecords /\ n.owner = s.id /\ n.index = s.max
      BY <1>1, <3>0 DEF NewRecord, ConnRecords
    <3> PICK t : t = [s EXCEPT !.max = @ + 1]
      OBVIOUS
    <3>2. t \in Subordinates /\ t.id = s.id /\ t.max = s.max + 1 /\ t.uid = s.uid
      BY <3>0 DEF Subordinates
    <3>3. Deliver("record", "added", m, s.uid) /\ recs' = recs \union {n} /\ conn' = conn
      BY <2>2
    <3>4. subs' = (subs \ {s}) \union {t}
      BY <2>2
    <3> QED
      BY <3>1, <3>2, <3>3, <3>4
  <2> QED
    BY <2>1, <2>2 DEF AddRecord
<1>3. ListsInv' /\ Ids(subs') = Ids(subs)
  BY <1>0, <1>1, <1>2, RecordAdded
<1>4. MailInv' /\ \A jd, v : Mailed(jd, v)' => Mailed(jd, v)
  BY <1>0, <1>2, DeliverMail DEF Talk
<1>5. TagsInv'
  <2>1. \A id, v : conn.kind = "connection" /\ Mine(id, v)' => Mine(id, v)
    <3> SUFFICES ASSUME NEW id, NEW v, conn.kind = "connection", Mine(id, v)'
                 PROVE  Mine(id, v)
      OBVIOUS
    <3>1. PICK s \in subs, t \in Subordinates :
              /\ subs' = (subs \ {s}) \union {t}
              /\ t.id = s.id /\ t.uid = s.uid
              /\ n.owner = s.id
      BY <1>2
    <3>2. n.owner # conn.id
      BY <1>1, <3>1 DEF ListsInv, Subordinates
    <3> QED
      BY <1>2, <3>1, <3>2 DEF Mine
  <2>2. CASE conn.kind = "connection"
    <3>1. \A id, v : Mine(id, v)' => Mine(id, v)
      BY <2>1, <2>2
    <3> QED
      BY <1>0, <1>1, <1>2, <1>4, <3>1, TagsKept DEF StubAll
  <2>3. CASE conn.kind # "connection"
    BY <1>2, <1>4, <2>3 DEF StubAll, TagsInv
  <2> QED
    BY <2>2, <2>3
<1>6. GivenUpIsCancelled'
  <2>1. \A jd : Held(jd) => Held(jd)'
    BY <1>2, <1>3 DEF Held
  <2> QED
    BY <1>0, <1>2, <2>1, DeliverGiven
<1>7. RightCallback'
  BY <1>0, SameCallback DEF StubAll
<1> QED
  BY <1>3, <1>4, <1>5, <1>6, <1>7 DEF StubRest

LEMMA AskRest == ASSUME StubAll, UpdateRecord \/ RemoveRecord PROVE StubRest'
<1>1. PICK call, op \in {"update", "remove"}, r \in recs, o \in {conn} \union subs :
        Deliver(call, op, r.id, o.uid)
  BY DEF UpdateRecord, RemoveRecord
<1>2. conn' = conn /\ subs' = subs /\ recs' = recs /\ made' = made /\ reader' = reader /\ peer' = peer
      /\ known' = known /\ stream' = stream
  BY DEF UpdateRecord, RemoveRecord
<1>3. conn.state # "none"
  BY <1>1 DEF StubAll, MailInv
<1>4. MailInv' /\ \A jd, v : Mailed(jd, v)' => Mailed(jd, v)
  BY <1>1, <1>2, <1>3, DeliverMail DEF Talk
<1>5. ListsInv'
  BY <1>2 DEF StubAll, ListsInv, IndicesDistinct, Ids
<1>6. TagsInv'
  <2>1. \A id, v : Mine(id, v)' => Mine(id, v)
    BY <1>2 DEF Mine
  <2>2. made' \in Nat /\ made' >= made
    BY <1>2 DEF StubAll, StubInv, ConnOK
  <2> QED
    BY <1>2, <1>4, <2>1, <2>2, TagsKept DEF StubAll, StubInv
<1>7. GivenUpIsCancelled'
  <2>1. \A jd : Held(jd) => Held(jd)'
    BY <1>2 DEF Held, Ids
  <2>2. op \notin {"lookup", "service"}
    OBVIOUS
  <2>3. PICK id, uid : id = r.id /\ uid = o.uid
    OBVIOUS
  <2>4. Deliver(call, op, id, uid)
    BY <1>1, <2>3
  <2> QED
    BY <1>2, <2>1, <2>2, <2>4, DeliverGiven
<1>8. RightCallback'
  BY <1>2, SameCallback DEF StubAll
<1> QED
  BY <1>4, <1>5, <1>6, <1>7, <1>8 DEF StubRest

\* The connection goes, and all that shares it.
LEMMA FreeConnectionRest ==
    ASSUME StubAll, FreeConnection, made' = made
    PROVE  StubRest'
<1>0. conn' = NoConn /\ subs' = {} /\ recs' = {} /\ peer' = "gone" /\ requests' = <<>>
      /\ known' = {} /\ stream' = <<>>
  BY DEF FreeConnection
<1>1. made \in Nat /\ made <= MaxMade
  BY DEF StubAll, StubInv, ConnOK, ListsInv
<1>2. ListsInv'
  BY <1>0, <1>1 DEF ListsInv, IndicesDistinct, NoConn
<1>3. MailInv'
  BY <1>0 DEF MailInv
<1>4. TagsInv'
  <2>1. \A id, uid : ~ Mailed(id, uid)'
    BY <1>0 DEF Mailed, KnownAs, RepliedAs, AskedAs
  <2> QED
    BY <1>0, <2>1 DEF TagsInv, NoConn
<1>5. GivenUpIsCancelled'
  BY <1>0 DEF GivenUpIsCancelled
<1>6. RightCallback'
  <2>1. reader' = reader \/ reader' = [reader EXCEPT !.more = FALSE]
    BY DEF FreeConnection
  <2>2. PICK pc, more, of, to, got, failed :
           reader = [pc |-> pc, of |-> of, more |-> more, to |-> to, got |-> got, failed |-> failed]
    BY DEF StubAll, StubInv, ReaderOK
  <2>3. reader'.pc = reader.pc /\ reader'.got = reader.got /\ reader'.to = reader.to
    BY <2>1, <2>2
  <2> QED
    BY <2>3, SameCallback DEF StubAll
<1> QED
  BY <1>2, <1>3, <1>4, <1>5, <1>6 DEF StubRest

\* A subordinate goes: what is asked for it is cancelled behind.
LEMMA FreeSubordinateRest ==
    ASSUME StubAll, NEW s \in subs, FreeSubordinate(s), made' = made
    PROVE  StubRest'
<1>0. /\ subs' = Without(subs, s.id) /\ recs' = recs \ Owned(s.id)
      /\ conn' = conn /\ reader' = reader /\ peer' = peer /\ known' = known /\ stream' = stream
      /\ requests' = IF peer = "up" THEN Append(requests, Request("cancel", s.id, s.uid)) ELSE requests
  BY DEF FreeSubordinate
<1>1. subs' = {x \in subs : x.id # s.id} /\ recs' = {r \in recs : r.owner # s.id}
  BY <1>0 DEF Without, Owned
<1>2. conn.state # "none" /\ ListsInv
  BY DEF StubAll, MailInv
<1> PICK id, uid : id = s.id /\ uid = s.uid
  OBVIOUS
<1> PICK q : q = Request("cancel", id, uid)
  OBVIOUS
<1>3. q.op = "cancel" /\ q.id = id /\ q.uid = uid
  BY RequestFields
<1>4. AtMostAppends(q) /\ (peer = "up" => requests' = Append(requests, q)) /\ (peer # "up" => requests' = requests)
  BY <1>0 DEF AtMostAppends
<1>5. \A x : x \in Ids(subs') <=> x \in Ids(subs) /\ x # id
  BY <1>1 DEF Ids
<1>6. ListsInv'
  <2>1. \A r \in recs' : r.owner \in {conn'.id} \union Ids(subs')
    <3> SUFFICES ASSUME NEW r \in recs'
                 PROVE  r.owner \in {conn'.id} \union Ids(subs')
      OBVIOUS
    <3>1. r \in recs /\ r.owner # id
      BY <1>1
    <3>2. r.owner \in {conn.id} \union Ids(subs)
      BY <1>2, <3>1 DEF ListsInv
    <3> QED
      BY <1>0, <1>5, <3>1, <3>2
  <2>2. recs' \subseteq recs /\ subs' \subseteq subs
    BY <1>1
  <2> QED
    BY <1>0, <1>2, <2>1, <2>2 DEF ListsInv, IndicesDistinct
<1>7. MailInv'
  <2>1. peer = "gone" => requests' = requests
    BY <1>4
  <2> QED
    BY <1>0, <1>2, <2>1 DEF StubAll, MailInv
<1>8. TagsInv'
  <2>1. \A jd, v : AskedAs(jd, v)' => AskedAs(jd, v)
    BY <1>3, <1>4, AppendedAs DEF StubAll, Talk
  <2>2. \A jd, v : Mailed(jd, v)' => Mailed(jd, v)
    BY <1>0, <2>1 DEF Mailed, KnownAs, RepliedAs
  <2>3. \A jd, v : Mine(jd, v)' => Mine(jd, v)
    BY <1>0, <1>1 DEF Mine
  <2>4. made' \in Nat /\ made' >= made
    BY DEF StubAll, StubInv, ConnOK
  <2> QED
    BY <1>0, <2>2, <2>3, <2>4, TagsKept DEF StubAll, StubInv
<1>9. GivenUpIsCancelled'
  <2>1. \A jd : Held(jd) => Held(jd)' \/ jd = id
    BY <1>0, <1>5 DEF Held
  <2>2. CASE peer = "up"
    <3>1. requests' = Append(requests, q) /\ q.op = "cancel"
      BY <1>3, <1>4, <2>2
    <3>2. \A jd : Held(jd) => Held(jd)' \/ (\E c : c = jd /\ requests' = Append(requests, q) /\ q.op = "cancel" /\ q.id = c)
      BY <1>3, <2>1, <3>1
    <3> QED
      BY <1>0, <1>4, <3>1, <3>2, GivenKept DEF StubAll
  <2>3. CASE peer # "up"
    <3>1. requests' = <<>> /\ known' = {}
      BY <1>0, <1>4, <2>3 DEF StubAll, MailInv
    <3> QED
      BY <3>1 DEF GivenUpIsCancelled
  <2> QED
    BY <2>2, <2>3
<1>10. RightCallback'
  BY <1>0, SameCallback DEF StubAll
<1> QED
  BY <1>6, <1>7, <1>8, <1>9, <1>10 DEF StubRest

\* Records go, or are marked as failed.
LEMMA FewerRecords ==
    ASSUME StubAll, UNCHANGED <<conn, subs, reader, unread>>, made' = made,
           \/ recs' \subseteq recs
           \/ RecordFailed
    PROVE  StubRest'
<1>0. conn' = conn /\ subs' = subs /\ reader' = reader /\ peer' = peer /\ requests' = requests
      /\ known' = known /\ stream' = stream
  BY DEF unread
<1>1. /\ ListsInv' /\ (recs = {} => recs' = {})
      /\ \A r \in recs' : \E o \in recs : o.id = r.id /\ o.uid = r.uid /\ o.owner = r.owner
  <2>1. CASE recs' \subseteq recs
    BY <1>0, <2>1 DEF StubAll, ListsInv, IndicesDistinct, Ids
  <2>2. CASE RecordFailed
    <3>1. PICK f : f = [r \in recs |-> IF r.id = wait.id THEN [r EXCEPT !.failed = TRUE] ELSE r]
      OBVIOUS
    <3>2. recs' = {f[r] : r \in recs}
      BY <2>2, <3>1 DEF RecordFailed
    <3>3. \A r \in recs : f[r] \in ConnRecords /\ f[r].id = r.id /\ f[r].uid = r.uid
                          /\ f[r].owner = r.owner /\ f[r].index = r.index
      BY <3>1 DEF StubAll, ListsInv, ConnRecords
    <3>4. IndicesDistinct'
      BY <3>2, <3>3 DEF StubAll, ListsInv, IndicesDistinct
    <3>5. \A r \in recs' : r.owner \in {conn'.id} \union Ids(subs')
      BY <1>0, <3>2, <3>3 DEF StubAll, ListsInv
    <3>6. /\ \A r \in recs' : r.owner = conn'.id => r.index < conn'.max
          /\ \A r \in recs', s \in subs' : r.owner = s.id => r.index < s.max
      BY <1>0, <3>2, <3>3 DEF StubAll, ListsInv
    <3>7. ListsInv'
      BY <1>0, <3>2, <3>3, <3>4, <3>5, <3>6 DEF StubAll, ListsInv
    <3> QED
      BY <3>2, <3>3, <3>7
  <2> QED
    BY <2>1, <2>2
<1>2. MailInv'
  BY <1>0, <1>1 DEF StubAll, MailInv
<1>3. TagsInv'
  <2>1. \A id, uid : Mailed(id, uid)' => Mailed(id, uid)
    BY <1>0 DEF Mailed, KnownAs, RepliedAs, AskedAs
  <2>2. \A id, uid : Mine(id, uid)' => Mine(id, uid)
    BY <1>0, <1>1 DEF Mine
  <2>3. made' \in Nat /\ made' >= made
    BY DEF StubAll, StubInv, ConnOK
  <2> QED
    BY <1>0, <2>1, <2>2, <2>3, TagsKept DEF StubAll, StubInv
<1>4. GivenUpIsCancelled'
  BY <1>0 DEF StubAll, GivenUpIsCancelled, Held, Ids, Cancelled
<1>5. RightCallback'
  BY <1>0, SameCallback DEF StubAll
<1> QED
  BY <1>1, <1>2, <1>3, <1>4, <1>5 DEF StubRest

LEMMA EndsRest == ASSUME StubAll, StubInv', RefDeallocate \/ CallReturns PROVE StubRest'
<1>0. made' = made
  BY DEF RefDeallocate, CallReturns
<1>1. CASE FreeConnection
  BY <1>0, <1>1, FreeConnectionRest
<1>2. CASE \E s \in subs : FreeSubordinate(s)
  BY <1>0, <1>2, FreeSubordinateRest
<1>3. CASE UNCHANGED <<conn, subs, reader, unread>> /\ (recs' \subseteq recs \/ RecordFailed)
  BY <1>0, <1>3, FewerRecords
<1>4. Without(recs, wait.id) \subseteq recs
  BY DEF Without
<1> QED
  BY <1>1, <1>2, <1>3, <1>4 DEF RefDeallocate, CallReturns, StartFailed, RecordFailed

\* A call gives up: the requests stay where they are.
LEMMA TimeOutRest == ASSUME StubAll, TimeOut PROVE StubRest'
<1>0. conn' = conn /\ subs' = subs /\ recs' = recs /\ made' = made /\ reader' = reader /\ peer' = peer
      /\ known' = known /\ stream' = stream
      /\ requests' = [i \in 1..Len(requests) |-> [requests[i] EXCEPT !.late = TRUE]]
  BY DEF TimeOut
<1>1. Len(requests) \in Nat /\ \A i \in 1..Len(requests) : IsRequest(requests[i])
  BY DEF StubAll, RequestInv, RequestsOK
<1> PICK t : t = requests'
  OBVIOUS
<1>2. ASSUME NEW i \in 1..Len(requests)
      PROVE  t[i].op = requests[i].op /\ t[i].id = requests[i].id /\ t[i].uid = requests[i].uid
  <2>1. PICK op, id, uid, late : requests[i] = [op |-> op, id |-> id, uid |-> uid, late |-> late]
    BY <1>1 DEF IsRequest
  <2>2. t[i] = [requests[i] EXCEPT !.late = TRUE]
    BY <1>0
  <2> QED
    BY <2>1, <2>2
<1>3. Len(t) = Len(requests)
  <2>1. t \in [1..Len(requests) -> {t[i] : i \in 1..Len(requests)}]
    BY <1>0
  <2>2. t \in Seq({t[i] : i \in 1..Len(requests)})
    BY <1>1, <2>1
  <2> QED
    BY <1>1, <2>1, <2>2
<1>4. \A id, uid : AskedAs(id, uid)' => AskedAs(id, uid)
  BY <1>2, <1>3 DEF AskedAs
<1>5. \A id, i : i \in 1..Len(requests) /\ Cancelled(id, i) => Cancelled(id, i)'
  <2> SUFFICES ASSUME NEW id, NEW i \in 1..Len(requests), Cancelled(id, i) PROVE Cancelled(id, i)'
    OBVIOUS
  <2>1. PICK j \in i..Len(requests) : requests[j].op = "cancel" /\ requests[j].id = id
    BY DEF Cancelled
  <2>2. j \in i..Len(t) /\ t[j].op = "cancel" /\ t[j].id = id
    BY <1>1, <1>2, <1>3, <2>1
  <2> QED
    BY <2>2 DEF Cancelled
<1>6. GivenUpIsCancelled'
  <2>1. \A id : Held(id)' <=> Held(id)
    BY <1>0 DEF Held, Ids
  <2>2. ASSUME NEW k \in known', k.op \in {"lookup", "service"}, ~ Held(k.id)'
        PROVE  Cancelled(k.id, 1)'
    <3>1. Cancelled(k.id, 1)
      BY <1>0, <2>1, <2>2 DEF StubAll, GivenUpIsCancelled
    <3>2. 1 \in 1..Len(requests)
      BY <1>1, <3>1 DEF Cancelled
    <3> QED
      BY <1>5, <3>1, <3>2
  <2>3. ASSUME NEW i \in 1..Len(requests'), NEW x, x = requests'[i],
               x.op \in {"lookup", "service"}, ~ Held(x.id)'
        PROVE  Cancelled(x.id, i)'
    <3>1. i \in 1..Len(requests) /\ requests[i].op = x.op /\ requests[i].id = x.id
      BY <1>2, <1>3, <2>3
    <3>2. Cancelled(x.id, i)
      BY <2>1, <2>3, <3>1 DEF StubAll, GivenUpIsCancelled
    <3> QED
      BY <1>5, <3>1, <3>2
  <2> QED
    BY <2>2, <2>3, GivenMeans
<1>7. TagsInv'
  <2>1. \A id, uid : Mailed(id, uid)' => Mailed(id, uid)
    BY <1>0, <1>4 DEF Mailed, KnownAs, RepliedAs
  <2>2. \A id, uid : Mine(id, uid)' => Mine(id, uid)
    BY <1>0 DEF Mine
  <2>3. made' \in Nat /\ made' >= made
    BY <1>0 DEF StubAll, StubInv, ConnOK
  <2> QED
    BY <1>0, <2>1, <2>2, <2>3, TagsKept DEF StubAll, StubInv
<1>8. MailInv'
  <2>1. requests = <<>> => requests' = <<>>
    BY <1>0, <1>1, <1>3
  <2> QED
    BY <1>0, <2>1 DEF StubAll, MailInv
<1>9. ListsInv'
  BY <1>0 DEF StubAll, ListsInv, IndicesDistinct, Ids
<1>10. RightCallback'
  BY <1>0, SameCallback DEF StubAll
<1> QED
  BY <1>6, <1>7, <1>8, <1>9, <1>10 DEF StubRest

LEMMA ReaderRest == ASSUME StubAll, StubInv', ProcessResult \/ ReadFails \/ CallbackReturns PROVE StubRest'
<1>1. UNCHANGED <<subs, recs, made, unread>>
  BY DEF ProcessResult, ReadFails, CallbackReturns
<1>2. RightCallback'
  <2>2. reader' = Idle \/ \E of : reader' = [Idle EXCEPT !.pc = "read", !.of = of]
    BY DEF ProcessResult, ReadFails, CallbackReturns
  <2>3. reader'.pc # "callback"
    <3>1. CASE reader' = Idle
      BY <3>1 DEF Idle
    <3>2. ASSUME NEW of, reader' = [Idle EXCEPT !.pc = "read", !.of = of]
          PROVE  reader'.pc # "callback"
      <4>1. reader' = [pc |-> "read", of |-> of, more |-> FALSE, to |-> 0, got |-> 0, failed |-> FALSE]
        BY <3>2 DEF Idle
      <4> QED
        BY <4>1
    <3> QED
      BY <2>2, <3>1, <3>2
  <2> QED
    BY <2>3 DEF RightCallback
<1>3. CASE conn' = conn
  BY <1>1, <1>2, <1>3, NothingMoves
<1>4. CASE ReadFails /\ conn' # conn
  <2>1. conn' = [conn EXCEPT !.state = "deaf"] /\ conn.id = reader.of /\ reader.pc = "read"
    BY <1>4 DEF ReadFails
  <2>2. conn.state = "open"
    BY <2>1 DEF StubAll, StubInv, ReaderHasConn
  <2>3. conn'.id = conn.id /\ conn'.kind = conn.kind /\ conn'.uid = conn.uid /\ conn'.max = conn.max
        /\ conn'.state = "deaf"
    BY <2>1 DEF StubAll, StubInv, ConnOK
  <2> QED
    BY <1>1, <1>2, <2>2, <2>3, NothingMoves
<1> QED
  BY <1>3, <1>4 DEF ProcessResult, CallbackReturns

\* Whoever has the uid of a reply is whom the reply was meant for.
LEMMA AddresseeRight ==
    ASSUME StubAll, NEW reply, RepliedAs(reply.id, reply.uid), Addressee(reply).id # 0
    PROVE  Addressee(reply).id = reply.id
<1>1. Mailed(reply.id, reply.uid) /\ Tagged(reply.id, reply.uid)
  BY DEF Mailed, Tagged
<1>2. CASE conn.kind # "connection"
  BY <1>1, <1>2 DEF Addressee, StubAll, TagsInv
<1>3. CASE conn.kind = "connection"
  <2> PICK of : of = IF reply.op = "record" THEN Owned(conn.id) ELSE subs
    OBVIOUS
  <2> PICK at : at = {x \in of : x.uid = reply.uid}
    OBVIOUS
  <2>1. \A x \in at : x.id = reply.id
    <3> SUFFICES ASSUME NEW x \in at PROVE x.id = reply.id
      OBVIOUS
    <3>1. Mine(x.id, reply.uid)
      BY DEF Mine, Owned
    <3>2. Tagged(x.id, reply.uid)
      BY <3>1 DEF Tagged
    <3> QED
      BY <1>1, <1>3, <3>2 DEF StubAll, TagsInv
  <2>2. CASE at = {}
    <3>1. Addressee(reply) = Nothing
      BY <1>3, <2>2 DEF Addressee
    <3> QED
      BY <3>1 DEF Nothing
  <2>3. CASE at # {}
    <3>1. \A x \in at : x.id \in Nat
      BY DEF Owned, StubAll, ListsInv, ConnRecords, Subordinates
    <3>2. PICK first : first = CHOOSE x \in at : \A y \in at : x.id <= y.id
      OBVIOUS
    <3>3. first \in at
      <4>1. \E x \in at : \A y \in at : x.id <= y.id
        BY <2>1, <2>3, <3>1
      <4> QED
        BY <3>2, <4>1
    <3>4. PICK b \in BOOLEAN : b <=> reply.op = "record" /\ first.failed
      OBVIOUS
    <3>5. Addressee(reply).id = first.id
      BY <1>3, <2>3, <3>2 DEF Addressee
    <3> QED
      BY <2>1, <3>3, <3>5
  <2> QED
    BY <2>2, <2>3
<1> QED
  BY <1>2, <1>3

LEMMA ReadReplyRest == ASSUME StubAll, ReadReply PROVE StubRest'
<1>0. conn' = conn /\ subs' = subs /\ recs' = recs /\ made' = made /\ wait' = wait /\ peer' = peer
      /\ requests' = requests /\ known' = known /\ stream' = Tail(stream) /\ stream # <<>> /\ reader.pc = "read"
  BY DEF ReadReply
<1> PICK S : S = {stream[i] : i \in 1..Len(stream)}
  OBVIOUS
<1>1. stream \in Seq(S)
  BY DEF StubAll, MailInv
<1>t. PICK t : t = Tail(stream)
  OBVIOUS
<1>2. /\ Head(stream) = stream[1] /\ 1 \in 1..Len(stream)
      /\ \A i \in 1..Len(t) : t[i] = stream[i + 1] /\ i + 1 \in 1..Len(stream)
      /\ t \in Seq(S)
  BY <1>0, <1>1, <1>t, TailFacts
<1>o. t \in Seq({t[i] : i \in 1..Len(t)})
  BY <1>2, OwnRange
<1>3. ListsInv' /\ MailInv'
  BY <1>0, <1>2, <1>o, <1>t DEF StubAll, ListsInv, IndicesDistinct, Ids, MailInv
<1>4. TagsInv'
  <2>1. \A id, uid : RepliedAs(id, uid)' => RepliedAs(id, uid)
    BY <1>0, <1>2 DEF RepliedAs
  <2>2. \A id, uid : Mailed(id, uid)' => Mailed(id, uid)
    BY <1>0, <2>1 DEF Mailed, KnownAs, AskedAs
  <2>3. \A id, uid : Mine(id, uid)' => Mine(id, uid)
    BY <1>0 DEF Mine
  <2>4. made' \in Nat /\ made' >= made
    BY <1>0 DEF StubAll, StubInv, ConnOK
  <2> QED
    BY <1>0, <2>2, <2>3, <2>4, TagsKept DEF StubAll, StubInv
<1>5. GivenUpIsCancelled'
  BY <1>0 DEF StubAll, GivenUpIsCancelled, Held, Ids, Cancelled
<1>6. RightCallback'
  <2> PICK reply : reply = Head(stream)
    OBVIOUS
  <2> PICK a : a = Addressee(reply)
    OBVIOUS
  <2>1. RepliedAs(reply.id, reply.uid)
    BY <1>2 DEF RepliedAs
  <2>2. a.id # 0 => a.id = reply.id
    BY <2>1, AddresseeRight
  <2> PICK more \in BOOLEAN : more <=> Len(stream) > 1 \/ peer = "gone"
    OBVIOUS
  <2>3. \/ /\ a.id # 0
           /\ reader' = [reader EXCEPT !.pc = "callback", !.more = (Len(stream) > 1 \/ peer = "gone"),
                                       !.to = reply.id, !.got = a.id, !.failed = a.failed]
        \/ reader' = reader \/ reader' = Idle
    BY DEF ReadReply
  <2>4. CASE reader' = reader \/ reader' = Idle
    BY <1>0, <2>4 DEF RightCallback, Idle
  <2>5. CASE /\ a.id # 0
             /\ reader' = [reader EXCEPT !.pc = "callback", !.more = (Len(stream) > 1 \/ peer = "gone"),
                                         !.to = reply.id, !.got = a.id, !.failed = a.failed]
    <3>1. PICK pc, m, of, to, got, failed :
             reader = [pc |-> pc, of |-> of, more |-> m, to |-> to, got |-> got, failed |-> failed]
      BY DEF StubAll, StubInv, ReaderOK
    <3>2. reader'.to = reply.id /\ reader'.got = a.id
      <4>1. PICK id, got2, f : id = reply.id /\ got2 = a.id /\ f = a.failed
        OBVIOUS
      <4>2. PICK m2 : m2 = (Len(stream) > 1 \/ peer = "gone")
        OBVIOUS
      <4>3. reader' = [pc |-> "callback", of |-> of, more |-> m2, to |-> id, got |-> got2, failed |-> f]
        BY <2>5, <3>1, <4>1, <4>2
      <4> QED
        BY <4>1, <4>3
    <3> QED
      BY <2>2, <2>5, <3>2 DEF RightCallback
  <2> QED
    BY <2>3, <2>4, <2>5
<1> QED
  BY <1>3, <1>4, <1>5, <1>6 DEF StubRest

\* The daemon reads a request: a cancel it has read takes what it cancels with it.
LEMMA DaemonReadsRest == ASSUME StubAll, DaemonReads PROVE StubRest'
<1>0. conn' = conn /\ subs' = subs /\ recs' = recs /\ made' = made /\ reader' = reader /\ peer' = peer
      /\ stream' = stream /\ requests # <<>> /\ requests' = Tail(requests)
  BY DEF DaemonReads
<1> PICK S : S = {requests[i] : i \in 1..Len(requests)}
  OBVIOUS
<1>1. requests \in Seq(S) /\ Len(requests) \in Nat
  BY DEF StubAll, RequestInv, RequestsOK
<1> PICK q : q = Head(requests)
  OBVIOUS
<1>t. PICK t : t = Tail(requests)
  OBVIOUS
<1>2. /\ q = requests[1] /\ 1 \in 1..Len(requests)
      /\ \A i \in 1..Len(t) : t[i] = requests[i + 1] /\ i + 1 \in 1..Len(requests)
      /\ \A i \in 1..Len(requests) : i # 1 => i - 1 \in 1..Len(t) /\ t[i - 1] = requests[i]
      /\ t \in Seq(S)
  BY <1>0, <1>1, <1>t, TailFacts
<1>s. t \in Seq(S)
  BY <1>2
<1>o. t \in Seq({t[i] : i \in 1..Len(t)})
  BY <1>s, OwnRange
<1>a. requests' = t
  BY <1>0, <1>t
<1>3. \/ /\ q.op \in {"lookup", "service", "record", "added", "connection"}
         /\ known' = known \union {Work(q)}
      \/ q.op \in {"cancel", "remove"} /\ known' = {k \in known : k.id # q.id}
      \/ q.op # "cancel" /\ known' = known
  BY DEF DaemonReads
<1>4. Work(q).id = q.id /\ Work(q).uid = q.uid /\ Work(q).op = q.op
  BY DEF Work
<1>5. \A id, i : i \in 2..Len(requests) /\ Cancelled(id, i) => Cancelled(id, i - 1)'
  <2> SUFFICES ASSUME NEW id, NEW i \in 2..Len(requests), Cancelled(id, i) PROVE Cancelled(id, i - 1)'
    OBVIOUS
  <2>1. PICK j \in i..Len(requests) : requests[j].op = "cancel" /\ requests[j].id = id
    BY DEF Cancelled
  <2>2. j \in 1..Len(requests) /\ j # 1
    BY <1>1, <2>1
  <2>3. j - 1 \in 1..Len(t) /\ t[j - 1] = requests[j]
    BY <1>2, <2>2
  <2>4. j - 1 \in (i - 1)..Len(t)
    BY <1>1, <2>1, <2>3
  <2>5. PICK n : n = j - 1
    OBVIOUS
  <2>6. n \in (i - 1)..Len(t) /\ t[n].op = "cancel" /\ t[n].id = id
    BY <2>1, <2>3, <2>4, <2>5
  <2> QED
    BY <1>a, <2>6 DEF Cancelled
<1>6. \A id : Cancelled(id, 1) /\ ~ (q.op = "cancel" /\ q.id = id) => Cancelled(id, 1)'
  <2> SUFFICES ASSUME NEW id, Cancelled(id, 1), ~ (q.op = "cancel" /\ q.id = id) PROVE Cancelled(id, 1)'
    OBVIOUS
  <2>1. PICK j \in 1..Len(requests) : requests[j].op = "cancel" /\ requests[j].id = id
    BY DEF Cancelled
  <2>2. j # 1
    BY <1>2, <2>1
  <2>3. j - 1 \in 1..Len(t) /\ t[j - 1] = requests[j]
    BY <1>2, <2>1, <2>2
  <2>4. PICK n : n = j - 1
    OBVIOUS
  <2>5. n \in 1..Len(t) /\ t[n].op = "cancel" /\ t[n].id = id
    BY <2>1, <2>3, <2>4
  <2> QED
    BY <1>a, <2>5 DEF Cancelled
<1>7. \A id : Held(id)' <=> Held(id)
  BY <1>0 DEF Held, Ids
<1>8. GivenUpIsCancelled'
  <2>1. ASSUME NEW k \in known', k.op \in {"lookup", "service"}, ~ Held(k.id)'
        PROVE  Cancelled(k.id, 1)'
    <3>1. Cancelled(k.id, 1)
      <4>1. CASE k \in known
        BY <1>7, <2>1, <4>1 DEF StubAll, GivenUpIsCancelled
      <4>2. CASE k \notin known
        <5>1. k.id = q.id /\ k.op = q.op
          BY <1>3, <1>4, <4>2
        <5> QED
          BY <1>2, <1>7, <2>1, <5>1 DEF StubAll, GivenUpIsCancelled
      <4> QED
        BY <4>1, <4>2
    <3>2. ~ (q.op = "cancel" /\ q.id = k.id)
      BY <1>3
    <3> QED
      BY <1>6, <3>1, <3>2
  <2>2. ASSUME NEW i \in 1..Len(requests'), NEW x, x = requests'[i],
               x.op \in {"lookup", "service"}, ~ Held(x.id)'
        PROVE  Cancelled(x.id, i)'
    <3>1. x = requests[i + 1] /\ i + 1 \in 1..Len(requests) /\ i \in Nat /\ i > 0
      BY <1>2, <1>a, <2>2
    <3>2. Cancelled(x.id, i + 1)
      BY <1>7, <2>2, <3>1 DEF StubAll, GivenUpIsCancelled
    <3>3. PICK n : n = i + 1
      OBVIOUS
    <3>4. n \in 2..Len(requests) /\ n - 1 = i
      BY <1>1, <3>1, <3>3
    <3>5. Cancelled(x.id, n - 1)'
      BY <1>5, <3>2, <3>3, <3>4
    <3> QED
      BY <3>4, <3>5
  <2> QED
    BY <2>1, <2>2, GivenMeans
<1>9. TagsInv'
  <2>1. \A id, uid : AskedAs(id, uid)' => AskedAs(id, uid)
    <3> SUFFICES ASSUME NEW id, NEW uid, AskedAs(id, uid)' PROVE AskedAs(id, uid)
      OBVIOUS
    <3>1. PICK i \in 1..Len(t) : t[i].op \in Talk /\ t[i].id = id /\ t[i].uid = uid
      BY <1>a DEF AskedAs
    <3>2. PICK n : n = i + 1
      OBVIOUS
    <3>3. n \in 1..Len(requests) /\ t[i] = requests[n]
      BY <1>2, <3>2
    <3> QED
      BY <3>1, <3>3 DEF AskedAs
  <2>2. \A id, uid : KnownAs(id, uid)' => KnownAs(id, uid) \/ AskedAs(id, uid)
    <3> SUFFICES ASSUME NEW id, NEW uid, KnownAs(id, uid)' PROVE KnownAs(id, uid) \/ AskedAs(id, uid)
      OBVIOUS
    <3>1. PICK k \in known' : k.op \in Talk /\ k.id = id /\ k.uid = uid
      BY DEF KnownAs
    <3>2. k \in known \/ k = Work(q)
      BY <1>3
    <3> QED
      BY <1>2, <1>4, <3>1, <3>2 DEF KnownAs, AskedAs
  <2>3. \A id, uid : Mailed(id, uid)' => Mailed(id, uid)
    BY <1>0, <2>1, <2>2 DEF Mailed, RepliedAs
  <2>4. \A id, uid : Mine(id, uid)' => Mine(id, uid)
    BY <1>0 DEF Mine
  <2>5. made' \in Nat /\ made' >= made
    BY <1>0 DEF StubAll, StubInv, ConnOK
  <2> QED
    BY <1>0, <2>3, <2>4, <2>5, TagsKept DEF StubAll, StubInv
<1>10. MailInv'
  BY <1>0 DEF StubAll, MailInv
<1>11. ListsInv'
  BY <1>0 DEF StubAll, ListsInv, IndicesDistinct, Ids
<1>12. RightCallback'
  BY <1>0, SameCallback DEF StubAll
<1> QED
  BY <1>8, <1>9, <1>10, <1>11, <1>12 DEF StubRest

LEMMA DaemonRest == ASSUME StubAll, DaemonReplies \/ DaemonDies PROVE StubRest'
<1>0. conn' = conn /\ subs' = subs /\ recs' = recs /\ made' = made /\ reader' = reader
  BY DEF DaemonReplies, DaemonDies
<1>1. ListsInv' /\ RightCallback'
  BY <1>0, SameCallback DEF StubAll, ListsInv, IndicesDistinct, Ids
<1>2. made' \in Nat /\ made' >= made
  BY <1>0 DEF StubAll, StubInv, ConnOK
<1>3. \A id, uid : Mine(id, uid)' => Mine(id, uid)
  BY <1>0 DEF Mine
<1>4. CASE DaemonDies
  <2>1. requests' = <<>> /\ known' = {} /\ stream' = stream /\ peer' = "gone"
    BY <1>4 DEF DaemonDies
  <2>2. \A id, uid : Mailed(id, uid)' => Mailed(id, uid)
    BY <2>1 DEF Mailed, KnownAs, RepliedAs, AskedAs
  <2>3. TagsInv'
    BY <1>0, <1>2, <1>3, <2>2, TagsKept DEF StubAll, StubInv
  <2>4. MailInv' /\ GivenUpIsCancelled'
    BY <1>0, <2>1 DEF StubAll, MailInv, GivenUpIsCancelled
  <2> QED
    BY <1>1, <2>3, <2>4 DEF StubRest
<1>5. CASE DaemonReplies
  <2>0. PICK k \in known : k.op \in Talk /\ stream' = Append(stream, [op |-> k.op, uid |-> k.uid, id |-> k.id])
    BY <1>5 DEF DaemonReplies, Talk
  <2> PICK x : x = [op |-> k.op, uid |-> k.uid, id |-> k.id]
    OBVIOUS
  <2>1. x.id = k.id /\ x.uid = k.uid
    OBVIOUS
  <2>2. requests' = requests /\ known' = known /\ peer' = peer /\ peer = "up"
    BY <1>5 DEF DaemonReplies
  <2> PICK S : S = {stream[i] : i \in 1..Len(stream)}
    OBVIOUS
  <2>3. stream \in Seq(S)
    BY DEF StubAll, MailInv
  <2>t. PICK t : t = Append(stream, x)
    OBVIOUS
  <2>4. /\ Len(t) = Len(stream) + 1
        /\ \A i \in 1..Len(stream) : t[i] = stream[i]
        /\ t[Len(stream) + 1] = x
        /\ \A i \in 1..Len(t) : i \in 1..Len(stream) \/ i = Len(stream) + 1
        /\ t \in Seq(S \cup {x})
    BY <2>3, <2>t, AppendFacts
  <2>o. t \in Seq({t[i] : i \in 1..Len(t)})
    BY <2>4, OwnRange
  <2>a. stream' = t
    BY <2>0, <2>t
  <2>5. \A id, uid : RepliedAs(id, uid)' => RepliedAs(id, uid) \/ KnownAs(id, uid)
    <3> SUFFICES ASSUME NEW id, NEW uid, RepliedAs(id, uid)' PROVE RepliedAs(id, uid) \/ KnownAs(id, uid)
      OBVIOUS
    <3>1. PICK i \in 1..Len(t) : t[i].id = id /\ t[i].uid = uid
      BY <2>a DEF RepliedAs
    <3>2. i \in 1..Len(stream) \/ t[i] = x
      BY <2>4
    <3> QED
      BY <2>0, <2>1, <2>4, <3>1, <3>2 DEF RepliedAs, KnownAs
  <2>6. \A id, uid : Mailed(id, uid)' => Mailed(id, uid)
    BY <2>2, <2>5 DEF Mailed, KnownAs, AskedAs
  <2>7. TagsInv'
    BY <1>0, <1>2, <1>3, <2>6, TagsKept DEF StubAll, StubInv
  <2>8. conn.state # "none"
    BY <2>2 DEF StubAll, MailInv
  <2>9. MailInv'
    BY <1>0, <2>2, <2>4, <2>8, <2>a DEF StubAll, MailInv
  <2>10. GivenUpIsCancelled'
    BY <1>0, <2>2 DEF StubAll, GivenUpIsCancelled, Held, Ids, Cancelled
  <2> QED
    BY <1>1, <2>7, <2>9, <2>10 DEF StubRest
<1> QED
  BY <1>4, <1>5

LEMMA StubAllInit == StubInit => StubAll
<1> SUFFICES ASSUME StubInit PROVE StubAll
  OBVIOUS
<1>1. conn = NoConn /\ subs = {} /\ recs = {} /\ made = 0 /\ reader = Idle /\ peer = "gone"
      /\ requests = <<>> /\ known = {} /\ stream = <<>>
  BY DEF StubInit
<1>2. MaxMade \in Nat
  BY StubAssumption
<1>3. ListsInv
  BY <1>1, <1>2 DEF ListsInv, IndicesDistinct, NoConn
<1>4. MailInv
  BY <1>1 DEF MailInv
<1>5. TagsInv
  BY <1>1 DEF TagsInv, Mailed, KnownAs, RepliedAs, AskedAs, NoConn
<1>6. GivenUpIsCancelled /\ RightCallback
  BY <1>1 DEF GivenUpIsCancelled, RightCallback, Idle
<1> QED
  BY <1>3, <1>4, <1>5, <1>6, StubInitInv, RequestInitInv DEF StubAll

LEMMA StubAllStep == ASSUME MaxMade <= W * W PROVE StubAll /\ [StubNext]_stubVars => StubAll'
<1> SUFFICES ASSUME StubAll, [StubNext]_stubVars PROVE StubAll'
  OBVIOUS
<1>1. StubInv' /\ RequestInv'
  BY StubNextInv, RequestNextInv DEF StubAll
<1>2. StubRest'
  <2>2. CASE CreateConnection
    BY <2>2, ConnectRest DEF CreateConnection
  <2>3. CASE \E kind \in {"lookup", "service"} : Start(kind)
    BY <2>3, ConnectRest, ShareRest DEF Start
  <2>4. CASE RegisterRecord \/ AddRecord \/ UpdateRecord \/ RemoveRecord
    BY <2>4, RegisterRest, AddRest, AskRest
  <2>5. CASE RefDeallocate \/ CallReturns
    BY <1>1, <2>5, EndsRest
  <2>6. CASE TimeOut \/ ReadReply
    BY <2>6, TimeOutRest, ReadReplyRest
  <2>7. CASE ProcessResult \/ ReadFails \/ CallbackReturns
    BY <1>1, <2>7, ReaderRest
  <2>8. CASE DaemonReads \/ DaemonReplies \/ DaemonDies
    BY <2>8, DaemonReadsRest, DaemonRest
  <2>9. CASE UNCHANGED stubVars
    <3>1. conn' = conn /\ UNCHANGED <<subs, recs, made, unread>> /\ reader' = reader
      BY <2>9 DEF stubVars, unread
    <3>2. RightCallback'
      BY <3>1, SameCallback DEF StubAll
    <3> QED
      BY <1>1, <3>1, <3>2, NothingMoves
  <2> QED
    BY <2>2, <2>3, <2>4, <2>5, <2>6, <2>7, <2>8, <2>9
    DEF StubNext, DNSServiceResolve, DNSServiceQueryRecord, DNSServiceGetAddrInfo, DNSServiceBrowse,
        DNSServiceRegister, DNSServiceEnumerateDomains, DNSServiceNATPortMappingCreate
<1> QED
  BY <1>1, <1>2 DEF StubAll, StubRest

LEMMA StubAllImplies == StubAll => StubSafe
<1> SUFFICES ASSUME StubAll PROVE StubSafe
  OBVIOUS
<1>1. LoopIsLive
  BY DEF StubAll, StubInv, ReaderHasConn, LoopIsLive
<1>2. wait.call # "none" => reader.pc # "read"
  BY DEF StubAll, StubInv, NobodyWaits, NoWait
<1>3. conn.id \in 0..MaxMade /\ conn.max \in 0..MaxMade
  BY StubAssumption DEF StubAll, StubInv, ConnOK, ListsInv
<1>4. StubTypeOK
  BY <1>2, <1>3 DEF StubAll, StubInv, ConnOK, ListsInv, MailInv, StubTypeOK
<1> QED
  BY <1>1, <1>4 DEF StubAll, ListsInv, StubSafe

(***************************************************************************)
(* As long as no more operations and records are made than there are uids  *)
(* (2^64 of them in dnssd_clientstub.c:544, 1935, where the low word       *)
(* carries into the high one), every reply goes to whom it was meant for,  *)
(* whatever was cancelled and started while it was under way; the records  *)
(* of an owner keep apart; and what a client gave up does not stay with    *)
(* the daemon.                                                             *)
(***************************************************************************)
THEOREM StubCorrect == ASSUME MaxMade <= W * W PROVE StubSpec => []StubSafe
<1>1. StubInit => StubAll
  BY StubAllInit
<1>2. StubAll /\ [StubNext]_stubVars => StubAll'
  BY StubAllStep
<1>3. StubAll => StubSafe
  BY StubAllImplies
<1> QED
  BY <1>1, <1>2, <1>3, PTL DEF StubSpec

-----------------------------------------------------------------------------
(***************************************************************************)
(* BonjourPublisher                                                        *)
(***************************************************************************)
PublisherInv ==
    /\ dnssRef \in BOOLEAN /\ notifier \in BOOLEAN
    /\ daemon \in {"none", "asked", "registered", "withdrawn"}
    /\ PublisherSafe

LEMMA CleanUpOK ==
    ASSUME CleanUpRegistration, believed' \in {"nothing", "failed"}
    PROVE  PublisherInv'
  BY DEF CleanUpRegistration, PublisherInv, PublisherSafe, RegistrationHeld, PublishedExists

LEMMA PublisherStep ==
    ASSUME PublisherInv, [PublisherNext]_publisherVars
    PROVE  PublisherInv'
<1>1. CASE startServicePublish
  <2>1. CASE dnssRef /\ believed' = "failed" /\ UNCHANGED <<dnssRef, notifier, daemon>>
    BY <2>1 DEF PublisherInv, PublisherSafe, RegistrationHeld, PublishedExists
  <2>2. CASE dnssRef' = TRUE /\ notifier' = TRUE /\ daemon' = "asked" /\ believed' = "waiting"
    BY <2>2 DEF PublisherInv, PublisherSafe, RegistrationHeld, PublishedExists
  <2>3. CASE CleanUpRegistration /\ believed' = "failed"
    BY <2>3, CleanUpOK
  <2> QED
    BY <1>1, <2>1, <2>2, <2>3 DEF startServicePublish
<1>2. CASE stopServicePublish \/ RegisterFails
  BY <1>2, CleanUpOK DEF stopServicePublish, RegisterFails
<1>3. CASE RegisterReply
  BY <1>3 DEF RegisterReply, PublisherInv, PublisherSafe, RegistrationHeld, PublishedExists
<1>4. CASE UNCHANGED publisherVars
  BY <1>4 DEF publisherVars, PublisherInv, PublisherSafe, RegistrationHeld, PublishedExists
<1> QED
  BY <1>1, <1>2, <1>3, <1>4 DEF PublisherNext

(***************************************************************************)
(* Whatever the daemon answers and however often, it keeps a registration  *)
(* exactly while there is a reference to it whose answers are read, and    *)
(* who was told that the service is published has one (bonjour.cpp).       *)
(***************************************************************************)
THEOREM PublisherCorrect == PublisherSpec => []PublisherSafe
<1>1. PublisherInit => PublisherInv
  BY DEF PublisherInit, PublisherInv, PublisherSafe, RegistrationHeld, PublishedExists
<1>2. PublisherInv /\ [PublisherNext]_publisherVars => PublisherInv'
  BY PublisherStep
<1>3. PublisherInv => PublisherSafe
  BY DEF PublisherInv
<1> QED
  BY <1>1, <1>2, <1>3, PTL DEF PublisherSpec

=============================================================================
