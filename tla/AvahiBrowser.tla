---------------------------- MODULE AvahiBrowser ----------------------------
(***************************************************************************)
(* QZeroConf's browser over avahi-core (avahicore.cpp; avahiclient.cpp has *)
(* the same text over the client library).  One resolver per key; it runs  *)
(* as long as the service is announced, and its results add the service,   *)
(* renew it or remove it.                                                  *)
(*                                                                         *)
(* A key is a name and an interface number written one after the other, so *)
(* two services can have the same: KeyOf need not be injective.            *)
(***************************************************************************)
EXTENDS FiniteSets

CONSTANTS
    Instances,     \* the services on the network
    Keys, KeyOf,   \* name + QString::number(interface)
    Browsers,      \* BOUND: the Avahi browsers made
    NoBrowser

ASSUME AvahiAssumption ==
    /\ KeyOf \in [Instances -> Keys]
    /\ NoBrowser \notin Browsers

VARIABLES
    server,        \* BOOLEAN: avahi_server_new succeeded
    browser,       \* pri->browser
    running,       \* the browsers Avahi runs
    known,         \* what each of them has reported and not withdrawn
    resolvers,     \* pri->resolvers: "none", "null" or "running" at each key
    services,      \* the keys of pub->services
    told,          \* by the signals: added and not removed since
    startedTwice,  \* BOOLEAN: a browser was started while one was in use
    aborted        \* BOOLEAN: an assertion of Avahi has ended the process

avahiVars == <<server, browser, running, known, resolvers, services, told,
               startedTwice, aborted>>

Idle == [b \in Browsers |-> {}]
NoResolvers == [k \in Keys |-> "none"]

AvahiInit ==
    /\ server \in BOOLEAN
    /\ browser = NoBrowser
    /\ running = {}
    /\ known = Idle
    /\ resolvers = NoResolvers
    /\ services = {}
    /\ told = {}
    /\ startedTwice = FALSE
    /\ aborted = FALSE

\* What the process leaves behind when it ends is of no account.
Abort == /\ aborted' = TRUE
         /\ UNCHANGED <<server, browser, running, known, resolvers, services,
                        told, startedTwice>>

(***************************************************************************)
(* startBrowser reports that a browser exists and goes on.                 *)
(***************************************************************************)
startBrowser ==
    IF server
      THEN /\ startedTwice' = (startedTwice \/ browser # NoBrowser)
           /\ \/ \E b \in Browsers \ running :
                    /\ browser' = b
                    /\ running' = running \union {b}
              \/ browser' = NoBrowser /\ UNCHANGED running
           /\ UNCHANGED <<server, known, resolvers, services, told, aborted>>
      ELSE Abort

\* Mistake: the services are reported removed and stay listed.
cleanUpKeepsServices ==
    /\ browser # NoBrowser
    /\ browser' = NoBrowser
    /\ running' = running \ {browser}
    /\ known' = [known EXCEPT ![browser] = {}]
    /\ told' = told \ services
    /\ resolvers' = NoResolvers
    /\ UNCHANGED <<server, services, startedTwice, aborted>>

\* Frees the browser, reports every service removed, frees the resolvers.
broswerCleanUp ==
    IF browser = NoBrowser
      THEN UNCHANGED avahiVars
      ELSE IF \E k \in Keys : resolvers[k] = "null"
      THEN Abort
      ELSE /\ browser' = NoBrowser
           /\ running' = running \ {browser}
           /\ known' = [known EXCEPT ![browser] = {}]
           /\ told' = told \ services
           /\ services' = {}
           /\ resolvers' = NoResolvers
           /\ UNCHANGED <<server, startedTwice, aborted>>

stopBrowser == broswerCleanUp

(***************************************************************************)
(* browseCallback, one action per event.                                   *)
(***************************************************************************)
BrowserFailure(b) == b \in running /\ broswerCleanUp

\* AVAHI_BROWSER_NEW; the resolver is made, or the null pointer is kept.
BrowserNew(b, i) ==
    /\ b \in running /\ i \notin known[b]
    /\ known' = [known EXCEPT ![b] = @ \union {i}]
    /\ IF resolvers[KeyOf[i]] = "none"
         THEN \E r \in {"running", "null"} :
                 resolvers' = [resolvers EXCEPT ![KeyOf[i]] = r]
         ELSE UNCHANGED resolvers
    /\ UNCHANGED <<server, browser, running, services, told, startedTwice,
                   aborted>>

Withdraw(b, i) ==
    /\ known' = [known EXCEPT ![b] = @ \ {i}]
    /\ UNCHANGED <<server, browser, running>>

\* AVAHI_BROWSER_REMOVE
BrowserRemove(b, i) ==
    /\ b \in running /\ i \in known[b]
    /\ \/ /\ resolvers[KeyOf[i]] = "none"
          /\ Withdraw(b, i)
          /\ UNCHANGED <<resolvers, services, told, startedTwice, aborted>>
       \/ resolvers[KeyOf[i]] = "null" /\ Abort
       \/ /\ resolvers[KeyOf[i]] = "running"
          /\ Withdraw(b, i)
          /\ resolvers' = [resolvers EXCEPT ![KeyOf[i]] = "none"]
          /\ services' = services \ {KeyOf[i]}
          /\ told' = IF KeyOf[i] \in services THEN told \ {KeyOf[i]} ELSE told
          /\ UNCHANGED <<startedTwice, aborted>>

(***************************************************************************)
(* resolveCallback                                                         *)
(***************************************************************************)
ResolverFound(k) ==
    /\ resolvers[k] = "running"
    /\ services' = services \union {k}
    /\ told' = IF k \in services THEN told ELSE told \union {k}
    /\ UNCHANGED <<server, browser, running, known, resolvers,
                   startedTwice, aborted>>

\* Mistake: the service leaves the list and nobody is told.
ResolverFailureSilent(k) ==
    /\ resolvers[k] = "running"
    /\ k \in services
    /\ services' = services \ {k}
    /\ UNCHANGED <<server, browser, running, known, resolvers, told,
                   startedTwice, aborted>>

\* The service leaves the list, its resolver stays.
ResolverFailure(k) ==
    /\ resolvers[k] = "running"
    /\ k \in services
    /\ services' = services \ {k}
    /\ told' = told \ {k}
    /\ UNCHANGED <<server, browser, running, known, resolvers,
                   startedTwice, aborted>>

AvahiNext ==
    /\ ~aborted
    /\ \/ startBrowser
       \/ stopBrowser
       \/ \E b \in Browsers : BrowserFailure(b)
       \/ \E b \in Browsers, i \in Instances :
             BrowserNew(b, i) \/ BrowserRemove(b, i)
       \/ \E k \in Keys : ResolverFound(k) \/ ResolverFailure(k)

AvahiSpec == AvahiInit /\ [][AvahiNext]_avahiVars

(***************************************************************************)
(* Properties                                                              *)
(***************************************************************************)

\* Every variable keeps to its values, and a browser in use is one Avahi runs.
AvahiTypeOK ==
    /\ {server, startedTwice, aborted} \subseteq BOOLEAN
    /\ running \subseteq Browsers
    /\ browser \in running \union {NoBrowser}
    /\ known \in [Browsers -> SUBSET Instances]
    /\ resolvers \in [Keys -> {"none", "null", "running"}]
    /\ services \subseteq Keys /\ told \subseteq Keys

\* A listed service has its resolver, so that BROWSER_REMOVE, which returns
\* early when there is none, cannot miss a listed service.
ListedResolved == \A k \in services : resolvers[k] = "running"

\* No resolver outlives what announced it: whatever was withdrawn while it was
\* being resolved is not added to the list later.
ResolversAnnounced ==
    \A k \in Keys : resolvers[k] # "none" =>
        \E b \in running : \E i \in known[b] : KeyOf[i] = k

OwnKey(i) == \A j \in Instances : KeyOf[j] = KeyOf[i] => j = i

\* While one browser was in use at a time, an announced service is being
\* resolved, or its resolver could not be made (a null one is kept at its key),
\* unless another one has the same key: its removal then frees the resolver of
\* both.
AnnouncedResolved ==
    ~startedTwice /\ browser # NoBrowser =>
        \A i \in known[browser] :
            OwnKey(i) => resolvers[KeyOf[i]] # "none"

\* The signals say what QZeroConf promises, until the user starts a browser
\* while one is in use: that ends the directory.
Directory == INSTANCE ServiceDirectory WITH
                 browsing <- browser # NoBrowser /\ ~startedTwice,
                 listed <- IF startedTwice THEN {} ELSE told
ImplementsDirectory == Directory!DirSpec

\* Resolvers, services and what Avahi has announced agree (avahicore.cpp:124-191).
AvahiSafe == AvahiTypeOK /\ ListedResolved /\ ResolversAnnounced /\ AnnouncedResolved

=============================================================================
