# A verification project for WinGretio

WinGretio is a J2534 pass thru library: a diagnostic program (the *host*) loads
it, and every pass thru function it calls is forwarded as a JSON message over a
websocket to a Gretio device, found on the network by DNS service discovery.
This directory holds TLA+ models of it and of the service discovery libraries it
carries (QZeroConf, avahi-core, avahi-common, the Bonjour client stub), the TLC
runs that check them, and TLAPS proofs.

## 1. The system

| part | state | operations |
|---|---|---|
| Pass thru functions, `J2534.cpp` | the global `context`, `app`, `lastError` | `PassThruOpen` makes a context and waits for a login; the other functions send one request each and wait for its answer; `PassThruClose` deletes the context |
| Web context, `gretiowebcontext.cpp` | `connectionStatus`, `cseq`, and the nested event loops that wait | connects the signals of the parts below (constructor), `sendReceiveCseq`, `waitForOpen`, `closed` |
| Websocket client, `gretiowebsocketclient.cpp` | the socket, the slots connected to it | `connectNow`, `close`, `onConnected`, `onMessageReceived`, `onSslErrors`, `writeMessage`, `ping` |
| Login handler, `gretioauthhandler.cpp` | `authComplete`, `token`, `pubkey`, the file `servertoken.json` | `onConnected`, `inputMessage` (six branches), `getTokenForKey`, `addToken` |
| Main window, `gretiomainwindow.cpp` | page, visibility, table of services | `showDiscovery`, `showAuthWidget`, `showError`, `addService`, `checkUrl`, `rowSelected` |
| Service finder, `gretioservicefinder.cpp` | `isFinding` | `findServices`, `stopFindingServices`, `addService` |
| QZeroConf, `bonjour.cpp`, `avahiclient.cpp`, `avahicore.cpp` | browser, resolvers, services, registration | browse, resolve, register callbacks; clean up |
| avahi-core: publishing, `entry.c`, `announce.c`, `probe-sched.c` | entry groups, entries, an announcer per entry and interface | add, commit, update, reset and free a group; probe, announce, withdraw |
| avahi-core: responses, reflector, host, `response-sched.c`, `server.c` | jobs, suppressions and history per interface; 100 slots; the host's own groups | answer, suppress, handle conflicts, reflect, rename |
| avahi-core: cache and queries, `cache.c`, `querier.c`, `query-sched.c` | entries with a state and a timer, queriers with a back-off, queries to send | update, flush, expire, ask, merge and suppress queries |
| avahi-core: browsers, resolvers, lookups, `browse*.c`, `resolve-*.c`, `multicast-lookup.c`, `wide-area.c` | lookups, the records found, the DNS servers | start, scan, restart, free; call back |
| avahi-core: interfaces, `iface.c`, `iface-linux.c`, `netlink.c` | hardware, interfaces, addresses, what is joined and announced | follow the kernel's dump and its events |
| main loops, `timeeventq.c`, `prioq.c`, `simple-watch.c`, `thread-watch.c`, `qt-watch.cpp` | a heap of events, watches and timeouts, a mutex | add, update, free; dispatch |
| Bonjour client stub, `dnssd_clientstub.c` | connections, subordinates, records | requests to the daemon, `DNSServiceProcessResult`, deallocation |

QZeroConf is built over one backend: the window's finder uses `QZeroConf`; that
calls avahi-core (embedded, with the Qt adapter as its main loop), or the
Bonjour stub, and is called back by it. Within avahi-core a service browser has
a record browser, that has lookups, those a querier on each interface and what
the interface's cache holds; an entry group has entries, those announcers that
hand probes and responses to the schedulers of each interface; timers of all
of them are events of one queue.

How they interact: everything runs on the host's thread. There is no thread of
the library's own (`IsolateQApp::run` is never started), so nothing is
concurrent in the sense of threads. What makes the code hard is that a function
that waits runs a **nested Qt event loop** (`QEventLoop::exec`), and whatever
that loop dispatches (socket events, messages, the user's clicks, timers, calls
of the host from its own handlers) runs to completion *inside* the waiting
call, and may itself open further loops (a modal message box, another call).
`quit()` only marks a loop; it returns when it is marked **and** innermost, and
more events are dispatched in between.

The behaviours that follow from it, and which the properties are about:

* answers arrive late, in any order, or never, and calls return innermost first;
* a connection may be lost, replaced or refused at every point of a login, with
  modal boxes open, and the status, the window, the slots and the login state
  must follow;
* a slot may be suspended in a modal box and go on when the state has changed;
* the token file is rewritten as a whole, without a check that it succeeded;
* the time limit of a call is a sum in a 32 bit `long`;
* two host processes write one token file;
* other hosts publish the same names, answer at any time, crash, and packets are
  lost;
* callbacks free what they are called for, and set timers that are being run;
* records, interfaces and addresses go away between the steps of a probe, a
  resolution or a dump;
* counters (announcers that probe, groups of the host, queriers, references)
  must agree with what they count through every order of these, and assertions
  end the process if they do not.

`PROJECT.json` lists those that weigh most as hazards, each at its line; what
the models show of the others is under "Seen in the models".

## 2. The modules

| module | models |
|---|---|
| `GretioServer` | the device at the other end, external: what it was asked and has not answered, what it has granted. It answers each request at most once, in any order, or never |
| `WebSocketClient` | the socket's state as Qt reports it, the verdict on the certificate, and `subs`, the number of connections of `textMessageReceived` to the handler |
| `AuthHandler` | the login: `authComplete`, `token`, `pubkey`, and `store`, the token file as a function of the key |
| `GretioContext` | the constructor's connections, the window, and `stack`, the nested loops |
| `J2534` | the functions of the host, the whole system's specification `Spec`, fairness, and all properties |
| `PassThruDevice` | the abstract specification: a device that is closed, opening or open, and calls that run, each with its own answer |
| `ServiceDirectory` | the abstract specification of a browser: services are added and removed in turn, and all are removed when it ends |
| `BonjourBrowser` | QZeroConf's browser over DNS-SD (`bonjour.cpp`): the hash of Resolvers, the list of services, the signals |
| `AvahiBrowser` | the same over avahi-core (`avahicore.cpp`): one resolver per key, Avahi's assertions |
| `DeviceList` | `GretioServiceFinder` and the table of the window, over `BonjourBrowser` |
| `PassThruMsgs` | the conversion of `PASSTHRU_MSG` to and from JSON, and the loops of `PassThruWriteMsgs` and `PassThruReadMsgs` over it |
| `TokenStore` | `servertoken.json` as a file two processes read, truncate and write, with crashes and writes that fail |
| `BonjourPublisher` | registration over Bonjour: `startServicePublish`, `registerCallback`, `bsRead`, clean up |
| `Publishing` | registration over the embedded Avahi server, from `startServicePublish` down to probes, conflicts and goodbyes on a link that several hosts share |
| `EntryGroups` | the local zone: what may be added, dead entries and their clean up, hold-off and rate limit of commits |
| `HostRecords` | the server's states and its own host name: groups, hold-off, collision, rename |
| `Responding` | responses: who asked, known answers, suppression, history, goodbyes, unicast answers |
| `Reflector` | reflection between interfaces, and legacy unicast queries with their slots and ids |
| `RecordCache` | a key's cache entries, its querier and the query scheduler |
| `RecordBrowser` | record and service browsers over multicast lookups |
| `Browsers` | domain, service type and DNS server browsers |
| `Resolvers` | service, host name and address resolvers |
| `WideArea` | unicast DNS lookups: retries, another server, a bounded cache |
| `Interfaces` | the kernel's links and addresses, and the server's picture of them |
| `TimeEvents` | the event queue on its heap, and the Qt timer |
| `EventLoop` | `avahi_simple_poll` and the thread that runs it under a mutex |
| `ClientStub` | references, subordinates and records of one connection to the Bonjour daemon |
| `J2534_proofs` | proofs: the safety of `J2534`, that it implements `PassThruDevice`, and proofs about `TokenStore`, `PassThruMsgs` |
| `Bonjour_proofs` | proofs about `BonjourBrowser` (it implements the weaker `ServiceDirectory`), `DeviceList`, `ClientStub`, `BonjourPublisher` |
| `Lookups_proofs` | proofs about `Resolvers`, `WideArea`, `AvahiBrowser` (it implements `ServiceDirectory`), `Browsers` |
| `Publishing_proofs` | proofs about `Publishing` |
| `Server_proofs` | proofs about `Reflector`, `Responding`, `EntryGroups` |
| `Cache_proofs` | proofs about `RecordCache` |
| `Browse_proofs` | proofs about `RecordBrowser` |
| `Avahi_proofs` | proofs about `EventLoop`, `HostRecords`, `Interfaces`, `TimeEvents` |
| `MC_J2534`, `MC_BonjourBrowser`, `MC_Publishing`, `MC_RecordCache`, `MC_RecordBrowser` | constants for the model checker |
| `MC_Parts`, `MC_Lookups`, `MC_Progress` | several parts side by side, for the model checker |

`WebSocketClient` extends `GretioServer`, `AuthHandler` extends
`WebSocketClient`, `GretioContext` extends `AuthHandler`, `J2534` extends
`GretioContext`: the layers of the program, bottom up. Operators of the lower
modules are the bodies of the program's methods (`close`, `connectNow`,
`authGood`...); an action of `GretioContext` is one dispatch of the event loop
and calls every method its signal reaches: `AuthRejected`, for example, is the
message, `inputMessage`'s branch, `onAuthFail`'s slot with `close()`, and the
message box that slot opens.

`BonjourBrowser` and `AvahiBrowser` stand beside that tower: the two systems
share the window (one picks a device from the table, the other logs in to it)
and no other state. `DeviceList` extends `BonjourBrowser`; a step of the
browser that adds a service and the row it causes are one action, as the
signal is a direct call.

In `BonjourBrowser` a Resolver and the `QZeroConfService` it fills are one
number, an index of `zcs`. The model keeps apart what the code keeps apart: a
Resolver that exists (`alive`), one that `resolvers` leads to, and a service
that is listed (`services`), because nothing in the code ties them together.
`announced` is what the daemon has reported and not withdrawn, which the code
does not store. `cleanUpResolvers` is `Resolver::cleanUp` for a set of
Resolvers, since the three callers clean up none, one or several. In
`AvahiBrowser` each callback event is an action, and an assertion of Avahi
ends the behaviour. `told` is, in both, what a user of the signals believes.

A function that waits is two actions. `Request` is `sendReceiveCseq` up to
`loop.exec()`: it takes a number, hands the message to the socket, starts the
timer and pushes a frame. `RequestReturns` is the rest, enabled when the frame
is marked and on top of the stack. `PassThruOpen` and `PassThruOpenReturns`
are the two halves of `waitForOpen`; `ReturnBox` is the return of a message
box to the slot that opened it, and one that resumes a slot of `connected()`
sets `WAIT_AUTH` then.

The definitions headed "Mistake:" are not part of any specification. Each is a
plausible error in one method, used to show that a property can fail.

The modules of avahi-core follow the same conventions: an action is one
callback of the main loop (a timer, a socket, a call of the client) with
everything it calls, and an operator named like a C function is that function's
body. They meet at the interfaces their headers name. What one module does in
detail another has as one step: `EntryGroups` and `HostRecords` have "becomes
established or collides" for what `Publishing` does; `RecordBrowser` has a cache
as the set of its records, which `RecordCache` manages; `Resolvers` and
`Browsers` have a record browser as what tells of a record when it comes and
when it goes, which `RecordBrowser` checks (`EventsAlternate`).

Time is in ticks where the code compares times: a quarter of a second in
`Publishing` (the interval of probes; the history of responses is two of them),
half a millisecond in `TimeEvents` (where the adapter rounds to milliseconds).
`RecordCache` has no clock but bursts: within one, all that takes less than a
second happens.

`ClientStub` keeps beside each reply whom it was meant for, which the code does
not have; `RightCallback` compares the two. `Reflector` likewise keeps the
query a slot was taken for.

### What is assumed of the environment

* `peerCert()` is the certificate of the current peer; endpoints reached by
  `ws://` have none. Two servers have different keys.
* `QWebSocket::open` on a socket in use drops the earlier connection without
  `disconnected` being emitted for it; a URL whose scheme it does not know
  leaves the socket unconnected.
* `disconnected` arrives at some time after `close()`, and no message does.
* The user can act on the window only when it is shown and no modal box is up;
  the boxes are dismissed innermost first.
* The host calls functions between its other calls, or from handlers that a
  nested loop dispatches (`HostMayNest`), and does not call `PassThruClose` from
  such a handler (`ClosesIdle`, a condition of the environment `Host`: the code has
  none). Deleting a context under a running loop has no defined behaviour.
* Times are in units of 8 ms, so that all the constants of the code are whole
  and a 32 bit `long` is one of 29 bits. `Timer` computes the sum of
  `WS_REQUEST_TIMEOUT`, the host's `Timeout` and one second as the code does.
* The DNS-SD daemon reports a service again only after withdrawing it; each of
  its sockets may fail at any time (resolving has a timeout, and the daemon may
  end); an address reply names the interface the service was found on; a fresh
  reference has a socket. Avahi reports services likewise, and one of
  its resolvers may fail and find its service again. Each Avahi call that makes an object
  may return null.
* The key of a service is its name and its interface's number written one
  after the other, so different services may have one key: `KeyOf` need not be
  injective, and in the runs it is not.
* In `AuthHandler`, writing the token file succeeds, fails to open it, or
  truncates it and fails; in `TokenStore` it is also cut short by a crash, and
  two processes write at a time.
* `PassThruMsgs`: `DataSize` is not above the size of `Data`, a zero byte follows
  `Data`, and the device sends no more messages than it was asked for. The code
  checks none of these.
* `Publishing`: a host does not hear its own packets (they compare equal to what
  it has, so nothing would follow); one response record per packet.
  `AVAHI_PUBLISH_NO_PROBE` and `NO_ANNOUNCE`, which QZeroConf does not use, are
  left out.
* `Responding`, `EntryGroups`: no packet is lost. `Responding` does not tell
  apart where a packet ends.
* `RecordCache`: a query and its answer come whole or are lost; a query that
  asks for a unicast answer, which other hosts' caches do not see, counts as a
  loss to us while it suppresses our own (`server.c:600-604`). Back-off, the
  sub-second jitter and `sec_delay` are not told apart.
* `RecordBrowser`, `Resolvers`, `Browsers`: clients free a browser in the callbacks
  the modules name, and otherwise between calls.
* `Reflector`: an answer comes before `Lag` more queries have been reflected; an id
  is 16 bits, and a later answer could not be told from another query's.
* `TimeEvents`: a callback frees its event or sets it for another time (all of
  avahi-core's do).
* `ClientStub`: one thread, no `DNSServiceProcessResult` inside a callback of
  another; memory is not exhausted; the daemon's replies can be parsed and are
  of the client's version. Uids are two words of two values each.
* `Interfaces`: the netlink socket does not overrun, and a dump of addresses that
  is asked for is answered.

The texts of messages, the widgets' layout, `ping` and logging are left out.
Values of a message are reduced to what its receiver branches on.

## 3. The runs

| run | instance | shows |
|---|---|---|
| `calls` | one device, ten operations known and three called, two time limits, two numbers, three nested loops, calls may nest | a call never takes another's answer, numbers are unique, a call waits without a timer only if the host's own time wraps it, `PassThruOpen` reports success only if the device granted the connection, and `J2534` implements `PassThruDevice` |
| `login` | two devices (one whose certificate raises a tolerated error), a third whose certificate is refused, a `ws://` endpoint, an unsupported URL, up to two slots | status, socket, window, login state, token file and device agree through logins, refusals, drops, second selections and modal boxes |
| `live` | one device, nested calls with both time limits, fairness | every request returns, and a login that succeeds ends `PassThruOpen` |
| `publishing` | two hosts that want one service name (same PTR, different SRV), one interface each that goes away once, one packet lost, two starts | the probing counter is never below what probes, nothing is announced before all is probed for, a name has one owner unless a packet is lost, and then only for a while, and a registration ends |
| `cache` | three set-ups: a cache of one record and a link that loses three packets; two records of a unique key; a link that goes away | what a host has and somebody browses stays (unless four packets are lost), what nobody has goes, what is browsed is seen |
| `browse` | two interfaces, two browsers (one of all interfaces), a record, a CNAME, what it stands for, a record that is no service | clients know what the caches hold and are told once, queriers count who asks, a browser is told `ALL_FOR_NOW` |
| `parts` | seven parts: the table of devices over the Bonjour browser, the client stub, entry groups, responses, the reflector, interfaces, time events | the safety properties of each, see below |
| `lookups` | four parts: resolvers, wide-area lookups, browsers, QZeroConf's browser over Avahi | each reports what is true, once, and something in the end; the Avahi browser implements `ServiceDirectory` |
| `progress` | nine parts in small instances: time events, the event loop, entry groups, responses, interfaces, host records; messages, token file, Bonjour registration | what must happen in the end, and the safety of the last three |
| `AuthBeforeMessages`, `ListedIsAnnounced`, `PublishAnswered` | an instance that shows it | what a header or the README of QtZeroConf says and the code does not do; one finding each |

**Parts side by side.** `MC_Parts`, `MC_Lookups` and `MC_Progress` hold parts that
share no variable. The variable `part` says which one moves; the others stay in
an initial state in which none of the actions that have fairness is enabled, so
that fairness asks nothing of them. A behaviour of such a run is a behaviour of
one part, every behaviour of that part is there, and the state space is the
sum, not the product. It is a way to check small modules together, and no
claim about their composition is made.

A property that ends in `Safe` is the conjunction of a module's named invariants,
its type invariant among them; each of those is stated and explained in the
module. `PartsSteps`, `WidePromises`, `MsgsPromises` and `LoopSafe` also have
action properties, `LookupsAnswer` and `ProgressMade` what must happen in the end.

The parts of `parts` and what they show: a listed service has its row, and the
hash leads to living Resolvers only (`DeviceList`, `BonjourBrowser`); a reply is
given to the callback it was meant for, although references are freed and
numbers used again, and a loop stops if its reference was freed
(`ClientStub`); services stay whole when calls fail, groups do not withdraw each
other's records, commits keep to their rate (`EntryGroups`); nobody who asked is
forgotten, and a goodbye is the last that is sent of a record (`Responding`);
answers go to who asked, and no echo (`Reflector`); the group is joined with the
best address, the addresses published are the best, and when the dumps are
over the server knows the kernel's links (`Interfaces`); the heap is a heap, the
timer is in time, and the earliest runs (`TimeEvents`).

**Bounds.** `MaxDepth` (nested loops), `MaxCseq` (requests of one context) and
`MaxSubs` (connected slots) bound the tower's state space; `HostOps` and `Timeouts`
bound what the host does. Three loops let a call wait under another call under
`waitForOpen`, or under a modal box; two numbers let two answers be exchanged;
two slots make the handler run twice for one message; two devices let a token
be shown to the wrong one. Of the two time limits, 0 and 2147483640 ms, only
the first lets the timer start.

`MaxResolvers` and `MaxRows` bound the Resolvers and rows made, and the set
`Browsers` the Avahi browsers; three Resolvers give two services one each and
one of them a second, which is what replaces an entry and outlives its removal;
two browsers are what `startBrowser` needs to lose one.

In `Publishing`, `MaxStarts`, `MaxFlaps` and `MaxLoss` bound what users and the
link do; two hosts and a loss are what a conflict needs, and announcing is two
packets instead of four, as the rest repeat the second. `MaxChanges` bounds the
records published in `RecordCache`, the addresses and names changed in
`HostRecords`, and the records that appear in `Resolvers`; `MaxEvents`,
`MaxLookups` the restarts and lookups of `RecordBrowser`; `MaxAdds` and `MaxDebt`
the calls of `EntryGroups` and how far commits reach ahead; `MaxServerChanges`
and `MaxSends` those of `WideArea` (four sends, two to a server: an answer may
come between any two of them, and both servers are asked); `MaxInfos` is two
for ten servers, with three records, so that the limit is met; `MaxMade`,
`MaxRequests`, `MaxReplies` bound the stub; `MaxQueue` and `MaxChurn` the kernel;
`MaxTime` the clock of `TimeEvents`; `IdMod`, `Slots` and `Lag` are 7, 2 and 4 for
65536, 100 and what the network takes, so that ids wrap and slots run out;
`DataMax`, `BufferLen`, `MaxHeld` are 6, 2 and 2 in `PassThruMsgs`, with messages
shorter than a header, with a header alone and as long as `Data`; `MaxPublishes`
bounds `BonjourPublisher`. `HostRecords` lets the name change only while it is not
being registered (`AnyTime`): see below for the other case.

The proofs have none of these bounds.

**Fairness.** In `J2534`, a loop looks at its mark after every pass
over the events, so a marked loop that is innermost again and again returns
(strong fairness per depth: other loops may be pushed above it in between and
return). A started timer fires (weak), and the user dismisses a modal box
(weak). Nothing is assumed of the device, the network or the host. A request
whose timer did not start is the exception that `Untimed` names, and the
liveness properties are stated up to it.

In avahi-core, a timer that was set fires (weak: the event queue runs what is
due, which `DueRuns` checks of it), sockets that have something are read, and
time passes. `RecordCache` needs strong fairness for the end of a burst and for
the two timers of an entry, as within a burst other hosts may ask without end
while each timer waits for the burst to be over; packets that the link does not
lose arrive, and hosts answer. `EventLoop` needs strong fairness where a thread
waits for the mutex, which no implementation of `pthread_mutex` promises to the
letter, and all deliver; the thread that holds it gives it back (weak). The
kernel writes the dump it was asked for. Clients and other hosts are obliged to
nothing. `HostRecords` takes for granted that the registration of an address ends
(weak fairness of `Established`); that is so unless its interface goes away while
it is probed for, which leaks `n_probing` and is what `PublishAnswered` shows.

The browsers of QZeroConf state no liveness: nothing obliges a daemon to report
anything.

**Deadlock** is checked in `calls` and `live`. It is not in `login`
and the violation runs: with the bound on numbers reached, or the window closed
without a socket, this system really waits for ever (see `CloseEndsOpen`).
Nor is it in the others: a system of timers may be at rest with nothing to do,
the process may have ended in an assertion, or a bound may be reached.

### Seen in the models, without a run of their own

Properties that are stated in a module and that the model refutes in a few steps:

* `CloseEndsOpen` (`J2534`): the window is closed while `PassThruOpen` waits, and
  nothing ends its loop (`gretiowebcontext.cpp:116`).
* `RequiredFieldsChecked` (`J2534`): a message without its required fields is acted
  on after the socket has been closed for it (`gretiowebsocketclient.cpp:118`).
* `StopBrowserWorks` (`BonjourBrowser`): a Resolver has failed, its service is
  listed, and `stopBrowser` meets it (`bonjour.cpp:243`).
* `StopStopsPublishing` (`Publishing`): `stopServicePublish` before the server runs
  does not take the registration back (`avahicore.cpp:309`).
* `AddressOfHost` (`Resolvers`): the host of a service changes and the address of
  the old one is reported with the new name (`resolve-service.c:210`).
* `UpdateModifies` (`EntryGroups`): `avahi_server_add_service` with
  `AVAHI_PUBLISH_UPDATE` on a committed group replaces SRV and TXT, although
  `defs.h:146` says the flag is for existing entries, and adds the rest.
* `WatchesArePlaced` (`EventLoop`): a watch made in a callback is looked up in a
  poll array it has no place in yet (`simple-watch.c:581`).
* `FailedNotCalled` (`ClientStub`): a record whose registration failed stays with
  its connection and is called back (`dnssd_clientstub.c:1945`).
* `NoAbort` (`RecordBrowser`): a CNAME that comes, goes and returns meets an
  assertion (`browse.c:296`).
* `OneOwner` (`Publishing`) with two interfaces that come and go (`MaxFlaps = 2`, one
  SRV record a host; the run `publishing` has `OneLink`): a host that probes on one
  link gets another late. Its announcer on the first is done and waits for the
  group, which probes on the second, and a record that waits is not defended
  (`announce.c`: only what is announced answers a probe). Another host starts on the
  first link meanwhile, hears nothing, and both finish their probes at once. With
  `MaxFlaps = 1` it does not happen.

And what the models do without a property that says otherwise. `AvahiBrowser`:
`startBrowser` makes a second browser beside the first, which is then never
freed (`avahicore.cpp:348`), and a missing server or resolver ends the process
in an assertion (`Abort`). `BonjourBrowser`: a Resolver that `stopBrowser` did not
find adds its service afterwards, which is why `LooseSpec` lets a service be
added when nothing browses. `DeviceList`: a browser that fails leaves
`isFinding` set, and a row keeps the first address of its service. `J2534`: a
long `Timeout` starts no timer (`Untimed`), `PassThruConnect` and others fail
without a text (`SilentOps`), and a certificate whose error is
`SelfSignedCertificate` is refused (`okError`). `TokenStore`: two calls of `addToken`
that overlap lose a token or leave a file that cannot be parsed, until the next
call writes it anew. `BonjourPublisher`: `registerCallback` ignores its flags, so
a name that is withdrawn is reported as published once more (`dns_sd.h:1119`).
`HostRecords`: with `AnyTime`, a name set while the old one is being registered
withdraws the groups one by one; the last brings the count to zero, the server
counts as `RUNNING` in the middle of it and registers an address again under the
old name (`server.c:1091-1110`). `EntryGroups`: each commit pushes the
time of the next one ahead. `WideArea`: records that expire from its cache are not
reported as removed. `Browsers`: a DNS server whose address was never found is
reported removed when its record goes (`browse-dns-server.c:196`). `Interfaces`:
an interface that the kernel did not let join again goes on announcing, and is
not tried again (`refused`). `EventLoop`: a loop that has quit cannot be started
again.

## 4. What is proved

Every theorem holds for all values of the constants that satisfy the modules'
`ASSUME`s, which TLC evaluates in the runs, and for behaviours of any length.
Four have a hypothesis more, which is named where they are described. Each
rests on an inductive invariant, shown to hold initially and to be kept by
every action: one lemma for an action or for a group of actions that change the
same variables, then one step of the theorem that cites them.

### The host (`J2534_proofs`)

`J2534_proofs` proves, for every set of servers, endpoints and operations,
every certificate, any depth of nesting and any time limits, from the
assumptions `WsAssumption`, `CtxAssumption` and `HostAssumption`:

* `TypeCorrect`, `ConnectionGranted`, `SocketServed`, `DeviceOffered`,
  `TokensKept`, `LoginOrdered`, `BeginAuthorised`, `AnswersMatch`,
  `NumbersUnique`, `TimersStart`: the invariants the runs `login` and
  `calls` check, and `LoginCorrect` and `CallsCorrect`, their conjunctions
  `LoginSafe` and `CallsSafe`;
* `OpenAuthenticated`: the action property of `calls`;
* `DeviceImplemented == Spec => ImplementsDevice`.

The inductive invariant is `Inv == TypeOK /\ StateInv /\ StackOK(stack, cseq,
ptReqs)`. `StateInv` is the conjunction of the invariants about the
connection. They need each other: that a token is presented to its own server
needs that the key in use is the peer's (`HandshakeOrder`), that a session is
asked for only after the login is answered needs that a begin request and a
login are never outstanding together. `StackOK` says what the stack, the next
number and the requests known to the device satisfy together: numbers in use
are below the next one and differ, the device knows a number with the
operation that waits under it, a reply in a frame is of the frame's operation,
and `waitForOpen`'s frame is at the bottom. It is a predicate of three values,
so that each way the stack changes (push, return, mark, answer) is one lemma
about sequences, and each action cites the lemma for its change. The refinement
uses the same invariant: `CallsOf` maps the stack to the abstract calls, and
each action is a step of the device or a stutter. It needs that numbers are
unique (a return removes one call and no other) and that no operation is called
`"none"`.

And of the two parts beside it:

* `StoreCorrect` (`StoreSafe` of `TokenStore`). `StoreInv` adds to it what a call
  in progress has read and emptied (`AloneInv`: a call nobody overlaps holds the
  file's content, and the file is empty while it writes) and that undisturbed
  calls are alone (`UndisturbedInv`).
* `MsgsCorrect` (`MsgsPromises` of `PassThruMsgs`). `MsgsInv` says where every message
  the device holds comes from; `WrittenJson` what is sent of a message, with a size or up
  to the first zero, and `CopyRaw` that reading it back overwrites that much of the
  array and no more, whatever its length.

### The Bonjour side (`Bonjour_proofs`)

* `BonjourTypeCorrect`, `NoDanglingResolver`, `SoleResolverFound`, `ListedWithAddress`,
  and that the signals implement `ServiceDirectory!LooseSpec`
  (`BonjourImplementsSignals`), for any services, keys and addresses. The invariant
  is `BonjourInv`: the four properties and `ToldListed`, that the signals say what
  the list holds, without which neither an added signal nor the end of a browser
  could be matched. The central lemma is `CleanUpLive`: freeing any set of
  Resolvers, with all entries of their keys, leaves no entry dangling and loses
  no Resolver that is the only one of its key.
* `ListTypeCorrect`, `ListedSelectable` and `ListCorrect` (`ListSafe` of
  `DeviceList`): the invariant adds to `BonjourInv` that a listed service has a row
  that holds it.
* `ReaderKeepsConnection`: whatever a callback frees or makes, the loop of
  `DNSServiceProcessResult` does not go on with a connection that was freed.
  `StubInv` says that the reader's connection is open and the one it was called
  for while it reads or is going to, and that no call waits while it reads.
* `StubCorrect` (`StubSafe`): a reply goes to whom it was meant for, indices keep
  apart, what was given up does not stay with the daemon. Its hypothesis is
  `MaxMade <= W * W`: no more operations and records are made than there are uids
  (2^64 in the code; a client that makes more would get the replies of another).
  `ListsInv` says that owners precede what they own and that `max` is above every
  index it gave; `RequestInv` that one request at most is still to be answered;
  `MailInv` what there is without a connection or a daemon. `TagsInv` is the core: on a
  shared connection no uid stands for two identities *among all that was asked,
  is known to the daemon, is on its way back or is listed*, so that a reply which
  comes late for a cancelled operation finds nobody rather than its successor.
* `PublisherCorrect` (`PublisherSafe`): the property with the types is inductive.

The two backends of the browser differ in what they implement: Avahi's resolver
is freed with the removal whether or not the service is listed, Bonjour's only
with a listed one, which is why Bonjour's signals implement only the weaker
specification (`ListedIsAnnounced` refutes the rest: what it finds listed is a
service that was withdrawn).

### The Avahi side: lookups (`Lookups_proofs`, `Cache_proofs`)

* `AvahiTypeCorrect`, `AvahiListedResolved` and `AvahiNoGhosts`, however many browsers
  are started, `AvahiAnnouncedResolved`, `AvahiImplementsDirectory`, and `AvahiCorrect`
  (`AvahiSafe`). The refinement mapping ends the directory when the user starts
  a browser while one is in use (`startedTwice`, set where the code reports
  `browserFailed` and goes on): up to then the signals are those of
  `ServiceDirectory!DirSpec`. `AvahiInv` adds `BrowserState` to the properties: a
  browser that does not run knows of nothing, and before a second start the one in
  use is the only one that runs. That a service is added only while something
  browses follows from `ResolversAnnounced`: a resolver that reports needs a browser
  that runs.
* `ResolverTypeCorrect`, `ResolverNotSilent`, `ResolverTells`, `ResolverHoldsCached`,
  `ResolverCorrect` (`ResolverSafe`), for the three kinds of resolver at once. The
  invariant says for each state of a resolver which browsers it has, that what it
  holds was found by one of them, and that while something is missing the timer
  runs or the failure was told; `finish` is called from every way in which the
  last missing record may come, and the lemmas are one for each of these.
* `WideTypeCorrect`, `LookupEndsOnce`, `AnswersTold`, `AnotherServerTried`,
  `LookupPromises` (`WidePromises`). `TriesGrow` is what makes the choice of another
  server work: after `FirstSends` tries two different servers have been asked,
  because a lookup moves `current_dns_server` only off the server it used itself.
  `Remembered` says that a lookup that runs has told all the cache holds for it, so
  that what an answer adds to the cache is all there is left to tell.
* `BrowsersCorrect` (`BrowsersSafe`). `DomainInv` says that the domains of the
  configuration are told in one go and ALL_FOR_NOW only when nothing is deferred;
  `DnsInv` that `n_info` is the number of servers in the list and that the client was
  told of those that were found.
* `CacheTypeCorrect` and `QuerierIsCounted`, from `CacheInv`: the cache keeps its
  limit because `avahi_cache_update` compares before it adds and nothing else adds;
  the querier of an interface that is up has `used` equal to the number of lookups,
  and lives while there are any.
* `KeptAliveCorrect` (`KeptAlive`), with the hypothesis that the threshold of passive
  observation is at least 3, the code's value (with 0, as in two configurations of
  the run `cache`, a record may go after one lost packet; there none is lost).
  `KeptWell` is the account of an entry whose record is there and browsed: every
  query the cache posted for it, by its state, cost a packet, but for one of this
  burst; what such a query may still become (scheduled, sent, merged with another
  host's, refused because one was just sent) is a conjunct each. `SoleHolds`, that a
  unique key has one owner and what is left of the last one's answers comes in next
  to a record just heard, is why flushing a key does not hit a record that is there.

### The Avahi side: browsing (`Browse_proofs`)

* `BrowseCorrect` (`BrowseSafe`), for any interfaces, records and browsers, any limit
  on lookups and any number of restarts and changes of the links: the client of a
  running browser was told what the caches of its interfaces hold for its key, it is
  never told the same twice in a row, and each querier counts the lookups that want it.
  Interfaces, browsers and records are finite sets (`BrowserAssumption`), which a fold needs.
  The handlers are folds in folds (a record over all browsers, over the lookups
  of each, then over the lookups that are to start, the interfaces and
  the records these find). `FoldExists` shows that the function a fold is defined by
  exists, and `AllSubsets` goes along it; each fold has a lemma of the form of its step's.
  `BrowseInv` adds that the first lookup of a browser is for its own key and the others
  follow CNAMEs (`Rooted`), whose records are never of its key or CNAMEs again
  (`StandsFor`), so that each record reaches the client through one lookup and once
  (`NotifiedFacts`); and that no lookup is left to start between steps (`Runs`), which
  `AllStart` proves of `MaxLookups` rounds of `lookup_go`, those included that are added in
  the meantime. A browser that does not run has neither lookups nor anything it was
  told (`Rests`), so `Cancel` has to take off every lookup it counted (`AllUncounted`).

### The Avahi side: publishing and answering (`Publishing_proofs`, `Server_proofs`)

* `PublishingCorrect` (`PublishingSafe`), from `PubInv`: the counter `n_probing` of a
  group is between the number of its announcers that probe and that plus those
  that interfaces which went away had (`Counted`; the code does not take them off);
  a group that registers has announced nothing; a host that is not ready has no
  group. `NetOK` adds that packets and responses are of interfaces that exist.
* `OneOwnerCorrect` (`OneOwner`): as long as no packet is lost, no two hosts have
  registered the same unique name, with the hypothesis `ProtocolAssumption`: the count
  of probes is at least the code's (`ProbeEnd >= 4`), rival records differ in their data
  (a service's SRV record names its host), and there is one interface, or interfaces
  stay (what happens otherwise is under "Seen in the models"). `OwnInv` is an account of
  one record of one host against one of another (`RivalsOK`), by the ticks since each
  was first probed for. While both are tried for, the lesser gives way in time: the
  other has sent no probe yet, or the lesser is not past its first, and what the other
  asks is on its way. While one is owned, the other is not past its last probe: its
  answer is due or on its way, or what was said of it before leaves the history (two
  ticks) by the last probe, which is then asked. `SelfOK` says the same of what a host
  said of a name it gave up and tries for again, `LockStep` that the announcers of a
  group are at the same probe, `OnlyUp` and `MailOK` whose records are probed for and
  are on their way. One lemma for each handler says what it does to a record of the host
  it changes (it is still tried for, still owned, tried for anew, out), and those about
  pairs (`RivalsOK` for a step of either side) use nothing else of the handlers.
* `ReflectedAnswers`, `SlotsNotTaken`, `NothingComesBack` and `ReflectorCorrect`
  (`ReflectorSafe`), for any number of slots and any width of the id, from
  `ReflectorAssumption` (`Lag + Slots < IdMod`). `SlotsInv` counts backwards from the
  next id around the wrap: a query that may still be answered is less than `Lag`
  ids old, so the slot that has its id has its client.
* `RespCorrect` (`RespSafe`). `RecordInv` relates a record's job, its history, whether
  it is ours and the last that was said of it: what waits is not in the history,
  so that the goodbye of a record that was sent live is not taken for one sent
  before. `OwedInv`: who is owed an answer has a job that is for nobody in
  particular, or for that querier.
* `ZoneCorrect` (`ZoneSafe`) and `CommitsAreLimited` (`RateLimited`). `EntriesInv`: live
  entries are of live groups, and only an update makes two of them conflict.
  `GroupInv` measures the register time, which each commit moves ahead, against the
  last time the group began to register: while the timer runs it is a whole
  hold-off later.
* `ServicesStayWhole` (`ServicesWhole`): a service that a group enumerates keeps its
  SRV and TXT records. `ServiceWhole` follows a call through its records, up to the one
  that fails, `UpdateWhole` and `OthersWhole` say that an update and the other groups
  take no key away. A failed call with `AVAHI_PUBLISH_UPDATE` is excepted
  (`OnlyUpdates`), as it frees nothing again (`entry.c:671-680`).

### The Avahi side: the process (`Avahi_proofs`)

* `LoopCorrect` (`LoopSafe` of `EventLoop`). `LoopInv`: unless a rebuild is asked for,
  the array given to `poll` and the watches point at each other; while the thread
  sleeps without a byte in the pipe, it sleeps no longer than any timeout; what is
  dead is in the list only while a clean up is asked for.
* `HostCorrect` (`HostSafe` of `HostRecords`), with the hypothesis `~AnyTime`, as in the
  run: the host's name is set only once it is registered or has collided (what
  happens without it is told under "Seen in the models"). `HostInv`: the number of
  pending groups is `Counted`, and every group holds nothing or the host's name at a
  relevant address. The handlers call each other, a group's callback those of all
  groups: the lemmas follow them from address to address.
* `InterfacesCorrect` (`InterfacesSafe`). `IfInv` says for every link and every address:
  the last message in the queue about it says what the kernel has, or what the
  server holds is already that, or the dump that will say it is still to come
  (`LinksKnown`, `AddrsKnown`, `NewsWelcome`, `DoneOnce`). `Whole` is what holds of
  an interface after a handler, `Half` between its steps.
* `TimeCorrect` (`TimeSafe`) and `EarliestFirst` (`EarliestRuns`) of `TimeEvents`, for heaps of
  any size. A heap that is `OrderedBut` at one node, or `OrderedAbove` one, is what
  the two directions of `avahi_prio_queue_shuffle` start from; each exchange moves
  the node, so that the shuffle ends within as many steps as there are nodes, with
  the heap in order. That the root is least is by the first node that would be less.

With `CommitsAreLimited`, `ServicesStayWhole`, `EarliestFirst` and `SlotsNotTaken`, every
conjunct of `PartsSteps` that the run `parts` checks is proved of its component.

The induction theorems of the library take an operator as a parameter, which the
provers cannot instantiate. Where an argument goes along a sequence, a fold or a
recursive function, it takes the least number for which it fails (`UpTo`,
`LeastNatural`) and contradicts it; no theorem is about a `RECURSIVE` operator, as the
modules above declare none.

Only model-checked:

* liveness (`RequestsReturn`, `LoginEndsOpen`, `ConflictsResolve`, `RegistrationEnds`,
  `GoneIsRemoved`, `EventuallySeen`, `BrowserAnswered`): a proof needs `ENABLED`, which the
  provers do not handle;
* `OneOwner` with several interfaces that come and go, where it does not hold;
* `LookupsAnswer` and `ProgressMade`, which are liveness too.

## 5. Not modelled, and what is left

Not modelled:

* the wire format of DNS, sockets and their options, addresses, names and TXT
  lists, logging and containers of avahi-core and avahi-common, the message
  format of the Bonjour daemon and the TXT records of `dnssd_clientlib.c`: sequential
  functions on data, which the models reduce to what their callers tell apart;
* the registration in `avahiclient.cpp`, which goes to a client library that is
  not in the repository, and the NSD, Windows and Android code of other platforms;
* the optional records a server may publish (HINFO, workstation, browse domain)
  and its CNAME conflicts across groups, which QZeroConf's configuration turns off;
* `AvahiWatch` of the Qt adapter: what `QSocketNotifier` does is all there is;
* failures of `malloc` in the libraries;
* the widgets, the example programs and loader glue.

Left to do: `RecordCache` shown to implement the cache `RecordBrowser` assumes; two
server processes in one `EntryGroups` zone.
