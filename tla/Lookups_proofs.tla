--------------------------- MODULE Lookups_proofs ---------------------------
(***************************************************************************)
(* Proofs about the lookups of avahi-core and of QZeroConf over it, for    *)
(* any values of the constants: a resolver tells what it holds, holds what *)
(* is cached and is never silent (Resolvers); a lookup ends once and is    *)
(* not given up before another server was asked (WideArea); the list of    *)
(* services and its signals follow what Avahi announced (AvahiBrowser);    *)
(* the clients of the browsers between hear what they should (Browsers).   *)
(***************************************************************************)
EXTENDS Resolvers, WideArea, AvahiBrowser, Browsers, FiniteSetTheorems,
        WellFoundedInduction, TLAPS

-----------------------------------------------------------------------------
(***************************************************************************)
(* Resolvers                                                               *)
(***************************************************************************)

Slots == {"srv", "txt", "address", "ptr"}
BrowserStates == {"none", "deferred", "live", "failed"}
ResolverStates == [st : {"none", "live", "freed"}, br : [Types -> BrowserStates], host : Hosts,
                   have : [Slots -> Records \cup {NoRecord}], timer : BOOLEAN]

(***************************************************************************)
(* The invariant, of a resolver t that needs the slots n.                  *)
(***************************************************************************)
ConfOK ==
    /\ conf \in [kind : {"service", "host", "address"}, needs : SUBSET Slots,
                 protos : SUBSET {"a", "aaaa"}, retry : BOOLEAN]
    /\ conf.kind = "service" => "srv" \in conf.needs /\ "ptr" \notin conf.needs
    /\ conf.kind = "host" => conf.needs = {"address"}
    /\ conf.kind = "address" => conf.needs = {"ptr"}
    /\ wide \in BOOLEAN /\ cache \subseteq Relevant(conf)

Full(t, n) == \A s \in n : t.have[s] # NoRecord

\* Nothing is kept that is not needed, and it is kept where it belongs.
Filled(t, n) ==
    \A s \in Slots : t.have[s] # NoRecord => s \in n /\ t.have[s] \in Records /\ SlotOf[t.have[s].type] = s

\* No browser runs for what is not needed, nor after the resolver was freed.
Asked(t, n) ==
    /\ \A x \in Types : t.br[x] # "none" => SlotOf[x] \in n
    /\ t.st # "live" => t.br = NoBrowsers /\ t.have = NothingYet /\ ~t.timer

\* A name is that of the address asked for.
OfHost(t) == t.have["ptr"] # NoRecord => t.have["ptr"].host = t.host

Good(t, n) == t \in ResolverStates /\ Filled(t, n) /\ Asked(t, n) /\ OfHost(t)

\* The client: NeverSilent and FoundIsTold.
Sound(t, n, rep) ==
    /\ t.st = "live" /\ ~Full(t, n) => t.timer \/ rep.event = "FAILURE"
    /\ t.st = "live" /\ Full(t, n) => rep.have = t.have /\ rep.event \in {"FOUND", "FAILURE"}
    /\ rep.event \in {"none", "FOUND", "FAILURE"}

\* HeldIsCached.
HeldIn(t, C, w) ==
    ~w => \A s \in {"srv", "txt", "ptr"} :
             t.have[s] # NoRecord => t.have[s] \in C /\ t.br[t.have[s].type] = "live"

ResolverInv ==
    /\ ConfOK /\ Good(r, conf.needs) /\ Sound(r, conf.needs, reported) /\ HeldIn(r, cache, wide)

USE DEF SlotOf, NoRecord, Types, Slots

LEMMA RecordFacts ==
    ASSUME NEW rec \in Records
    PROVE  /\ rec \in [type : Types, host : Hosts] /\ rec # NoRecord
           /\ SlotOf[rec.type] \in Slots
  BY ResolverAssumption

LEMMA ResolverInitInv == ResolverInit => ResolverInv
<1> SUFFICES ASSUME ResolverInit PROVE ResolverInv
  OBVIOUS
<1>1. /\ conf \in [kind : {"service", "host", "address"}, needs : SUBSET Slots,
                   protos : SUBSET {"a", "aaaa"}, retry : BOOLEAN]
      /\ conf.kind = "service" => "srv" \in conf.needs /\ "ptr" \notin conf.needs
      /\ conf.kind = "host" => conf.needs = {"address"}
      /\ conf.kind = "address" => conf.needs = {"ptr"}
  <2>1. CASE conf \in [kind : {"service"}, needs : {{"srv"} \cup x : x \in SUBSET {"txt", "address"}},
                        protos : {{"a"}, {"a", "aaaa"}}, retry : {FALSE}]
    <3>1. PICK x \in SUBSET {"txt", "address"} : conf.needs = {"srv"} \cup x
      BY <2>1
    <3> QED
      BY <2>1, <3>1
  <2>2. CASE conf \in [kind : {"host"}, needs : {{"address"}}, protos : {{"a"}, {"a", "aaaa"}}, retry : {FALSE}]
    BY <2>2
  <2>3. CASE conf \in [kind : {"address"}, needs : {{"ptr"}}, protos : {{}}, retry : BOOLEAN]
    BY <2>3
  <2> QED
    BY <2>1, <2>2, <2>3 DEF ResolverInit, Confs
<1>2. ConfOK
  BY <1>1 DEF ResolverInit, ConfOK, Relevant
<1>3. /\ r \in ResolverStates /\ r.st = "none" /\ r.br = NoBrowsers /\ r.have = NothingYet /\ ~r.timer
      /\ \A s \in Slots : r.have[s] = NoRecord
      /\ \A x \in Types : r.br[x] = "none"
  BY ResolverAssumption DEF ResolverInit, ResolverStates, BrowserStates, NoBrowsers, NothingYet
<1>4. Good(r, conf.needs)
  BY <1>3 DEF Good, Filled, Asked, OfHost
<1>5. Sound(r, conf.needs, reported) /\ HeldIn(r, cache, wide)
  BY <1>3 DEF ResolverInit, Sound, HeldIn
<1> QED
  BY <1>2, <1>4, <1>5 DEF ResolverInv

(***************************************************************************)
(* A record is told by a browser that is live: resolver t, cache C.        *)
(***************************************************************************)
Tells(t, rec, C) ==
    /\ t.st = "live" /\ rec \in Relevant(conf) /\ rec \in C /\ t.br[rec.type] = "live"
    /\ rec.type = "ptr" => rec.host = t.host

\* What a browser for addresses does to the others is nothing.
LEMMA DeferredGood ==
    ASSUME NEW t, NEW n, Good(t, n), t.st = "live", NEW T \in SUBSET Types,
           \A x \in T : SlotOf[x] \in n
    PROVE  /\ Good(Deferred(t, T), n)
           /\ Deferred(t, T).have = t.have /\ Deferred(t, T).st = "live"
           /\ Deferred(t, T).host = t.host /\ Deferred(t, T).timer = t.timer
           /\ \A x \in Types : Deferred(t, T).br[x] = IF x \in T THEN "deferred" ELSE t.br[x]
<1> DEFINE u == Deferred(t, T)
<1>1. t \in ResolverStates
  BY DEF Good
<1>2. /\ u.have = t.have /\ u.st = "live" /\ u.host = t.host /\ u.timer = t.timer
      /\ \A x \in Types : u.br[x] = IF x \in T THEN "deferred" ELSE t.br[x]
      /\ u \in ResolverStates
  BY <1>1 DEF Deferred, ResolverStates, BrowserStates
<1> HIDE DEF u
<1>3. Good(u, n)
  BY <1>2 DEF Good, Filled, Asked, OfHost
<1> QED
  BY <1>2, <1>3 DEF u

LEMMA FinishFacts ==
    ASSUME NEW t \in ResolverStates, NEW e, Finish(t, e)
    PROVE  /\ r' \in ResolverStates /\ r'.st = t.st /\ r'.br = t.br /\ r'.host = t.host
           /\ r'.have = t.have /\ ~r'.timer
           /\ reported'.event = e /\ reported'.have = t.have
  BY DEF Finish, ResolverStates

LEMMA FinishGood ==
    ASSUME NEW t, NEW n, Good(t, n), NEW e \in {"FOUND", "FAILURE"},
           e = "FOUND" => Full(t, n), Finish(t, e)
    PROVE  /\ Good(r', n) /\ Sound(r', n, reported')
           /\ \A C, w : HeldIn(t, C, w) => HeldIn(r', C, w)
<1>1. /\ r' \in ResolverStates /\ r'.st = t.st /\ r'.br = t.br /\ r'.host = t.host
      /\ r'.have = t.have /\ ~r'.timer
      /\ reported'.event = e /\ reported'.have = t.have
  BY FinishFacts DEF Good
<1>2. Good(r', n)
  BY <1>1 DEF Good, Filled, Asked, OfHost
<1>3. Sound(r', n, reported')
  BY <1>1 DEF Sound, Full
<1> QED
  BY <1>1, <1>2, <1>3 DEF HeldIn

\* A record is put where nothing was.
LEMMA KeepGood ==
    ASSUME NEW t, NEW rec, NEW C, NEW w, ConfOK, Good(t, conf.needs), HeldIn(t, C, w), Tells(t, rec, C)
    PROVE  LET u == [t EXCEPT !.have[SlotOf[rec.type]] = rec]
           IN  /\ Good(u, conf.needs) /\ HeldIn(u, C, w)
               /\ u.st = t.st /\ u.br = t.br /\ u.host = t.host /\ u.timer = t.timer
               /\ \A s \in Slots : u.have[s] = IF s = SlotOf[rec.type] THEN rec ELSE t.have[s]
<1> DEFINE u == [t EXCEPT !.have[SlotOf[rec.type]] = rec]
<1>1. rec \in Records /\ SlotOf[rec.type] \in conf.needs
  BY DEF Tells, Relevant
<1>2. rec \in [type : Types, host : Hosts] /\ rec # NoRecord /\ SlotOf[rec.type] \in Slots
  BY <1>1, RecordFacts
<1>3. t \in ResolverStates
  BY DEF Good
<1>4. /\ u.st = t.st /\ u.br = t.br /\ u.host = t.host /\ u.timer = t.timer
      /\ \A s \in Slots : u.have[s] = IF s = SlotOf[rec.type] THEN rec ELSE t.have[s]
      /\ u \in ResolverStates
  BY <1>1, <1>2, <1>3 DEF ResolverStates
<1> HIDE DEF u
<1>5. Filled(u, conf.needs)
  BY <1>1, <1>2, <1>4 DEF Good, Filled
<1>6. Asked(u, conf.needs)
  BY <1>4 DEF Good, Asked, Tells
<1>7. OfHost(u)
  BY <1>2, <1>4 DEF Good, OfHost, Tells
<1>8. HeldIn(u, C, w)
  BY <1>2, <1>4 DEF HeldIn, Tells
<1> QED
  BY <1>4, <1>5, <1>6, <1>7, <1>8 DEF Good, u

\* The outcome of a step, with the cache C and the kind w of its browsers.
Outcome(C, w) == Good(r', conf.needs) /\ Sound(r', conf.needs, reported') /\ HeldIn(r', C, w)

LEMMA QuietlyOutcome ==
    ASSUME NEW u, NEW t, NEW C, NEW w, Good(u, conf.needs), HeldIn(u, C, w), Quietly(u),
           \/ /\ Sound(t, conf.needs, reported) /\ u.st = t.st /\ u.timer = t.timer
              /\ u.have = t.have \/ (~Full(u, conf.needs) /\ ~Full(t, conf.needs))
           \/ /\ u.timer /\ ~Full(u, conf.needs)
              /\ reported.event \in {"none", "FOUND", "FAILURE"}
    PROVE  Outcome(C, w)
<1>1. r' = u /\ reported' = reported
  BY DEF Quietly
<1> QED
  BY <1>1 DEF Outcome, Sound, Full

LEMMA FinishOutcome ==
    ASSUME NEW t, NEW C, NEW w, Good(t, conf.needs), HeldIn(t, C, w), NEW e \in {"FOUND", "FAILURE"},
           e = "FOUND" => Full(t, conf.needs), Finish(t, e)
    PROVE  Outcome(C, w)
  BY FinishGood DEF Outcome

\* AVAHI_BROWSER_NEW: what is kept is told once nothing lacks.
LEMMA PartNewOutcome ==
    ASSUME NEW t, NEW rec, NEW C, NEW w, ConfOK, Good(t, conf.needs), Sound(t, conf.needs, reported),
           HeldIn(t, C, w), Tells(t, rec, C), PartNew(t, rec)
    PROVE  Outcome(C, w)
<1> DEFINE s == SlotOf[rec.type]
           u == [t EXCEPT !.have[s] = rec]
<1>1. rec \in Records /\ s \in conf.needs
  BY DEF Tells, Relevant
<1>2. rec \in [type : Types, host : Hosts] /\ rec # NoRecord /\ s \in Slots
  BY <1>1, RecordFacts
<1>3. /\ Good(u, conf.needs) /\ HeldIn(u, C, w)
      /\ u.st = t.st /\ u.br = t.br /\ u.host = t.host /\ u.timer = t.timer
      /\ \A z \in Slots : u.have[z] = IF z = s THEN rec ELSE t.have[z]
  BY KeepGood
<1> HIDE DEF u
<1>4. CASE Quietly(t)
  BY <1>4, QuietlyOutcome, Zenon
<1>5. CASE conf.kind = "service"
  <2> DEFINE v == IF rec.type = "srv" THEN FollowHost(u, rec) ELSE u
  <2>1. Good(v, conf.needs) /\ HeldIn(v, C, w) /\ v.have = u.have /\ v.st = t.st /\ v.timer = t.timer
    <3>1. CASE rec.type # "srv"
      BY <1>3, <3>1
    <3>2. CASE rec.type = "srv"
      <4> DEFINE a == [u EXCEPT !.host = rec.host, !.br["a"] = "none", !.br["aaaa"] = "none"]
                 T == IF "address" \in conf.needs THEN conf.protos ELSE {}
      <4>1. u \in ResolverStates /\ u.st = "live"
        BY <1>3 DEF Good, Tells
      <4>2. /\ a \in ResolverStates /\ a.st = u.st /\ a.have = u.have /\ a.timer = u.timer
            /\ \A x \in Types : a.br[x] = IF x \in {"a", "aaaa"} THEN "none" ELSE u.br[x]
        BY <4>1, <1>2 DEF ResolverStates, BrowserStates
      <4> HIDE DEF a
      <4>3. u.have["ptr"] = NoRecord
        BY <1>3, <1>5 DEF Good, Filled, ConfOK
      <4>4. Good(a, conf.needs)
        BY <1>3, <4>1, <4>2, <4>3 DEF Good, Filled, Asked, OfHost
      <4>5. T \in SUBSET Types /\ \A x \in T : SlotOf[x] \in conf.needs /\ x \in {"a", "aaaa"}
        BY DEF ConfOK
      <4> HIDE DEF T
      <4>6. /\ Good(Deferred(a, T), conf.needs) /\ Deferred(a, T).have = a.have
            /\ Deferred(a, T).st = "live" /\ Deferred(a, T).timer = a.timer
            /\ \A x \in Types : Deferred(a, T).br[x] = IF x \in T THEN "deferred" ELSE a.br[x]
        BY <4>1, <4>2, <4>4, <4>5, DeferredGood
      <4>7. v = Deferred(a, T)
        BY <3>2 DEF FollowHost, a, T
      <4>8. \A z \in {"srv", "txt", "ptr"} : u.have[z] # NoRecord => u.have[z].type \in {"srv", "txt", "ptr"}
        BY <1>3, RecordFacts DEF Good, Filled
      <4>9. HeldIn(v, C, w)
        BY <1>3, <4>2, <4>5, <4>6, <4>7, <4>8 DEF HeldIn
      <4> QED
        BY <1>3, <4>1, <4>2, <4>6, <4>7, <4>9
    <3> QED
      BY <3>1, <3>2
  <2> HIDE DEF v
  <2>2. Quietly(t) \/ (Full(v, conf.needs) /\ Finish(v, "FOUND"))
          \/ (t.have[s] = NoRecord /\ ~Full(v, conf.needs) /\ Quietly(v))
    BY <1>5 DEF PartNew, ServiceBrowserNew, Full, Complete, v, u
  <2>3. CASE Full(v, conf.needs) /\ Finish(v, "FOUND")
    BY <2>1, <2>3, FinishOutcome
  <2>4. CASE t.have[s] = NoRecord /\ ~Full(v, conf.needs) /\ Quietly(v)
    <3>1. ~Full(t, conf.needs)
      BY <2>4, <1>1 DEF Full
    <3> QED
      BY <2>1, <2>4, <3>1, QuietlyOutcome
  <2> QED
    BY <1>4, <2>2, <2>3, <2>4
<1>6. CASE conf.kind \in {"host", "address"}
  <2>1. \/ Quietly(t)
        \/ /\ conf.kind = "host" /\ Finish([t EXCEPT !.have["address"] = rec], "FOUND")
        \/ /\ conf.kind = "address" /\ Finish([t EXCEPT !.have["ptr"] = rec], "FOUND")
    BY <1>6 DEF PartNew, HostBrowserNew, AddressBrowserNew
  <2>2. conf.needs = {s} /\ Full(u, conf.needs)
    BY <1>1, <1>2, <1>3, <1>6 DEF ConfOK, Full
  <2>3. Quietly(t) \/ Finish(u, "FOUND")
    BY <2>1, <2>2 DEF ConfOK, u
  <2> QED
    BY <1>3, <1>4, <2>2, <2>3, FinishOutcome
<1> QED
  BY <1>5, <1>6 DEF ConfOK

LEMMA StartTimeoutGood ==
    ASSUME NEW t, NEW n, Good(t, n), t.st = "live"
    PROVE  /\ Good(StartTimeout(t), n) /\ StartTimeout(t).timer /\ StartTimeout(t).st = "live"
           /\ StartTimeout(t).have = t.have /\ StartTimeout(t).br = t.br
<1>1. /\ StartTimeout(t) \in ResolverStates /\ StartTimeout(t).timer /\ StartTimeout(t).st = "live"
      /\ StartTimeout(t).have = t.have /\ StartTimeout(t).br = t.br /\ StartTimeout(t).host = t.host
  BY DEF StartTimeout, Good, ResolverStates
<1> QED
  BY <1>1 DEF Good, Filled, Asked, OfHost

\* AVAHI_BROWSER_REMOVE: the browsers in T look for a replacement.
LEMMA ReplaceOutcome ==
    ASSUME NEW t, NEW rec, NEW C, NEW w, ConfOK, Good(t, conf.needs), Sound(t, conf.needs, reported),
           HeldIn(t, C, w), Tells(t, rec, C), t.have[SlotOf[rec.type]] = rec,
           NEW T \in SUBSET Types, \A x \in T : SlotOf[x] = SlotOf[rec.type],
           NEW b, LET u == [t EXCEPT !.have[SlotOf[rec.type]] = NoRecord]
                  IN  b = u \/ b = [u EXCEPT !.br["a"] = "none", !.br["aaaa"] = "none"],
           Quietly(StartTimeout(Deferred(b, T)))
    PROVE  Outcome(C \ {rec}, w)
<1> DEFINE s == SlotOf[rec.type]
           u == [t EXCEPT !.have[s] = NoRecord]
<1>1. rec \in Records /\ s \in conf.needs
  BY DEF Tells, Relevant
<1>2. rec \in [type : Types, host : Hosts] /\ rec # NoRecord /\ s \in Slots
  BY <1>1, RecordFacts
<1>3. t \in ResolverStates
  BY DEF Good
<1>4. /\ u \in ResolverStates /\ u.st = t.st /\ u.br = t.br /\ u.host = t.host /\ u.timer = t.timer
      /\ \A z \in Slots : u.have[z] = IF z = s THEN NoRecord ELSE t.have[z]
  BY <1>2, <1>3 DEF ResolverStates
<1>5. b = u \/ b = [u EXCEPT !.br["a"] = "none", !.br["aaaa"] = "none"]
  OBVIOUS
<1> HIDE DEF u
<1>6. /\ b \in ResolverStates /\ b.st = "live" /\ b.have = u.have /\ b.host = t.host
      /\ \A x \in Types : b.br[x] = t.br[x] \/ (x \in {"a", "aaaa"} /\ b.br[x] = "none")
  <2>1. CASE b = u
    BY <1>4, <2>1 DEF Tells
  <2>2. CASE b = [u EXCEPT !.br["a"] = "none", !.br["aaaa"] = "none"]
    <3>1. /\ b.st = u.st /\ b.have = u.have /\ b.host = u.host /\ b.timer = u.timer
          /\ b.br = [u.br EXCEPT !["a"] = "none", !["aaaa"] = "none"]
      BY <1>4, <2>2 DEF ResolverStates
    <3>2. u.br \in [Types -> BrowserStates]
      BY <1>4 DEF ResolverStates
    <3>3. /\ b.br \in [Types -> BrowserStates]
          /\ \A x \in Types : b.br[x] = IF x \in {"a", "aaaa"} THEN "none" ELSE u.br[x]
      BY <3>1, <3>2 DEF BrowserStates
    <3>4. b \in ResolverStates
      BY <1>4, <2>2, <3>1, <3>3 DEF ResolverStates
    <3> QED
      BY <1>4, <3>1, <3>3, <3>4 DEF Tells
  <2> QED
    BY <1>5, <2>1, <2>2
<1>7. Good(b, conf.needs)
  <2>1. Filled(b, conf.needs)
    BY <1>4, <1>6 DEF Good, Filled
  <2>2. Asked(b, conf.needs)
    BY <1>6 DEF Good, Asked
  <2>3. OfHost(b)
    BY <1>4, <1>6 DEF Good, OfHost
  <2> QED
    BY <1>6, <2>1, <2>2, <2>3 DEF Good
<1> DEFINE d == Deferred(b, T)
           v == StartTimeout(d)
<1>8. /\ Good(d, conf.needs) /\ d.have = b.have /\ d.st = "live"
      /\ \A x \in Types : d.br[x] = IF x \in T THEN "deferred" ELSE b.br[x]
  BY <1>1, <1>6, <1>7, DeferredGood
<1> HIDE DEF d
<1>9. Good(v, conf.needs) /\ v.timer /\ v.have = u.have /\ v.br = d.br
  BY <1>6, <1>8, StartTimeoutGood
<1> HIDE DEF v
<1>10. ~Full(v, conf.needs)
  BY <1>1, <1>2, <1>4, <1>9 DEF Full
<1>11. HeldIn(v, C \ {rec}, w)
  <2> SUFFICES ASSUME ~w, NEW z \in {"srv", "txt", "ptr"}, v.have[z] # NoRecord
               PROVE  v.have[z] \in C \ {rec} /\ v.br[v.have[z].type] = "live"
    BY DEF HeldIn
  <2>1. z # s /\ v.have[z] = t.have[z]
    BY <1>4, <1>9
  <2>2. t.have[z] \in Records /\ SlotOf[t.have[z].type] = z
    BY <2>1 DEF Good, Filled
  <2>3. t.have[z].type \in Types
    BY <2>2, RecordFacts
  <2>4. t.have[z].type \notin T /\ t.have[z].type \notin {"a", "aaaa"} /\ t.have[z] # rec
    BY <2>1, <2>2
  <2>5. t.have[z] \in C /\ t.br[t.have[z].type] = "live"
    BY <2>1 DEF HeldIn
  <2>6. v.br[t.have[z].type] = "live"
    BY <1>6, <1>8, <1>9, <2>3, <2>4, <2>5
  <2> QED
    BY <2>1, <2>4, <2>5, <2>6
<1>12. Quietly(v)
  BY DEF v, d
<1> QED
  BY <1>9, <1>10, <1>11, <1>12, QuietlyOutcome DEF Sound

LEMMA PartRemoveOutcome ==
    ASSUME NEW t, NEW rec, NEW C, NEW w, ConfOK, Good(t, conf.needs), Sound(t, conf.needs, reported),
           HeldIn(t, C, w), Tells(t, rec, C), PartRemove(t, rec)
    PROVE  Outcome(C \ {rec}, w)
<1> DEFINE s == SlotOf[rec.type]
           u == [t EXCEPT !.have[s] = NoRecord]
           b == [u EXCEPT !.br["a"] = "none", !.br["aaaa"] = "none"]
<1>1. rec \in Records /\ s \in conf.needs /\ rec.type \in Types
  BY RecordFacts DEF Tells, Relevant
<1>2. CASE t.have[s] # rec
  <2>1. Quietly(t)
    BY <1>1, <1>2 DEF PartRemove, ServiceBrowserRemove, HostBrowserRemove, AddressBrowserRemove, ConfOK
  <2>2. HeldIn(t, C \ {rec}, w)
    BY <1>2 DEF HeldIn, Good, Filled
  <2> QED
    BY <2>1, <2>2, QuietlyOutcome, Zenon
<1>3. CASE t.have[s] = rec
  <2>1. \A T \in SUBSET Types : Running(u, T) \subseteq T
    BY DEF Running
  <2>2. CASE conf.kind = "service" /\ rec.type = "srv"
    <3>1. Quietly(StartTimeout(Deferred(b, {"srv"})))
      BY <1>3, <2>2 DEF PartRemove, ServiceBrowserRemove
    <3> QED
      BY <1>3, <2>2, <3>1, ReplaceOutcome
  <2>3. CASE conf.kind \in {"service", "host"} /\ s = "address"
    <3>1. Quietly(StartTimeout(Deferred(u, Running(u, {"a", "aaaa"}))))
      <4>1. CASE conf.kind = "service"
        <5>1. rec.type # "srv"
          BY <2>3
        <5> QED
          BY <1>3, <2>3, <4>1, <5>1 DEF PartRemove, ServiceBrowserRemove
      <4>2. CASE conf.kind = "host"
        <5>1. t.have["address"] = rec /\ u = [t EXCEPT !.have["address"] = NoRecord]
          BY <1>3, <2>3
        <5>2. Running(u, {"a", "aaaa"}) = Running(t, {"a", "aaaa"})
          BY <5>1 DEF Running, Good, ResolverStates
        <5>3. PartRemove(t, rec) <=> HostBrowserRemove(t, rec)
          BY <4>2 DEF PartRemove
        <5> HIDE DEF u
        <5> QED
          BY <5>1, <5>2, <5>3 DEF HostBrowserRemove
      <4> QED
        BY <2>3, <4>1, <4>2
    <3>2. Running(u, {"a", "aaaa"}) \in SUBSET Types
          /\ \A x \in Running(u, {"a", "aaaa"}) : SlotOf[x] = s
      BY <2>1, <2>3
    <3> QED
      BY <1>3, <3>1, <3>2, ReplaceOutcome
  <2>4. CASE conf.kind = "service" /\ rec.type = "txt"
    <3>1. Quietly(StartTimeout(Deferred(u, {"txt"})))
      BY <1>3, <2>4 DEF PartRemove, ServiceBrowserRemove
    <3> QED
      BY <1>3, <2>4, <3>1, ReplaceOutcome
  <2>5. CASE conf.kind = "address"
    <3>1. s = "ptr" /\ rec.type = "ptr"
      BY <1>1, <2>5 DEF ConfOK
    <3>2. Quietly(StartTimeout(Deferred(u, {"ptr"})))
      BY <1>3, <2>5, <3>1 DEF PartRemove, AddressBrowserRemove
    <3> QED
      BY <1>3, <3>1, <3>2, ReplaceOutcome
  <2> QED
    BY <1>1, <2>2, <2>3, <2>4, <2>5 DEF ConfOK
<1> QED
  BY <1>2, <1>3

(***************************************************************************)
(* The actions.                                                            *)
(***************************************************************************)
LEMMA OutcomeInv ==
    ASSUME ConfOK', conf'.needs = conf.needs, Outcome(cache', wide')
    PROVE  ResolverInv'
  BY DEF Outcome, ResolverInv

LEMMA StartInv ==
    ASSUME ResolverInv, ServiceResolverNew \/ HostNameResolverNew \/ AddressResolverNew
    PROVE  ResolverInv'
<1>1. PICK T \in SUBSET Types :
         /\ \A x \in T : SlotOf[x] \in conf.needs
         /\ r.st = "none"
         /\ Quietly(StartTimeout(Deferred([r EXCEPT !.st = "live"], T)))
         /\ UNCHANGED <<conf, wide, cache, changes>>
  <2>1. CASE ServiceResolverNew
    BY <2>1 DEF ServiceResolverNew, Start
  <2>2. CASE HostNameResolverNew
    BY <2>2 DEF HostNameResolverNew, Start, ResolverInv, ConfOK
  <2>3. CASE AddressResolverNew
    BY <2>3 DEF AddressResolverNew, Start, ResolverInv, ConfOK
  <2> QED
    BY <2>1, <2>2, <2>3
<1> DEFINE a == [r EXCEPT !.st = "live"]
           v == StartTimeout(Deferred(a, T))
<1>2. /\ a \in ResolverStates /\ a.st = "live" /\ a.br = r.br /\ a.have = r.have /\ a.host = r.host
      /\ \A s \in Slots : a.have[s] = NoRecord
  BY <1>1 DEF ResolverInv, Good, ResolverStates, Asked, NothingYet
<1> HIDE DEF a
<1>3. Good(a, conf.needs)
  BY <1>2 DEF ResolverInv, Good, Filled, Asked, OfHost
<1>4. Good(Deferred(a, T), conf.needs) /\ Deferred(a, T).have = a.have /\ Deferred(a, T).st = "live"
  BY <1>1, <1>2, <1>3, DeferredGood
<1>5. Good(v, conf.needs) /\ v.timer /\ v.have = a.have
  BY <1>4, StartTimeoutGood
<1>6. Quietly(v)
  BY <1>1 DEF a
<1> HIDE DEF v
<1>7. ~Full(v, conf.needs) /\ HeldIn(v, cache, wide)
  BY <1>2, <1>5 DEF Full, HeldIn, ResolverInv, ConfOK
<1>8. Outcome(cache, wide)
  BY <1>5, <1>6, <1>7, QuietlyOutcome DEF ResolverInv, Sound
<1> QED
  BY <1>1, <1>8, OutcomeInv DEF ResolverInv, ConfOK, Relevant

LEMMA FreeInv == ASSUME ResolverInv, ResolverFree PROVE ResolverInv'
<1>1. /\ r' = [r EXCEPT !.st = "freed", !.br = NoBrowsers, !.have = NothingYet, !.timer = FALSE]
      /\ UNCHANGED <<reported, conf, wide, cache>>
  BY DEF ResolverFree, Quietly
<1>2. r' \in ResolverStates /\ r'.st = "freed" /\ r'.br = NoBrowsers /\ r'.have = NothingYet /\ ~r'.timer
  BY <1>1 DEF ResolverInv, Good, ResolverStates, NoBrowsers, BrowserStates, NothingYet
<1>3. Good(r', conf.needs)
  BY <1>2 DEF Good, Filled, Asked, OfHost, NoBrowsers, NothingYet
<1>4. Sound(r', conf.needs, reported') /\ HeldIn(r', cache, wide)
  BY <1>1, <1>2 DEF ResolverInv, Sound, HeldIn, NothingYet
<1> QED
  BY <1>1, <1>3, <1>4 DEF ResolverInv, ConfOK, Relevant

LEMMA TimeoutInv == ASSUME ResolverInv, Timeout PROVE ResolverInv'
<1>1. Outcome(cache, wide)
  BY FinishOutcome DEF ResolverInv, Timeout
<1> QED
  BY <1>1, OutcomeInv DEF Timeout, ResolverInv, ConfOK, Relevant

\* A wide-area browser fails: what the resolver holds stays as it is.
LEMMA FailureInv ==
    ASSUME ResolverInv, NEW x \in Types,
           ServiceBrowserFailure(x) \/ HostBrowserFailure(x) \/ AddressBrowserFailure(x)
    PROVE  ResolverInv'
<1>1. wide /\ r.br[x] = "live" /\ r.have[SlotOf[x]].type # x
  BY DEF ServiceBrowserFailure, HostBrowserFailure, AddressBrowserFailure, Fails
<1>2. r \in ResolverStates /\ r.st = "live" /\ SlotOf[x] \in conf.needs
  BY <1>1 DEF ResolverInv, Good, Asked, NoBrowsers
<1>3. ASSUME NEW u \in ResolverStates, u.st = r.st, u.host = r.host, u.have = r.have,
             \A y \in Types : u.br[y] = "none" \/ r.br[y] # "none"
      PROVE  Good(u, conf.needs) /\ HeldIn(u, cache, wide)
  BY <1>1, <1>2, <1>3 DEF ResolverInv, Good, Filled, Asked, OfHost, HeldIn
<1>4. CASE ServiceBrowserFailure(x) \/ HostBrowserFailure(x)
  <2> DEFINE u1 == [r EXCEPT !.br[x] = "none"]
             u2 == [r EXCEPT !.br = NoBrowsers]
  <2>1. /\ u1 \in ResolverStates /\ u1.st = r.st /\ u1.host = r.host /\ u1.have = r.have /\ u1.timer = r.timer
        /\ \A y \in Types : u1.br[y] = "none" \/ r.br[y] # "none"
    BY <1>2 DEF ResolverStates, BrowserStates
  <2>2. /\ u2 \in ResolverStates /\ u2.st = r.st /\ u2.host = r.host /\ u2.have = r.have
        /\ \A y \in Types : u2.br[y] = "none"
    BY <1>2 DEF ResolverStates, BrowserStates, NoBrowsers
  <2>3. Quietly(u1) \/ Finish(u2, "FAILURE")
    BY <1>4 DEF ServiceBrowserFailure, HostBrowserFailure
  <2>4. UNCHANGED <<conf, wide, cache>>
    BY <1>4 DEF ServiceBrowserFailure, HostBrowserFailure
  <2> HIDE DEF u1, u2
  <2>5. CASE Quietly(u1)
    <3>1. Good(u1, conf.needs) /\ HeldIn(u1, cache, wide)
      BY <1>3, <2>1
    <3>2. Outcome(cache, wide)
      BY <2>1, <2>5, <3>1, QuietlyOutcome DEF ResolverInv
    <3> QED
      BY <2>4, <3>2, OutcomeInv DEF ResolverInv, ConfOK, Relevant
  <2>6. CASE Finish(u2, "FAILURE")
    <3>1. Good(u2, conf.needs) /\ HeldIn(u2, cache, wide)
      BY <1>3, <2>2
    <3>2. Outcome(cache, wide)
      BY <2>6, <3>1, FinishOutcome
    <3> QED
      BY <2>4, <3>2, OutcomeInv DEF ResolverInv, ConfOK, Relevant
  <2> QED
    BY <2>3, <2>5, <2>6
<1>5. CASE AddressBrowserFailure(x)
  <2>1. conf.kind = "address" /\ conf.needs = {"ptr"} /\ x = "ptr" /\ UNCHANGED cache
    BY <1>2, <1>5 DEF AddressBrowserFailure, Fails, ResolverInv, ConfOK
  <2>2. \A s \in Slots : r.have[s] = NoRecord
    BY <1>1, <1>2, <2>1, RecordFacts DEF ResolverInv, Good, Filled
  <2> DEFINE d == [r EXCEPT !.br[x] = "deferred"]
             v == StartTimeout(d)
             f == [r EXCEPT !.br[x] = "failed"]
  <2>3. CASE conf.retry
    <3>1. d \in ResolverStates /\ d.st = r.st /\ d.host = r.host /\ d.have = r.have
          /\ \A y \in Types : d.br[y] = "none" \/ r.br[y] # "none"
      BY <1>1, <1>2 DEF ResolverStates, BrowserStates
    <3>2. Quietly(v) /\ wide' = FALSE /\ conf' = [conf EXCEPT !.retry = FALSE]
      BY <1>5, <2>3 DEF AddressBrowserFailure
    <3> HIDE DEF d
    <3>3. Good(d, conf.needs)
      BY <1>3, <3>1
    <3>4. Good(v, conf.needs) /\ v.timer /\ v.have = r.have
      BY <1>2, <3>1, <3>3, StartTimeoutGood
    <3> HIDE DEF v
    <3>5. ~Full(v, conf.needs) /\ HeldIn(v, cache, FALSE)
      BY <2>1, <2>2, <3>4 DEF Full, HeldIn
    <3>6. Outcome(cache, FALSE)
      BY <3>2, <3>4, <3>5, QuietlyOutcome DEF ResolverInv, Sound
    <3>7. ConfOK' /\ conf'.needs = conf.needs
      BY <2>1, <3>2 DEF ResolverInv, ConfOK, Relevant
    <3> QED
      BY <2>1, <3>2, <3>6, <3>7, OutcomeInv
  <2>4. CASE ~conf.retry
    <3>1. f \in ResolverStates /\ f.st = r.st /\ f.host = r.host /\ f.have = r.have
          /\ \A y \in Types : f.br[y] = "none" \/ r.br[y] # "none"
      BY <1>1, <1>2 DEF ResolverStates, BrowserStates
    <3>2. Finish(f, "FAILURE") /\ UNCHANGED <<wide, conf>>
      BY <1>5, <2>4 DEF AddressBrowserFailure
    <3> HIDE DEF f
    <3>3. Good(f, conf.needs) /\ HeldIn(f, cache, wide)
      BY <1>3, <3>1
    <3>4. Outcome(cache, wide)
      BY <3>2, <3>3, FinishOutcome
    <3> QED
      BY <2>1, <3>2, <3>4, OutcomeInv DEF ResolverInv, ConfOK, Relevant
  <2> QED
    BY <2>3, <2>4
<1> QED
  BY <1>4, <1>5

\* The cached records are told, the first one of them.
LEMMA ScanInv == ASSUME ResolverInv, NEW x \in Types, Scan(x) PROVE ResolverInv'
<1> DEFINE t == [r EXCEPT !.br[x] = "live"]
<1>1. r \in ResolverStates /\ r.br[x] = "deferred" /\ r.st = "live" /\ SlotOf[x] \in conf.needs
  BY DEF ResolverInv, Good, Scan, Asked, NoBrowsers
<1>2. /\ t \in ResolverStates /\ t.st = "live" /\ t.host = r.host /\ t.have = r.have /\ t.timer = r.timer
      /\ \A y \in Types : t.br[y] = IF y = x THEN "live" ELSE r.br[y]
  BY <1>1 DEF ResolverStates, BrowserStates
<1>3. UNCHANGED <<conf, wide, cache>> /\
      (Quietly(t) \/ \E rec \in Answers(x, cache) : PartNew(t, rec))
  BY DEF Scan
<1> HIDE DEF t
<1>4. Good(t, conf.needs)
  BY <1>1, <1>2 DEF ResolverInv, Good, Filled, Asked, OfHost
<1>5. Sound(t, conf.needs, reported)
  BY <1>1, <1>2 DEF ResolverInv, Sound, Full
<1>6. HeldIn(t, cache, wide)
  <2> SUFFICES ASSUME ~wide, NEW z \in {"srv", "txt", "ptr"}, t.have[z] # NoRecord
               PROVE  t.have[z] \in cache /\ t.br[t.have[z].type] = "live"
    BY DEF HeldIn
  <2>1. r.have[z] \in cache /\ r.br[r.have[z].type] = "live" /\ r.have[z] \in Records
    BY <1>2 DEF ResolverInv, HeldIn, Good, Filled
  <2> QED
    BY <1>2, <2>1, RecordFacts
<1>7. CASE Quietly(t)
  <2>1. Outcome(cache, wide)
    BY <1>4, <1>5, <1>6, <1>7, QuietlyOutcome, Zenon
  <2> QED
    BY <1>3, <2>1, OutcomeInv DEF ResolverInv, ConfOK, Relevant
<1>8. CASE \E rec \in Answers(x, cache) : PartNew(t, rec)
  <2>1. PICK rec \in Answers(x, cache) : PartNew(t, rec)
    BY <1>8
  <2>2. Tells(t, rec, cache) /\ ConfOK
    BY <1>1, <1>2 DEF Tells, Answers, ResolverInv, ConfOK
  <2>3. Outcome(cache, wide)
    BY <1>4, <1>5, <1>6, <2>1, <2>2, PartNewOutcome
  <2> QED
    BY <1>3, <2>3, OutcomeInv DEF ResolverInv, ConfOK, Relevant
<1> QED
  BY <1>3, <1>7, <1>8

LEMMA ReportedTells ==
    ASSUME ResolverInv, NEW rec \in Relevant(conf), NEW C, rec \in C, Reported(rec)
    PROVE  Tells(r, rec, C)
<1>1. rec.type \in Types
  BY RecordFacts DEF Relevant
<1>2. r.st = "live"
  BY <1>1 DEF Reported, ResolverInv, Good, Asked, NoBrowsers
<1> QED
  BY <1>2 DEF Tells, Reported, Answers

LEMMA AppearInv ==
    ASSUME ResolverInv, NEW rec \in Relevant(conf), Appear(rec)
    PROVE  ResolverInv'
<1>1. /\ cache' = cache \cup {rec} /\ UNCHANGED <<conf, wide>> /\ rec \in cache'
      /\ IF Reported(rec) THEN PartNew(r, rec) ELSE UNCHANGED <<r, reported>>
  BY DEF Appear
<1>2. ConfOK' /\ conf'.needs = conf.needs /\ wide' = wide
  BY <1>1 DEF ResolverInv, ConfOK, Relevant
<1>3. HeldIn(r, cache', wide)
  BY <1>1 DEF ResolverInv, HeldIn
<1>4. CASE Reported(rec)
  <2>1. Outcome(cache', wide)
    BY <1>1, <1>3, <1>4, ReportedTells, PartNewOutcome DEF ResolverInv
  <2> QED
    BY <1>2, <2>1, OutcomeInv
<1>5. CASE ~Reported(rec)
  BY <1>1, <1>2, <1>3, <1>5 DEF ResolverInv
<1> QED
  BY <1>4, <1>5

LEMMA DisappearInv ==
    ASSUME ResolverInv, NEW rec \in Relevant(conf), Disappear(rec)
    PROVE  ResolverInv'
<1>1. /\ rec \in cache /\ cache' = cache \ {rec} /\ UNCHANGED <<conf, wide>>
      /\ IF Reported(rec) /\ ~wide THEN PartRemove(r, rec) ELSE UNCHANGED <<r, reported>>
  BY DEF Disappear
<1>2. ConfOK' /\ conf'.needs = conf.needs /\ wide' = wide
  BY <1>1 DEF ResolverInv, ConfOK, Relevant
<1>3. CASE Reported(rec) /\ ~wide
  <2>1. Outcome(cache \ {rec}, wide)
    BY <1>1, <1>3, ReportedTells, PartRemoveOutcome DEF ResolverInv
  <2> QED
    BY <1>1, <1>2, <2>1, OutcomeInv
<1>4. CASE wide
  BY <1>1, <1>2, <1>4 DEF ResolverInv, HeldIn
<1>5. CASE ~Reported(rec) /\ ~wide
  <2>1. \A z \in {"srv", "txt", "ptr"} : r.have[z] # rec
    <3> SUFFICES ASSUME NEW z \in {"srv", "txt", "ptr"}, r.have[z] = rec
                 PROVE  FALSE
      OBVIOUS
    <3>1. rec # NoRecord /\ rec.type \in Types
      BY RecordFacts DEF Relevant
    <3>2. SlotOf[rec.type] = z /\ r.br[rec.type] = "live"
      BY <1>5, <3>1 DEF ResolverInv, Good, Filled, HeldIn
    <3>3. rec.type = "ptr" => rec.host = r.host
      BY <3>1, <3>2 DEF ResolverInv, Good, OfHost
    <3>4. rec.type \notin {"a", "aaaa"}
      BY <3>2
    <3> QED
      BY <1>5, <3>2, <3>3, <3>4 DEF Reported, Answers
  <2>2. HeldIn(r, cache', wide)
    BY <1>1, <2>1 DEF ResolverInv, HeldIn
  <2> QED
    BY <1>1, <1>2, <1>5, <2>2 DEF ResolverInv
<1> QED
  BY <1>3, <1>4, <1>5 DEF ResolverInv, ConfOK

LEMMA ResolverNextInv == ResolverInv /\ [ResolverNext]_resolverVars => ResolverInv'
<1> SUFFICES ASSUME ResolverInv, [ResolverNext]_resolverVars
             PROVE  ResolverInv'
  OBVIOUS
<1>1. CASE UNCHANGED resolverVars
  BY <1>1 DEF resolverVars, ResolverInv, ConfOK, Relevant
<1> QED
  BY <1>1, StartInv, FreeInv, TimeoutInv, FailureInv, ScanInv, AppearInv, DisappearInv DEF ResolverNext

LEMMA ResolverInvariance == ResolverSpec => []ResolverInv
BY ResolverInitInv, ResolverNextInv, PTL DEF ResolverSpec

LEMMA InvProperties ==
    ASSUME ResolverInv
    PROVE  ResolverTypeOK /\ NeverSilent /\ FoundIsTold /\ HeldIsCached
<1>1. Complete(r) <=> Full(r, conf.needs)
  BY DEF Complete, Full
<1>2. ResolverTypeOK
  BY DEF ResolverTypeOK, ResolverInv, Good, Filled, Asked, Sound, ResolverStates, BrowserStates, NothingYet
<1>3. NeverSilent /\ FoundIsTold
  BY <1>1 DEF NeverSilent, FoundIsTold, ResolverInv, Sound
<1>4. HeldIsCached
  BY DEF HeldIsCached, ResolverInv, HeldIn
<1> QED
  BY <1>2, <1>3, <1>4

(***************************************************************************)
(* The theorems                                                            *)
(***************************************************************************)
\* Every record is kept where it belongs, and no timer outlives its resolver.
THEOREM ResolverTypeCorrect == ResolverSpec => []ResolverTypeOK
BY ResolverInvariance, InvProperties, PTL

\* A resolver that lacks a record has told of a failure or has its timer
\* running (start_timeout and time_event_callback of the three resolvers).
THEOREM ResolverNotSilent == ResolverSpec => []NeverSilent
BY ResolverInvariance, InvProperties, PTL

\* A resolver that lacks nothing has told its client what it holds, whatever
\* was replaced, timed out or failed since (finish).
THEOREM ResolverTells == ResolverSpec => []FoundIsTold
BY ResolverInvariance, InvProperties, PTL

\* What a resolver holds by multicast, an address aside, is in the cache and
\* a browser of its own watches it (record_browser_callback).
THEOREM ResolverHoldsCached == ResolverSpec => []HeldIsCached
BY ResolverInvariance, InvProperties, PTL

\* All of it: what a resolver holds, what it has told, its timer and the cache
\* agree, for any hosts and records.
THEOREM ResolverCorrect == ResolverSpec => []ResolverSafe
BY ResolverTypeCorrect, ResolverNotSilent, ResolverTells, ResolverHoldsCached, PTL DEF ResolverSafe

-----------------------------------------------------------------------------
(***************************************************************************)
(* WideArea                                                                *)
(***************************************************************************)

LookStates == [st : {"none", "running", "stopped", "dead"}, n : 0..MaxSends,
               used : Servers \cup {Nobody}, tried : SUBSET Servers,
               told : SUBSET WideRecords,
               end : {<<>>, <<"ALL_FOR_NOW">>, <<"FAILURE">>}]

\* Only a lookup that does not run has heard that it ended.
Unended == \A l \in Lookups : look[l].st \in {"none", "running"} => look[l].end = <<>>

\* While the servers are the first ones: the server asked last was tried, and
\* after FirstSends tries so was another one.
TriedBy(k) ==
    /\ k.n > 0 /\ k.used \in k.tried
    /\ k.n > FirstSends => \E a, b \in k.tried : a # b

TriesGrow ==
    serverChanges = 0 /\ Len(servers) > 1
        => \A l \in Lookups : look[l].st = "running" => TriedBy(look[l])

WideInv ==
    /\ WideTypeOK /\ serverChanges \in Nat /\ look \in [Lookups -> LookStates]
    /\ Unended /\ TriesGrow

LEMMA ListIsSeq ==
    ASSUME NEW list \in Lists
    PROVE  /\ list \in Seq(Servers) /\ Len(list) \in Nat
           /\ \A i, j \in 1..Len(list) : list[i] = list[j] => i = j
<1>1. Cardinality(Servers) \in Nat
  BY WideAssumption, FS_CardinalityType
<1>2. PICK n \in 0..Cardinality(Servers) : list \in [1..n -> Servers]
  BY DEF Lists
<1>3. n \in Nat
  BY <1>1, <1>2
<1>4. list \in Seq(Servers) /\ Len(list) = n
  BY <1>2, <1>3
<1>5. \A i, j \in DOMAIN list : list[i] = list[j] => i = j
  BY DEF Lists
<1> QED
  BY <1>3, <1>4, <1>5

\* The place asked next is one of the list, and another one if there are two.
LEMMA NextIsAnother ==
    ASSUME NEW c \in 1..Len(servers) \cup {1}, servers \in Lists
    PROVE  /\ NextServer(c) \in 1..Len(servers) \cup {1}
           /\ Len(servers) > 1 => /\ NextServer(c) \in 1..Len(servers)
                                  /\ c \in 1..Len(servers)
                                  /\ servers[NextServer(c)] # servers[c]
<1>1. Len(servers) \in Nat /\ \A i, j \in 1..Len(servers) : servers[i] = servers[j] => i = j
  BY ListIsSeq
<1>2. /\ NextServer(c) \in 1..Len(servers) \cup {1} /\ c \in Nat
      /\ Len(servers) > 1 => /\ NextServer(c) \in 1..Len(servers) /\ c \in 1..Len(servers)
                             /\ NextServer(c) # c
  BY <1>1 DEF NextServer
<1> QED
  BY <1>1, <1>2

\* One try: the lookup counts it, and the server is among those it tried.
LEMMA SendState ==
    ASSUME NEW k \in LookStates, NEW c \in 1..Len(servers) \cup {1}, servers \in Lists,
           k.n < MaxSends
    PROVE  /\ Send(k, c) \in LookStates /\ Send(k, c).n = k.n + 1
           /\ Send(k, c).st = k.st /\ Send(k, c).end = k.end
           /\ servers # <<>> => /\ Send(k, c).used = servers[c]
                                /\ Send(k, c).tried = k.tried \cup {servers[c]}
                                /\ servers[c] \in Servers
<1>1. servers \in Seq(Servers)
  BY ListIsSeq
<1>2. servers # <<>> => servers[c] \in Servers
  BY <1>1
<1>3. MaxSends \in Nat /\ k.n \in Nat /\ k.n + 1 \in 0..MaxSends
  BY WideAssumption DEF LookStates
<1>4. CASE servers = <<>>
  <2>1. Send(k, c) = [k EXCEPT !.n = @ + 1]
    BY <1>4 DEF Send
  <2> QED
    BY <2>1, <1>3, <1>4 DEF LookStates
<1>5. CASE servers # <<>>
  <2>1. Send(k, c) = [k EXCEPT !.n = @ + 1, !.used = servers[c], !.tried = @ \cup {servers[c]}]
    BY <1>5 DEF Send
  <2> QED
    <3>1. servers[c] \in Servers \cup {Nobody} /\ k.tried \cup {servers[c]} \in SUBSET Servers
      BY <1>2, <1>5 DEF LookStates
    <3>2. Send(k, c) \in LookStates
      BY <2>1, <3>1, <1>3 DEF LookStates
    <3> QED
      BY <2>1, <3>2, <1>2 DEF LookStates
<1> QED
  BY <1>4, <1>5

LEMMA StopState ==
    ASSUME NEW k \in LookStates, k.end = <<>>, NEW e \in {"ALL_FOR_NOW", "FAILURE"}
    PROVE  /\ Stop(k, e) \in LookStates /\ Stop(k, e).st = "stopped"
           /\ Stop(k, e).tried = k.tried /\ Stop(k, e).n = k.n
<1>1. Append(k.end, e) = <<e>>
  OBVIOUS
<1> QED
  BY <1>1 DEF Stop, LookStates

LEMMA WideInitInv == WideInit => WideInv
<1> SUFFICES ASSUME WideInit PROVE WideInv
  OBVIOUS
<1>1. NoLookup \in LookStates
  BY WideAssumption DEF NoLookup, LookStates
<1>2. \A l \in Lookups : look[l] = NoLookup
  BY DEF WideInit
<1>3. WideTypeOK
  <2>1. Cardinality({}) = 0
    BY FS_EmptySet
  <2>2. firstServer \in Servers \cup {Nobody}
    <3>1. servers # <<>> => servers[1] \in Servers
      BY ListIsSeq DEF WideInit
    <3> QED
      BY <3>1 DEF WideInit
  <2> QED
    BY <1>2, <2>1, <2>2, WideAssumption DEF WideTypeOK, WideInit, NoLookup
<1> QED
  BY <1>1, <1>2, <1>3 DEF WideInv, WideInit, Unended, TriesGrow, NoLookup

\* What one lookup does to itself, with the servers as they are.
LEMMA OneLookup ==
    ASSUME WideInv, NEW l \in Lookups, NEW k \in LookStates,
           look' = [look EXCEPT ![l] = k],
           k.st \in {"none", "running"} => k.end = <<>>,
           k.st = "running" /\ serverChanges = 0 /\ Len(servers) > 1 => TriedBy(k),
           current' \in 1..Len(servers) \cup {1},
           UNCHANGED <<servers, firstServer, cached, serverChanges>>
    PROVE  WideInv'
<1>1. \A m \in Lookups : look'[m] = IF m = l THEN k ELSE look[m]
  BY DEF WideInv
<1>2. look' \in [Lookups -> LookStates]
  BY DEF WideInv
<1>3. Unended'
  BY <1>1 DEF WideInv, Unended
<1>4. TriesGrow'
  BY <1>1 DEF WideInv, TriesGrow
<1>5. WideTypeOK'
  BY <1>2 DEF WideInv, WideTypeOK, LookStates
<1> QED
  BY <1>2, <1>3, <1>4, <1>5 DEF WideInv

LEMMA LookupGoInv == ASSUME WideInv, NEW l \in Lookups, LookupGo(l) PROVE WideInv'
<1> DEFINE found == ScanCache(l)
           t == [NoLookup EXCEPT !.told = found]
<1>1. /\ current \in 1..Len(servers) \cup {1} /\ servers \in Lists
      /\ 0 < MaxSends /\ FirstSends \in Nat \ {0} /\ MaxSends \in Nat
  BY WideAssumption DEF WideInv, WideTypeOK
<1>2. t \in LookStates /\ t.n = 0 /\ t.end = <<>> /\ t.st = "none" /\ t.tried = {}
  BY <1>1 DEF WideInv, WideTypeOK, ScanCache, NoLookup, LookStates
<1>3. CASE found # {}
  <2> DEFINE k == [t EXCEPT !.st = "stopped", !.end = <<"ALL_FOR_NOW">>]
  <2>1. k \in LookStates /\ k.st = "stopped"
    BY <1>2 DEF LookStates
  <2>2. look' = [look EXCEPT ![l] = k]
    BY <1>3 DEF LookupGo
  <2> QED
    BY <1>1, <2>1, <2>2, OneLookup DEF LookupGo
<1>4. CASE found = {} /\ servers = <<>>
  <2> DEFINE k == [t EXCEPT !.st = "stopped", !.end = <<"FAILURE">>]
  <2>1. k \in LookStates /\ k.st = "stopped"
    BY <1>2 DEF LookStates
  <2>2. look' = [look EXCEPT ![l] = k]
    BY <1>4 DEF LookupGo
  <2> QED
    BY <1>1, <2>1, <2>2, OneLookup DEF LookupGo
<1>5. CASE found = {} /\ servers # <<>>
  <2> DEFINE k == [Send(t, current) EXCEPT !.st = "running"]
  <2>1. /\ Send(t, current) \in LookStates /\ Send(t, current).n = 1 /\ Send(t, current).end = <<>>
        /\ Send(t, current).used \in Send(t, current).tried
    <3> HIDE DEF t
    <3> QED
      BY <1>1, <1>2, <1>5, SendState
  <2>2. k \in LookStates /\ k.end = <<>> /\ k.n = 1 /\ k.used \in k.tried
    BY <2>1 DEF LookStates
  <2>3. TriedBy(k)
    BY <1>1, <2>2 DEF TriedBy
  <2>4. look' = [look EXCEPT ![l] = k]
    BY <1>5 DEF LookupGo
  <2> QED
    BY <1>1, <2>2, <2>3, <2>4, OneLookup DEF LookupGo
<1> QED
  BY <1>3, <1>4, <1>5

\* A try after the first: whoever is asked, once FirstSends tries are over it
\* is not the server that was asked last.
LEMMA SenderTimeoutInv == ASSUME WideInv, NEW l \in Lookups, SenderTimeout(l) PROVE WideInv'
<1> DEFINE k == look[l]
           switch == k.n >= FirstSends /\ ServerAt(current) = k.used
           c == IF switch THEN NextServer(current) ELSE current
           alone == switch /\ ServerAt(c) = k.used
<1>1. /\ current \in 1..Len(servers) \cup {1} /\ servers \in Lists
      /\ FirstSends \in Nat \ {0} /\ MaxSends \in Nat /\ FirstSends < MaxSends
  BY WideAssumption DEF WideInv, WideTypeOK
<1>2. k \in LookStates /\ k.st = "running" /\ k.end = <<>>
  BY DEF WideInv, Unended, SenderTimeout
<1>3. c \in 1..Len(servers) \cup {1}
  BY <1>1, NextIsAnother
<1>4. current' = c /\ UNCHANGED <<servers, firstServer, cached, serverChanges>>
  BY DEF SenderTimeout
<1>5. CASE k.n >= MaxSends \/ alone
  <2>1. look' = [look EXCEPT ![l] = Stop(k, "FAILURE")]
    BY <1>5 DEF SenderTimeout
  <2>2. Stop(k, "FAILURE") \in LookStates /\ Stop(k, "FAILURE").st = "stopped"
    BY <1>2, StopState
  <2> QED
    BY <1>3, <1>4, <2>1, <2>2, OneLookup
<1>6. CASE ~(k.n >= MaxSends \/ alone)
  <2>1. look' = [look EXCEPT ![l] = Send(k, c)]
    BY <1>6 DEF SenderTimeout
  <2>2. k.n \in Nat /\ k.n < MaxSends
    BY <1>1, <1>2, <1>6 DEF LookStates
  <2>3. /\ Send(k, c) \in LookStates /\ Send(k, c).n = k.n + 1
        /\ Send(k, c).st = k.st /\ Send(k, c).end = k.end
        /\ servers # <<>> => /\ Send(k, c).used = servers[c]
                             /\ Send(k, c).tried = k.tried \cup {servers[c]}
    BY <1>1, <1>2, <1>3, <2>2, SendState
  <2>4. ASSUME serverChanges = 0, Len(servers) > 1
        PROVE  TriedBy(Send(k, c))
    <3>1. TriedBy(k)
      BY <1>2, <2>4 DEF WideInv, TriesGrow
    <3>2. servers # <<>>
      BY <2>4
    <3>3. k.n >= FirstSends => servers[c] # k.used
      BY <1>1, <1>6, <3>2, <2>4 DEF ServerAt
    <3>4. Send(k, c).n > FirstSends => \E a, b \in Send(k, c).tried : a # b
      <4>1. CASE k.n > FirstSends
        BY <4>1, <2>3, <3>1, <3>2 DEF TriedBy
      <4>2. CASE k.n = FirstSends
        <5>1. k.used \in Send(k, c).tried /\ servers[c] \in Send(k, c).tried
          BY <2>3, <3>1, <3>2 DEF TriedBy
        <5> QED
          BY <5>1, <4>2, <1>1, <3>3
      <4>3. CASE k.n < FirstSends
        BY <4>3, <1>1, <2>2, <2>3
      <4> QED
        BY <4>1, <4>2, <4>3, <1>1, <2>2
    <3> QED
      BY <2>2, <2>3, <3>2, <3>4 DEF TriedBy
  <2> QED
    BY <1>2, <1>3, <1>4, <2>1, <2>3, <2>4, OneLookup
<1> QED
  BY <1>5, <1>6

LEMMA LookupFreeInv == ASSUME WideInv, NEW l \in Lookups, LookupFree(l) PROVE WideInv'
<1> DEFINE k == [look[l] EXCEPT !.st = "dead"]
<1>1. k \in LookStates /\ k.st = "dead" /\ look' = [look EXCEPT ![l] = k]
  BY DEF WideInv, LookStates, LookupFree
<1> QED
  BY <1>1, OneLookup DEF LookupFree, WideInv, WideTypeOK

\* What a lookup heard changes nothing else of it.
LEMMA HeardState ==
    ASSUME NEW k \in LookStates, NEW l \in Lookups, NEW N \in SUBSET WideRecords
    PROVE  /\ Heard(k, l, N) \in LookStates /\ Heard(k, l, N).st = k.st
           /\ Heard(k, l, N).end = k.end /\ Heard(k, l, N).n = k.n
           /\ Heard(k, l, N).used = k.used /\ Heard(k, l, N).tried = k.tried
  BY DEF Heard, LookStates

LEMMA HandlePacketInv ==
    ASSUME WideInv, NEW l \in Lookups, NEW R \in SUBSET WideRecords, NEW ok \in BOOLEAN,
           HandlePacket(l, R, ok)
    PROVE  WideInv'
<1> DEFINE N == R \ cached
           final == IF ok THEN "ALL_FOR_NOW" ELSE "FAILURE"
           t == [k \in Lookups |-> Heard(look[k], k, N)]
<1>1. look \in [Lookups -> LookStates] /\ N \in SUBSET WideRecords
  BY DEF WideInv
<1>2. \A m \in Lookups :
        /\ t[m] \in LookStates /\ t[m].st = look[m].st /\ t[m].end = look[m].end
        /\ t[m].n = look[m].n /\ t[m].used = look[m].used /\ t[m].tried = look[m].tried
  BY <1>1, HeardState
<1>3. t[l].st = "running" => /\ Stop(t[l], final) \in LookStates
                             /\ Stop(t[l], final).st = "stopped"
  <2>1. look[l].st = "running" => look[l].end = <<>>
    BY DEF WideInv, Unended
  <2>2. final \in {"ALL_FOR_NOW", "FAILURE"}
    OBVIOUS
  <2> QED
    BY <1>2, <2>1, <2>2, StopState
<1>4. look' = IF t[l].st = "running" THEN [t EXCEPT ![l] = Stop(@, final)] ELSE t
  BY DEF HandlePacket
<1>5. \A m \in Lookups :
        \/ look'[m] = t[m]
        \/ look'[m] \in LookStates /\ look'[m].st = "stopped"
  BY <1>3, <1>4
<1>6. look' \in [Lookups -> LookStates]
  BY <1>2, <1>3, <1>4
<1>7. Unended'
  BY <1>2, <1>5 DEF WideInv, Unended
<1>8. TriesGrow'
  <2>1. UNCHANGED <<servers, serverChanges>>
    BY DEF HandlePacket
  <2>2. ASSUME NEW m \in Lookups, look'[m].st = "running", TriedBy(look[m])
        PROVE  TriedBy(look'[m])
    <3>1. look'[m] = t[m]
      BY <1>5, <2>2
    <3>2. /\ look'[m].n = look[m].n /\ look'[m].used = look[m].used
          /\ look'[m].tried = look[m].tried
      BY <1>2, <3>1
    <3> QED
      BY <2>2, <3>2 DEF TriedBy
  <2>3. \A m \in Lookups : look'[m].st = "running" => look[m].st = "running"
    BY <1>2, <1>5
  <2> QED
    BY <2>1, <2>2, <2>3 DEF WideInv, TriesGrow
<1>9. cached' \subseteq WideRecords /\ Cardinality(cached') <= CacheMax
  <2>1. PICK C \in Kept(N) : cached' = cached \cup C
    BY DEF HandlePacket
  <2> QED
    BY <2>1, <1>1 DEF Kept, WideInv, WideTypeOK
<1>10. WideTypeOK'
  BY <1>6, <1>9 DEF WideTypeOK, WideInv, HandlePacket, LookStates
<1> QED
  BY <1>6, <1>7, <1>8, <1>10 DEF WideInv, HandlePacket

LEMMA ExpiryEventInv ==
    ASSUME WideInv, NEW rr \in WideRecords, ExpiryEvent(rr)
    PROVE  WideInv'
<1>1. IsFiniteSet(cached)
  BY WideAssumption, FS_Subset DEF WideInv, WideTypeOK
<1>2. /\ Cardinality(cached) \in Nat /\ Cardinality(cached') \in Nat
      /\ Cardinality(cached') <= Cardinality(cached)
  BY <1>1, FS_CardinalityType, FS_Subset, FS_RemoveElement DEF ExpiryEvent
<1>3. Cardinality(cached') <= CacheMax
  BY <1>2, WideAssumption DEF WideInv, WideTypeOK
<1> QED
  BY <1>3 DEF ExpiryEvent, WideInv, WideTypeOK, Unended, TriesGrow

LEMMA SetServersInv ==
    ASSUME WideInv, NEW list \in Lists, SetServers(list)
    PROVE  WideInv'
<1>1. serverChanges' \in Nat /\ serverChanges' # 0
  BY DEF WideInv, SetServers
<1>2. /\ look' \in [Lookups -> LookStates]
      /\ \A l \in Lookups : /\ look'[l].st = look[l].st /\ look'[l].end = look[l].end
                            /\ look'[l].n = look[l].n
  BY DEF SetServers, WideInv, LookStates
<1>3. Cardinality(cached') <= CacheMax
  BY FS_EmptySet, WideAssumption DEF SetServers
<1>4. WideTypeOK'
  <2>1. list # <<>> => list[1] \in Servers
    BY ListIsSeq
  <2>2. firstServer' \in Servers \cup {Nobody}
    BY <2>1 DEF SetServers, WideInv, WideTypeOK
  <2> QED
    BY <1>2, <1>3, <2>2 DEF SetServers, WideInv, WideTypeOK
<1> QED
  BY <1>1, <1>2, <1>4 DEF WideInv, Unended, TriesGrow

LEMMA WideNextInv == WideInv /\ [WideNext]_wideVars => WideInv'
<1> SUFFICES ASSUME WideInv, [WideNext]_wideVars
             PROVE  WideInv'
  OBVIOUS
<1>1. CASE \E l \in Lookups : \/ LookupGo(l) \/ SenderTimeout(l) \/ LookupFree(l)
                              \/ \E R \in SUBSET WideRecords, ok \in BOOLEAN : HandlePacket(l, R, ok)
  BY <1>1, LookupGoInv, SenderTimeoutInv, LookupFreeInv, HandlePacketInv
<1>2. CASE \E rr \in WideRecords : ExpiryEvent(rr)
  BY <1>2, ExpiryEventInv
<1>3. CASE \E list \in Lists : SetServers(list)
  BY <1>3, SetServersInv
<1>4. CASE UNCHANGED wideVars
  BY <1>4 DEF wideVars, WideInv, WideTypeOK, Unended, TriesGrow
<1> QED
  BY <1>1, <1>2, <1>3, <1>4 DEF WideNext

LEMMA WideInvariance == WideSpec => []WideInv
BY WideInitInv, WideNextInv, PTL DEF WideSpec

(***************************************************************************)
(* The theorems                                                            *)
(***************************************************************************)
\* The server asked is one of the list, the cache keeps its bound and no
\* lookup tries more often than it may (wide-area.c:123-161, 174-208, 402-449).
THEOREM WideTypeCorrect == WideSpec => []WideTypeOK
<1>1. WideInv => WideTypeOK
  BY DEF WideInv
<1> QED
  BY WideInvariance, <1>1, PTL

\* A lookup ends once, however many answers come and however late.
\* (lookup_stop and handle_packet, wide-area.c:163-172, 480-551).
THEOREM LookupEndsOnce == WideSpec => []EndsOnce
<1>1. WideInv => EndsOnce
  BY DEF WideInv, EndsOnce, LookStates
<1> QED
  BY WideInvariance, <1>1, PTL

\* A lookup is given up only after it asked two servers, if there are two,
\* however often other lookups moved current_dns_server in the meantime.
\* (sender_timeout_callback, wide-area.c:174-208).
THEOREM AnotherServerTried == WideSpec => OtherServerTried
<1> DEFINE A == \A l \in Lookups :
                  SenderTimeout(l) /\ look'[l].st = "stopped" /\ look[l].n >= MaxSends
                    /\ Len(servers) > 1 /\ serverChanges = 0
                  => Cardinality(look[l].tried) > 1
<1>1. WideInv => A
  <2> SUFFICES ASSUME WideInv, NEW l \in Lookups, SenderTimeout(l), look[l].n >= MaxSends,
                      Len(servers) > 1, serverChanges = 0
               PROVE  Cardinality(look[l].tried) > 1
    OBVIOUS
  <2>1. look[l].st = "running" /\ look[l] \in LookStates
    BY DEF SenderTimeout, WideInv
  <2>2. look[l].n > FirstSends
    BY <2>1, WideAssumption DEF LookStates
  <2>3. PICK a, b \in look[l].tried : a # b
    BY <2>1, <2>2 DEF WideInv, TriesGrow, TriedBy
  <2>4. IsFiniteSet(look[l].tried)
    BY <2>1, WideAssumption, FS_Subset DEF LookStates
  <2>5. /\ Cardinality(look[l].tried) \in Nat /\ Cardinality(look[l].tried) # 0
        /\ Cardinality(look[l].tried \ {a}) \in Nat /\ Cardinality(look[l].tried \ {a}) # 0
        /\ Cardinality(look[l].tried \ {a}) = Cardinality(look[l].tried) - 1
    BY <2>3, <2>4, FS_CardinalityType, FS_EmptySet, FS_RemoveElement
  <2> QED
    BY <2>5
<1>2. WideInv /\ [WideNext]_wideVars => [A]_wideVars
  BY <1>1
<1> QED
  BY WideInvariance, <1>2, PTL DEF OtherServerTried, WideSpec

(***************************************************************************)
(* What a lookup that runs has told: all that the cache has for it.        *)
(***************************************************************************)
Remembered == \A l \in Lookups : look[l].st = "running" => ScanCache(l) \subseteq look[l].told

LEMMA RememberedStep == WideInv /\ Remembered /\ [WideNext]_wideVars => Remembered'
<1> SUFFICES ASSUME WideInv, Remembered, [WideNext]_wideVars,
                    NEW k \in Lookups, look'[k].st = "running",
                    NEW rr \in cached', WideKeyOf[rr] = KeyFor[k]
             PROVE  rr \in look'[k].told
  BY DEF Remembered, ScanCache
<1>0. look \in [Lookups -> LookStates]
  BY DEF WideInv
<1>1. CASE \E l \in Lookups : LookupGo(l)
  <2> PICK l \in Lookups : LookupGo(l)
    BY <1>1
  <2>1. CASE k = l
    <3>1. ScanCache(l) = {} \/ look'[l].st = "stopped"
      BY <1>0 DEF LookupGo, NoLookup
    <3> QED
      BY <2>1, <3>1 DEF LookupGo, ScanCache
  <2>2. CASE k # l
    BY <1>0, <2>2 DEF LookupGo, Remembered, ScanCache
  <2> QED
    BY <2>1, <2>2
<1>2. CASE \E l \in Lookups : SenderTimeout(l)
  <2> PICK l \in Lookups : SenderTimeout(l)
    BY <1>2
  <2>1. look[k].st = "running" /\ look'[k].told = look[k].told
    <3>1. CASE k = l
      BY <1>0, <3>1 DEF SenderTimeout, Stop, Send, LookStates
    <3>2. CASE k # l
      BY <1>0, <3>2 DEF SenderTimeout
    <3> QED
      BY <3>1, <3>2
  <2> QED
    BY <2>1 DEF SenderTimeout, Remembered, ScanCache
<1>3. CASE \E l \in Lookups : LookupFree(l)
  <2> PICK l \in Lookups : LookupFree(l)
    BY <1>3
  <2>1. k # l
    BY <1>0 DEF LookupFree, LookStates
  <2> QED
    BY <1>0, <2>1 DEF LookupFree, Remembered, ScanCache
<1>4. CASE \E l \in Lookups, R \in SUBSET WideRecords, ok \in BOOLEAN : HandlePacket(l, R, ok)
  <2> PICK l \in Lookups, R \in SUBSET WideRecords, ok \in BOOLEAN : HandlePacket(l, R, ok)
    BY <1>4
  <2> DEFINE N == R \ cached
             t == [x \in Lookups |-> Heard(look[x], x, N)]
  <2>1. look'[k] = t[k]
    BY <1>0 DEF HandlePacket, Stop, Heard, LookStates
  <2>2. look[k].st = "running" /\ look'[k].told = look[k].told \cup {x \in N : WideKeyOf[x] = KeyFor[k]}
    BY <1>0, <2>1 DEF Heard, LookStates
  <2>3. rr \in cached \/ rr \in N
    BY DEF HandlePacket, Kept
  <2> QED
    BY <2>2, <2>3 DEF Remembered, ScanCache
<1>5. CASE \E x \in WideRecords : ExpiryEvent(x)
  BY <1>5 DEF ExpiryEvent, Remembered, ScanCache
<1>6. CASE \E list \in Lists : SetServers(list)
  BY <1>6 DEF SetServers, Remembered, ScanCache
<1>7. CASE UNCHANGED wideVars
  BY <1>7 DEF wideVars, Remembered, ScanCache
<1> QED
  BY <1>1, <1>2, <1>3, <1>4, <1>5, <1>6, <1>7 DEF WideNext

\* Whoever is told of the end was told of every record of the answer, also of
\* those that were in the cache before (handle_packet, wide-area.c:480-551).
THEOREM AnswersTold == WideSpec => AnswersAreTold
<1> DEFINE A == \A l \in Lookups, R \in SUBSET WideRecords :
                  look[l].st = "running" /\ HandlePacket(l, R, TRUE) =>
                      {rr \in R : WideKeyOf[rr] = KeyFor[l]} \subseteq look'[l].told
<1>1. WideInit => Remembered
  BY DEF WideInit, Remembered, NoLookup
<1>2. WideInv /\ Remembered => A
  <2> SUFFICES ASSUME WideInv, Remembered, NEW l \in Lookups, NEW R \in SUBSET WideRecords,
                      look[l].st = "running", HandlePacket(l, R, TRUE),
                      NEW rr \in R, WideKeyOf[rr] = KeyFor[l]
               PROVE  rr \in look'[l].told
    OBVIOUS
  <2> DEFINE h == Heard(look[l], l, R \ cached)
  <2>1. look \in [Lookups -> LookStates]
    BY DEF WideInv
  <2>2. /\ h.told = look[l].told \cup {x \in R \ cached : WideKeyOf[x] = KeyFor[l]}
        /\ h.st = "running" /\ h \in LookStates
    BY <2>1 DEF Heard, LookStates
  <2>3. look'[l].told = h.told
    BY <2>1, <2>2 DEF HandlePacket, Stop, LookStates
  <2>4. rr \in cached => rr \in look[l].told
    BY DEF Remembered, ScanCache
  <2> QED
    BY <2>2, <2>3, <2>4
<1>3. WideInv /\ Remembered /\ [WideNext]_wideVars => [A]_wideVars
  BY <1>2
<1> QED
  BY WideInvariance, RememberedStep, <1>1, <1>3, PTL DEF AnswersAreTold, WideSpec

\* All that a lookup promises its client, for any lookups, servers and records.
THEOREM LookupPromises == WideSpec => WidePromises
BY WideTypeCorrect, LookupEndsOnce, AnswersTold, AnotherServerTried, PTL DEF WidePromises

-----------------------------------------------------------------------------
(***************************************************************************)
(* AvahiBrowser                                                            *)
(***************************************************************************)

\* The signals say what the list holds.
ToldListed == told = services

\* Of a browser that does not run nothing is known; while they were started
\* one at a time, none runs but the one in use.
BrowserState ==
    /\ \A b \in Browsers \ running : known[b] = {}
    /\ ~startedTwice => running = {browser} \ {NoBrowser}

AvahiInv == /\ AvahiTypeOK /\ BrowserState
            /\ ListedResolved /\ ResolversAnnounced /\ AnnouncedResolved
            /\ ToldListed

USE DEF Idle, NoResolvers, OwnKey

LEMMA InitInv == AvahiInit => AvahiInv
  BY AvahiAssumption
  DEF AvahiInit, AvahiInv, AvahiTypeOK, BrowserState, ListedResolved,
      ResolversAnnounced, AnnouncedResolved, ToldListed

LEMMA AbortInv == AvahiInv /\ Abort => AvahiInv'
  BY DEF Abort, AvahiInv, AvahiTypeOK, BrowserState, ListedResolved,
         ResolversAnnounced, AnnouncedResolved, ToldListed

LEMMA StutterInv == AvahiInv /\ UNCHANGED avahiVars => AvahiInv'
  BY DEF avahiVars, AvahiInv, AvahiTypeOK, BrowserState, ListedResolved,
         ResolversAnnounced, AnnouncedResolved, ToldListed

LEMMA AvahiStartInv == AvahiInv /\ startBrowser => AvahiInv'
<1> SUFFICES ASSUME AvahiInv, startBrowser PROVE AvahiInv'
  OBVIOUS
<1>1. CASE Abort
  BY <1>1, AbortInv
<1>2. CASE server
  <2>1. /\ UNCHANGED <<server, known, resolvers, services, told, aborted>>
        /\ startedTwice' = (startedTwice \/ browser # NoBrowser)
    BY <1>2 DEF startBrowser
  <2>2. CASE \E b \in Browsers \ running :
                browser' = b /\ running' = running \union {b}
    <3> PICK b \in Browsers \ running :
               browser' = b /\ running' = running \union {b}
      BY <2>2
    <3>1. AvahiTypeOK' /\ BrowserState' /\ ListedResolved' /\ ToldListed'
      BY <2>1, AvahiAssumption
      DEF AvahiInv, AvahiTypeOK, BrowserState, ListedResolved, ToldListed
    <3>2. ResolversAnnounced'
      BY <2>1 DEF AvahiInv, ResolversAnnounced
    <3>3. AnnouncedResolved'
      BY <2>1, AvahiAssumption DEF AvahiInv, BrowserState, AnnouncedResolved
    <3> QED
      BY <3>1, <3>2, <3>3 DEF AvahiInv
  <2>3. CASE browser' = NoBrowser /\ UNCHANGED running
    <3>1. AvahiTypeOK' /\ BrowserState'
      BY <2>1, <2>3, AvahiAssumption
      DEF AvahiInv, AvahiTypeOK, BrowserState
    <3> QED
      BY <2>1, <2>3, <3>1
      DEF AvahiInv, ListedResolved, ResolversAnnounced, AnnouncedResolved,
          ToldListed
  <2> QED
    BY <1>2, <2>2, <2>3 DEF startBrowser
<1> QED
  BY <1>1, <1>2 DEF startBrowser

LEMMA CleanUpInv == AvahiInv /\ broswerCleanUp => AvahiInv'
<1> SUFFICES ASSUME AvahiInv, broswerCleanUp, browser # NoBrowser,
                    ~ \E k \in Keys : resolvers[k] = "null"
             PROVE  AvahiInv'
  BY AbortInv, StutterInv DEF broswerCleanUp
<1>1. AvahiTypeOK' /\ BrowserState'
  BY AvahiAssumption
  DEF broswerCleanUp, AvahiInv, AvahiTypeOK, BrowserState
<1>2. ListedResolved' /\ ResolversAnnounced' /\ AnnouncedResolved' /\ ToldListed'
  BY DEF broswerCleanUp, AvahiInv, ListedResolved, ResolversAnnounced,
         AnnouncedResolved, ToldListed
<1> QED
  BY <1>1, <1>2 DEF AvahiInv

LEMMA NewInv ==
    ASSUME AvahiInv, NEW b \in Browsers, NEW i \in Instances, BrowserNew(b, i)
    PROVE  AvahiInv'
<1>1. KeyOf[i] \in Keys /\ known' = [known EXCEPT ![b] = @ \union {i}]
  BY AvahiAssumption DEF BrowserNew
<1>2. /\ resolvers' \in [Keys -> {"none", "null", "running"}]
      /\ resolvers'[KeyOf[i]] # "none"
      /\ \A k \in Keys : resolvers[k] # "none" => resolvers'[k] = resolvers[k]
      /\ \A k \in Keys \ {KeyOf[i]} : resolvers'[k] = resolvers[k]
  BY <1>1 DEF BrowserNew, AvahiInv, AvahiTypeOK
<1>3. AvahiTypeOK' /\ BrowserState' /\ ToldListed'
  BY <1>1, <1>2 DEF BrowserNew, AvahiInv, AvahiTypeOK, BrowserState, ToldListed
<1>4. ListedResolved'
  BY <1>2 DEF BrowserNew, AvahiInv, AvahiTypeOK, ListedResolved
<1>5. ResolversAnnounced'
  <2> SUFFICES ASSUME NEW k \in Keys, resolvers'[k] # "none"
               PROVE  \E c \in running : \E j \in known'[c] : KeyOf[j] = k
    BY DEF BrowserNew, ResolversAnnounced
  <2>1. CASE k = KeyOf[i]
    BY <1>1, <2>1 DEF BrowserNew, AvahiInv, AvahiTypeOK
  <2>2. CASE k # KeyOf[i]
    <3>1. PICK c \in running : \E j \in known[c] : KeyOf[j] = k
      BY <1>2, <2>2 DEF AvahiInv, ResolversAnnounced
    <3> QED
      BY <1>1, <3>1 DEF AvahiInv, AvahiTypeOK
  <2> QED
    BY <2>1, <2>2
<1>6. AnnouncedResolved'
  <2> SUFFICES ASSUME ~startedTwice, browser # NoBrowser,
                      NEW j \in known'[browser], OwnKey(j)
               PROVE  resolvers'[KeyOf[j]] # "none"
    BY DEF BrowserNew, AnnouncedResolved
  <2>1. j \in known[browser] \/ j = i
    BY <1>1 DEF AvahiInv, AvahiTypeOK
  <2>2. j \in Instances /\ KeyOf[j] \in Keys
    BY <1>3, AvahiAssumption DEF AvahiInv, AvahiTypeOK, BrowserNew
  <2> QED
    BY <1>2, <2>1, <2>2 DEF AvahiInv, AnnouncedResolved
<1> QED
  BY <1>3, <1>4, <1>5, <1>6 DEF AvahiInv

LEMMA RemoveInv ==
    ASSUME AvahiInv, NEW b \in Browsers, NEW i \in Instances,
           BrowserRemove(b, i)
    PROVE  AvahiInv'
<1> DEFINE k0 == KeyOf[i]
<1> SUFFICES ASSUME resolvers[k0] # "null" PROVE AvahiInv'
  BY AbortInv, AvahiAssumption DEF BrowserRemove, AvahiInv, AvahiTypeOK
<1>1. /\ k0 \in Keys
      /\ known' = [known EXCEPT ![b] = @ \ {i}]
      /\ UNCHANGED <<server, browser, running>>
  BY AvahiAssumption DEF BrowserRemove, Withdraw, AvahiInv, AvahiTypeOK
<1>2. /\ resolvers' \in [Keys -> {"none", "null", "running"}]
      /\ resolvers'[k0] = "none"
      /\ \A k \in Keys \ {k0} : resolvers'[k] = resolvers[k]
      /\ services' = services \ {k0} /\ told' = services'
      /\ UNCHANGED <<startedTwice, aborted>>
  <2>1. CASE resolvers[k0] = "none"
    <3>1. k0 \notin services
      BY <2>1 DEF AvahiInv, ListedResolved
    <3> QED
      BY <1>1, <2>1, <3>1 DEF BrowserRemove, AvahiInv, AvahiTypeOK, ToldListed
  <2>2. CASE resolvers[k0] = "running"
    BY <1>1, <2>2 DEF BrowserRemove, AvahiInv, AvahiTypeOK, ToldListed
  <2> QED
    BY <1>1, <2>1, <2>2 DEF AvahiInv, AvahiTypeOK
<1>3. AvahiTypeOK' /\ BrowserState' /\ ToldListed'
  BY <1>1, <1>2 DEF AvahiInv, AvahiTypeOK, BrowserState, ToldListed
<1>4. ListedResolved'
  BY <1>2 DEF AvahiInv, AvahiTypeOK, ListedResolved
<1>5. ResolversAnnounced'
  <2> SUFFICES ASSUME NEW k \in Keys, resolvers'[k] # "none"
               PROVE  \E c \in running : \E j \in known'[c] : KeyOf[j] = k
    BY <1>1 DEF ResolversAnnounced
  <2>1. k # k0 /\ resolvers[k] # "none"
    BY <1>2
  <2>2. PICK c \in running : \E j \in known[c] : KeyOf[j] = k
    BY <2>1 DEF AvahiInv, ResolversAnnounced
  <2>3. \A j \in known[c] : KeyOf[j] = k => j \in known'[c]
    BY <1>1, <2>1 DEF AvahiInv, AvahiTypeOK
  <2> QED
    BY <2>2, <2>3
<1>6. AnnouncedResolved'
  <2> SUFFICES ASSUME ~startedTwice, browser # NoBrowser,
                      NEW j \in known'[browser], OwnKey(j)
               PROVE  resolvers'[KeyOf[j]] # "none"
    BY <1>1, <1>2 DEF AnnouncedResolved
  <2>1. b = browser
    BY <1>1 DEF BrowserRemove, AvahiInv, AvahiTypeOK, BrowserState
  <2>2. j \in known[browser] /\ j # i
    BY <1>1, <2>1 DEF AvahiInv, AvahiTypeOK
  <2>3. KeyOf[j] \in Keys \ {k0} /\ resolvers[KeyOf[j]] # "none"
    BY <2>1, <2>2, AvahiAssumption DEF AvahiInv, AvahiTypeOK, AnnouncedResolved
  <2> QED
    BY <1>2, <2>3
<1> QED
  BY <1>3, <1>4, <1>5, <1>6 DEF AvahiInv

LEMMA AvahiResolverInv ==
    ASSUME AvahiInv, NEW k \in Keys, ResolverFound(k) \/ ResolverFailure(k)
    PROVE  AvahiInv'
<1>1. /\ UNCHANGED <<server, browser, running, known, resolvers, startedTwice,
                     aborted>>
      /\ resolvers[k] = "running"
  BY DEF ResolverFound, ResolverFailure
<1>2. AvahiTypeOK' /\ BrowserState' /\ ListedResolved' /\ ToldListed'
  BY <1>1
  DEF ResolverFound, ResolverFailure, AvahiInv, AvahiTypeOK, BrowserState,
      ListedResolved, ToldListed
<1>3. ResolversAnnounced' /\ AnnouncedResolved'
  BY <1>1 DEF AvahiInv, ResolversAnnounced, AnnouncedResolved
<1> QED
  BY <1>2, <1>3 DEF AvahiInv

LEMMA NextInv == AvahiInv /\ [AvahiNext]_avahiVars => AvahiInv'
<1> SUFFICES ASSUME AvahiInv, AvahiNext PROVE AvahiInv'
  BY StutterInv
<1>1. CASE startBrowser
  BY <1>1, AvahiStartInv
<1>2. CASE stopBrowser \/ \E b \in Browsers : BrowserFailure(b)
  BY <1>2, CleanUpInv DEF stopBrowser, BrowserFailure
<1>3. CASE \E b \in Browsers, i \in Instances : BrowserNew(b, i)
  BY <1>3, NewInv
<1>4. CASE \E b \in Browsers, i \in Instances : BrowserRemove(b, i)
  BY <1>4, RemoveInv
<1>5. CASE \E k \in Keys : ResolverFound(k) \/ ResolverFailure(k)
  BY <1>5, AvahiResolverInv
<1> QED
  BY <1>1, <1>2, <1>3, <1>4, <1>5 DEF AvahiNext

LEMMA Invariant == AvahiSpec => []AvahiInv
  BY InitInv, NextInv, PTL DEF AvahiSpec

(***************************************************************************)
(* The invariants the runs check                                           *)
(***************************************************************************)
\* avahicore.cpp: every variable keeps to its values, and the browser in use
\* is one that Avahi runs.
THEOREM AvahiTypeCorrect == AvahiSpec => []AvahiTypeOK
  BY Invariant, PTL DEF AvahiInv

\* avahicore.cpp:124-148: every listed service has its resolver.
THEOREM AvahiListedResolved == AvahiSpec => []ListedResolved
  BY Invariant, PTL DEF AvahiInv

\* avahicore.cpp:124-148: a resolver exists only for what some browser still
\* announces, even for a user who starts a second browser.
THEOREM AvahiNoGhosts == AvahiSpec => []ResolversAnnounced
  BY Invariant, PTL DEF AvahiInv

\* avahicore.cpp:124-148: with one browser at a time, an announced service
\* with a key of its own is being resolved.
THEOREM AvahiAnnouncedResolved == AvahiSpec => []AnnouncedResolved
  BY Invariant, PTL DEF AvahiInv

\* avahicore.cpp:124-191: resolvers, services and announcements agree.
THEOREM AvahiCorrect == AvahiSpec => []AvahiSafe
  BY AvahiTypeCorrect, AvahiListedResolved, AvahiNoGhosts, AvahiAnnouncedResolved, PTL DEF AvahiSafe

(***************************************************************************)
(* Refinement                                                              *)
(***************************************************************************)
USE DEF Directory!DirInit, Directory!DirNext, Directory!BrowserStarts,
        Directory!BrowserEnds, Directory!ServiceAdded,
        Directory!ServiceRemoved, Directory!dirVars

LEMMA DirectoryInit == AvahiInit => Directory!DirInit
  BY DEF AvahiInit

\* A step of the browser is a step of the directory, or leaves it alone.
LEMMA DirectoryStep ==
    ASSUME AvahiInv, AvahiNext
    PROVE  [Directory!DirNext]_(Directory!dirVars)
<1>1. CASE Abort
  BY <1>1 DEF Abort
<1>2. CASE startBrowser
  BY <1>1, <1>2, AvahiAssumption DEF startBrowser
<1>3. CASE broswerCleanUp
  BY <1>1, <1>3 DEF broswerCleanUp, avahiVars, AvahiInv, ToldListed
<1>4. CASE \E b \in Browsers, i \in Instances : BrowserNew(b, i)
  BY <1>4 DEF BrowserNew
<1>5. ASSUME NEW b \in Browsers, NEW i \in Instances, BrowserRemove(b, i)
      PROVE  [Directory!DirNext]_(Directory!dirVars)
  <2>1. SUFFICES ASSUME ~Abort
                 PROVE  [Directory!DirNext]_(Directory!dirVars)
    BY <1>1
  <2>2. UNCHANGED <<browser, startedTwice>> /\ KeyOf[i] \in Keys
    BY <1>5, <2>1, AvahiAssumption DEF BrowserRemove, Withdraw
  <2>3. \/ UNCHANGED told
        \/ told' = told \ {KeyOf[i]} /\ KeyOf[i] \in told
    BY <1>5, <2>1 DEF BrowserRemove, AvahiInv, ToldListed
  <2> QED
    BY <2>2, <2>3
<1>6. ASSUME NEW k \in Keys, ResolverFound(k) \/ ResolverFailure(k)
      PROVE  [Directory!DirNext]_(Directory!dirVars)
  <2>1. resolvers[k] = "running" /\ UNCHANGED <<browser, startedTwice>>
    BY <1>6 DEF ResolverFound, ResolverFailure
  \* Something runs, hence the one browser does.
  <2>2. browser # NoBrowser \/ startedTwice
    BY <2>1 DEF AvahiInv, ResolversAnnounced, BrowserState
  <2>3. \/ UNCHANGED told
        \/ told' = told \union {k} /\ k \notin told
        \/ told' = told \ {k} /\ k \in told
    BY <1>6, <2>1 DEF ResolverFound, ResolverFailure, AvahiInv, ToldListed
  <2> QED
    BY <2>1, <2>2, <2>3
<1> QED
  BY <1>2, <1>3, <1>4, <1>5, <1>6 DEF AvahiNext, stopBrowser, BrowserFailure

\* avahicore.cpp: until the user starts a browser while one is in use, the
\* browser over Avahi keeps the promises of QZeroConf.
THEOREM AvahiImplementsDirectory == AvahiSpec => ImplementsDirectory
<1>1. AvahiInv /\ [AvahiNext]_avahiVars => [Directory!DirNext]_(Directory!dirVars)
  <2>1. UNCHANGED avahiVars => UNCHANGED Directory!dirVars
    BY DEF avahiVars
  <2> QED
    BY <2>1, DirectoryStep
<1> QED
  BY <1>1, DirectoryInit, Invariant, PTL
  DEF AvahiSpec, ImplementsDirectory, Directory!DirSpec


-----------------------------------------------------------------------------
(***************************************************************************)
(* Browsers                                                                *)
(***************************************************************************)
LEMMA LeastNatural ==
    ASSUME NEW T, T \subseteq Nat, T # {}
    PROVE  \E n \in T : \A m \in T : n <= m
<1> DEFINE R == OpToRel(<, Nat)
<1>1. PICK n \in T : \A m \in T : ~ (<<m, n>> \in R)
  BY WFMin, NatLessThanWellFounded
<1>2. \A m \in T : ~ (m < n)
  BY <1>1 DEF OpToRel
<1> QED
  BY <1>2

IsHeard(h) == h \in [static : Nat, names : SUBSET RecordNames, all : Nat, late : BOOLEAN]

\* What the client has heard after j turns of the loop, if it frees the browser in the k-th.
AfterTurns(h, k, j) ==
    [h |-> [static |-> h.static + (IF k \in 1..j THEN k ELSE j), names |-> h.names, all |-> h.all, late |-> h.late],
     ref |-> IF k \in 1..j THEN 1 ELSE 2]

LEMMA OneTurn ==
    ASSUME NEW h, IsHeard(h), ~h.late, NEW k \in Nat, NEW j \in Nat, j > 0
    PROVE  /\ AfterTurns(h, k, 0) = [h |-> h, ref |-> 2]
           /\ AfterTurns(h, k, j) =
                IF AfterTurns(h, k, j - 1).ref <= 1 THEN AfterTurns(h, k, j - 1)
                ELSE Call(AfterTurns(h, k, j - 1), "static", j = k)
<1>1. AfterTurns(h, k, 0) = [h |-> h, ref |-> 2]
  BY DEF AfterTurns, IsHeard
<1>2. CASE k \in 1..(j - 1)
  <2>1. k \in 1..j /\ AfterTurns(h, k, j - 1).ref = 1
    BY <1>2 DEF AfterTurns
  <2> QED
    BY <1>1, <1>2, <2>1 DEF AfterTurns
<1>3. CASE k \notin 1..(j - 1)
  <2>1. PICK s : s = AfterTurns(h, k, j - 1)
    OBVIOUS
  <2>2. s = [h |-> [static |-> h.static + (j - 1), names |-> h.names, all |-> h.all, late |-> h.late], ref |-> 2]
    BY <1>3, <2>1 DEF AfterTurns
  <2>3. PICK frees \in BOOLEAN : frees <=> j = k
    OBVIOUS
  <2>4. Call(s, "static", j = k) = 
          [h |-> [static |-> h.static + j, names |-> h.names, all |-> h.all, late |-> h.late],
           ref |-> IF j = k THEN 1 ELSE 2]
    BY <2>2 DEF Call, IsHeard
  <2>5. j = k <=> k \in 1..j
    BY <1>3
  <2>6. h.static + (IF k \in 1..j THEN k ELSE j) = h.static + j
    BY <2>5
  <2> QED
    BY <1>1, <2>1, <2>2, <2>4, <2>5, <2>6 DEF AfterTurns
<1> QED
  BY <1>2, <1>3

\* The loop of defer_callback from h on, as the function ToldStatics defines.
IsLoop(f, h, k, n) ==
    f = [j \in 0..n |-> IF j = 0 THEN [h |-> h, ref |-> 2]
                        ELSE IF f[j - 1].ref <= 1 THEN f[j - 1] ELSE Call(f[j - 1], "static", j = k)]

LEMMA FirstWrong ==
    ASSUME NEW n \in Nat, NEW f, NEW g, \E j \in 0..n : f[j] # g[j]
    PROVE  \E i \in 0..n : f[i] # g[i] /\ \A j \in 0..n : j < i => f[j] = g[j]
<1> DEFINE Wrong == {j \in 0..n : f[j] # g[j]}
<1>1. Wrong \subseteq Nat /\ Wrong # {}
  OBVIOUS
<1>2. PICK i \in Wrong : \A j \in Wrong : i <= j
  BY <1>1, LeastNatural
<1>3. ASSUME NEW j \in 0..n, j < i PROVE f[j] = g[j]
  BY <1>2, <1>3
<1> QED
  BY <1>2, <1>3

LEMMA LoopEnds ==
    ASSUME NEW h, IsHeard(h), ~h.late, NEW k \in Nat, NEW n \in Nat, NEW f, IsLoop(f, h, k, n)
    PROVE  \A j \in 0..n : f[j] = AfterTurns(h, k, j)
<1>1. PICK g : g = [j \in 0..n |-> AfterTurns(h, k, j)]
  OBVIOUS
<1> SUFFICES ASSUME \E j \in 0..n : f[j] # g[j] PROVE FALSE
  BY <1>1
<1>2. PICK i \in 0..n : f[i] # g[i] /\ \A j \in 0..n : j < i => f[j] = g[j]
  BY FirstWrong
<1>3. i # 0
  <2>1. f[0] = [h |-> h, ref |-> 2]
    BY DEF IsLoop
  <2>2. AfterTurns(h, k, 0) = [h |-> h, ref |-> 2]
    BY OneTurn, 1 \in Nat, 1 > 0
  <2> QED
    BY <1>1, <1>2, <2>1, <2>2
<1>4. i \in Nat /\ i > 0 /\ i - 1 \in 0..n /\ i - 1 < i
  BY <1>3
<1>5. f[i - 1] = AfterTurns(h, k, i - 1) /\ f[i] # AfterTurns(h, k, i)
  BY <1>1, <1>2, <1>4
<1>6. f[i] = IF f[i - 1].ref <= 1 THEN f[i - 1] ELSE Call(f[i - 1], "static", i = k)
  BY <1>3 DEF IsLoop
<1> QED
  BY <1>4, <1>5, <1>6, OneTurn

LEMMA ToldFacts ==
    ASSUME NEW k \in Nat, IsHeard(heard), ~heard.late, dom.ref = 1
    PROVE  ToldStatics(k) = AfterTurns(heard, k, Len(Statics))
<1> DEFINE F(g) == [j \in 0..Len(Statics) |->
            IF j = 0 THEN [h |-> heard, ref |-> dom.ref + 1]
            ELSE IF g[j - 1].ref <= 1 THEN g[j - 1] ELSE Call(g[j - 1], "static", j = k)]
           loop == CHOOSE g : g = F(g)
<1>1. ToldStatics(k) = loop[Len(Statics)]
  BY DEF ToldStatics
<1>2. PICK n \in Nat : n = Len(Statics)
  BY BrowsersAssumption
<1>3. \E g : g = F(g)
  <2> DEFINE turns == [j \in 0..n |-> AfterTurns(heard, k, j)]
  <2>1. ASSUME NEW j \in 0..n
        PROVE  turns[j] = IF j = 0 THEN [h |-> heard, ref |-> dom.ref + 1]
                          ELSE IF turns[j - 1].ref <= 1 THEN turns[j - 1] ELSE Call(turns[j - 1], "static", j = k)
    <3>1. CASE j = 0
      <4>1. AfterTurns(heard, k, 0) = [h |-> heard, ref |-> 2]
        BY OneTurn, 1 \in Nat, 1 > 0
      <4> QED
        BY <3>1, <4>1
    <3>2. CASE j # 0
      <4>1. j \in Nat /\ j > 0 /\ turns[j - 1] = AfterTurns(heard, k, j - 1) /\ turns[j] = AfterTurns(heard, k, j)
        BY <3>2
      <4> HIDE DEF turns
      <4> QED
        BY <3>2, <4>1, OneTurn
    <3> QED
      BY <3>1, <3>2
  <2>2. turns = F(turns)
    <3>1. turns = [j \in 0..n |-> turns[j]]
      OBVIOUS
    <3> HIDE DEF turns
    <3> QED
      BY <1>2, <2>1, <3>1
  <2> QED
    BY <2>2
<1>4. loop = F(loop)
  BY <1>3
<1> HIDE DEF loop
<1>5. IsLoop(loop, heard, k, n)
  BY <1>2, <1>4 DEF IsLoop
<1>6. \A j \in 0..n : loop[j] = AfterTurns(heard, k, j)
  BY <1>5, LoopEnds
<1>7. n \in 0..n
  OBVIOUS
<1> QED
  BY <1>1, <1>2, <1>6, <1>7

StaticsLen == Len(Statics)

(***************************************************************************)
(* The domains of the configuration are told in one go by defer_callback,  *)
(* and ALL_FOR_NOW only when nothing is deferred any more: so whoever has  *)
(* heard it has heard of all of them.                                      *)
(***************************************************************************)
DomainInv ==
    /\ dom \in [st : {"none", "live", "freed"}, type : {"browse", "register"}, ref : 0..1,
                defer : BOOLEAN, scheduled : BOOLEAN]
    /\ dom.ref = 1 <=> dom.st = "live"
    /\ seen \in [names : SUBSET RecordNames, all : BOOLEAN]
    /\ IsHeard(heard) /\ ~heard.late /\ heard.all \in {0, 1}
    /\ dom.st = "none" => heard.static = 0 /\ ~seen.all
    /\ dom.defer => dom.st = "live" /\ dom.type = "browse" /\ heard.static = 0 /\ heard.all = 0
    /\ dom.st = "live" /\ dom.type = "browse" /\ ~dom.defer => heard.static = StaticsLen
    /\ dom.scheduled => seen.all
    /\ heard.all = 1 => seen.all /\ (dom.type = "browse" => heard.static = StaticsLen)

IsDns(b) ==
    b \in [st : {"none", "live", "freed"}, info : [Infos -> {"none", "resolving", "failed", "found"}],
           n_info : Nat, told : SUBSET Infos]

Held(b) == {i \in Infos : b.info[i] # "none"}

\* The list of servers and its count, and what the client knows.
DnsInv(b) ==
    /\ IsDns(b) /\ IsFiniteSet(Held(b)) /\ b.n_info = Cardinality(Held(b)) /\ b.n_info <= MaxInfos
    /\ b.st = "none" => Held(b) = {}
    /\ b.st \in {"none", "live"} => b.told = {i \in Infos : b.info[i] = "found"}

BrowsersInv == DomainInv /\ DnsInv(dns)

LEMMA StaticsLength == StaticsLen \in Nat /\ (StaticsLen = 0 <=> Statics = <<>>) /\ MaxInfos \in Nat
  BY BrowsersAssumption DEF StaticsLen

LEMMA FreedFacts ==
    ASSUME NEW d, d \in [st : {"none", "live", "freed"}, type : {"browse", "register"}, ref : 0..2,
                         defer : BOOLEAN, scheduled : BOOLEAN], d.st = "live", d.ref \in {1, 2},
           NEW f, f = Freed(d)
    PROVE  /\ f \in [st : {"none", "live", "freed"}, type : {"browse", "register"}, ref : 0..1,
                     defer : BOOLEAN, scheduled : BOOLEAN]
           /\ f.st = (IF d.ref = 2 THEN "live" ELSE "freed") /\ f.ref = (IF d.ref = 2 THEN 1 ELSE 0)
           /\ f.type = d.type /\ f.scheduled = d.scheduled /\ (f.defer => d.defer /\ d.ref = 2)
  BY DEF Freed

LEMMA DomainNewStep ==
    ASSUME DomainInv, NEW type \in {"browse", "register"}, DomainBrowserNew(type)
    PROVE  DomainInv'
<1>1. /\ dom.st = "none" /\ seen' = seen /\ heard' = heard
      /\ dom' = [st |-> "live", type |-> type, ref |-> 1,
                 defer |-> type = "browse" /\ Statics # <<>>, scheduled |-> FALSE]
  BY DEF DomainBrowserNew
<1>2. /\ dom' \in [st : {"none", "live", "freed"}, type : {"browse", "register"}, ref : 0..1,
                   defer : BOOLEAN, scheduled : BOOLEAN]
      /\ dom'.st = "live" /\ dom'.ref = 1 /\ dom'.type = type /\ ~dom'.scheduled
      /\ dom'.defer <=> type = "browse" /\ Statics # <<>>
  <2>1. PICK defer \in BOOLEAN : defer <=> (type = "browse" /\ Statics # <<>>)
    OBVIOUS
  <2>2. dom' = [st |-> "live", type |-> type, ref |-> 1, defer |-> defer, scheduled |-> FALSE]
    BY <1>1, <2>1
  <2> QED
    BY <2>1, <2>2
<1> QED
  BY <1>1, <1>2, StaticsLength DEF DomainInv

LEMMA DomainFreeStep ==
    ASSUME DomainInv, DomainBrowserFree
    PROVE  DomainInv'
<1>1. dom.st = "live" /\ dom' = Freed(dom) /\ seen' = seen /\ heard' = heard /\ dom.ref = 1
  BY DEF DomainBrowserFree, DomainInv
<1>2. dom \in [st : {"none", "live", "freed"}, type : {"browse", "register"}, ref : 0..2,
               defer : BOOLEAN, scheduled : BOOLEAN]
  BY DEF DomainInv
<1>3. /\ dom' \in [st : {"none", "live", "freed"}, type : {"browse", "register"}, ref : 0..1,
                   defer : BOOLEAN, scheduled : BOOLEAN]
      /\ dom'.st = "freed" /\ dom'.ref = 0 /\ dom'.type = dom.type /\ dom'.scheduled = dom.scheduled /\ ~dom'.defer
  BY <1>1, <1>2, FreedFacts
<1> QED
  BY <1>1, <1>3 DEF DomainInv

LEMMA DomainRecordStep ==
    ASSUME DomainInv, NEW n \in RecordNames, DomainRecord(n)
    PROVE  DomainInv'
<1>1. /\ dom' = dom /\ dom.st = "live"
      /\ seen' \in [names : SUBSET RecordNames, all : BOOLEAN] /\ seen'.all = seen.all
  BY DEF DomainRecord, DomainInv
<1>2. IsHeard(heard') /\ heard'.all = heard.all /\ heard'.static = heard.static /\ heard'.late = heard.late
  BY DEF DomainRecord, DomainInv, IsHeard
<1> QED
  BY <1>1, <1>2 DEF DomainInv

LEMMA AllForNowStep ==
    ASSUME DomainInv, DomainAllForNow
    PROVE  DomainInv'
<1>1. dom.st = "live" /\ ~seen.all /\ seen' \in [names : SUBSET RecordNames, all : BOOLEAN] /\ seen'.all
  BY DEF DomainAllForNow, DomainInv
<1>2. CASE dom.defer
  <2>1. heard' = heard /\ dom' = [dom EXCEPT !.scheduled = TRUE]
    BY <1>2 DEF DomainAllForNow
  <2> QED
    BY <1>1, <1>2, <2>1 DEF DomainInv
<1>3. CASE ~dom.defer
  <2>1. dom' = dom /\ heard' = [heard EXCEPT !.all = @ + 1]
    BY <1>3 DEF DomainAllForNow
  <2>2. heard.all = 0
    BY <1>1 DEF DomainInv
  <2>3. IsHeard(heard') /\ heard'.all = 1 /\ heard'.static = heard.static /\ heard'.late = heard.late
    BY <2>1, <2>2 DEF DomainInv, IsHeard
  <2> QED
    BY <1>1, <1>3, <2>1, <2>3 DEF DomainInv
<1> QED
  BY <1>2, <1>3

\* All domains are told, or the client frees the browser in one of the calls.
LEMMA DeferStep ==
    ASSUME DomainInv, NEW k \in 0..(StaticsLen + 1), DeferCallback(k)
    PROVE  DomainInv'
<1>1. PICK t : t = ToldStatics(k)
  OBVIOUS
<1>2. PICK end : end = IF t.ref > 1 /\ dom.scheduled THEN Call(t, "all", k = StaticsLen + 1) ELSE t
  OBVIOUS
<1>3. /\ dom.st = "live" /\ dom.defer /\ seen' = seen /\ heard' = end.h
      /\ dom' = Freed([[dom EXCEPT !.defer = FALSE] EXCEPT !.ref = end.ref])
  BY <1>1, <1>2 DEF DeferCallback, StaticsLen
<1>4. /\ k \in Nat /\ IsHeard(heard) /\ ~heard.late /\ dom.ref = 1 /\ dom.type = "browse"
      /\ heard.static = 0 /\ heard.all = 0
  BY <1>3, StaticsLength DEF DomainInv
<1>5. t = AfterTurns(heard, k, StaticsLen)
  BY <1>1, <1>4, ToldFacts DEF StaticsLen
<1>6. /\ t.ref = (IF k \in 1..StaticsLen THEN 1 ELSE 2) /\ IsHeard(t.h) /\ ~t.h.late /\ t.h.all = 0
      /\ t.ref = 2 => t.h.static = StaticsLen
  BY <1>4, <1>5, StaticsLength DEF AfterTurns, IsHeard
<1>7. /\ end.ref \in {1, 2} /\ IsHeard(end.h) /\ ~end.h.late /\ end.h.all \in {0, 1}
      /\ end.ref = 2 => end.h.static = StaticsLen
      /\ end.h.all = 1 => dom.scheduled /\ end.h.static = StaticsLen
  <2>1. CASE t.ref > 1 /\ dom.scheduled
    <3>1. t.ref = 2 /\ t.h.static = StaticsLen
      BY <1>6, <2>1
    <3>2. end = [h |-> [static |-> t.h.static, names |-> t.h.names, all |-> t.h.all + 1, late |-> t.h.late \/ t.ref < 2],
                 ref |-> IF k = StaticsLen + 1 THEN t.ref - 1 ELSE t.ref]
      BY <1>2, <2>1 DEF Call
    <3> QED
      BY <1>6, <2>1, <3>1, <3>2 DEF IsHeard
  <2>2. CASE ~(t.ref > 1 /\ dom.scheduled)
    BY <1>2, <1>6, <2>2
  <2> QED
    BY <2>1, <2>2
<1>8. PICK c : c = [dom EXCEPT !.defer = FALSE]
  OBVIOUS
<1>9. PICK d : d = [c EXCEPT !.ref = end.ref]
  OBVIOUS
<1>10. /\ c \in [st : {"none", "live", "freed"}, type : {"browse", "register"}, ref : 0..2,
                 defer : BOOLEAN, scheduled : BOOLEAN]
       /\ c.st = "live" /\ c.type = dom.type /\ c.scheduled = dom.scheduled /\ ~c.defer
  <2>1. dom \in [st : {"none", "live", "freed"}, type : {"browse", "register"}, ref : 0..2,
                 defer : BOOLEAN, scheduled : BOOLEAN]
    BY DEF DomainInv
  <2> QED
    BY <1>3, <1>8, <2>1
<1>11. /\ d \in [st : {"none", "live", "freed"}, type : {"browse", "register"}, ref : 0..2,
                 defer : BOOLEAN, scheduled : BOOLEAN]
       /\ d.st = "live" /\ d.type = dom.type /\ d.scheduled = dom.scheduled /\ ~d.defer /\ d.ref = end.ref
  BY <1>7, <1>9, <1>10
<1>12. dom' = Freed(d)
  BY <1>3, <1>8, <1>9
<1>13. /\ dom' \in [st : {"none", "live", "freed"}, type : {"browse", "register"}, ref : 0..1,
                    defer : BOOLEAN, scheduled : BOOLEAN]
       /\ dom'.st = (IF end.ref = 2 THEN "live" ELSE "freed") /\ dom'.ref = (IF end.ref = 2 THEN 1 ELSE 0)
       /\ dom'.type = dom.type /\ dom'.scheduled = dom.scheduled /\ ~dom'.defer
  BY <1>7, <1>11, <1>12, FreedFacts
<1>14. dom'.scheduled => seen'.all
  BY <1>3, <1>13 DEF DomainInv
<1>15. seen' \in [names : SUBSET RecordNames, all : BOOLEAN]
  BY <1>3 DEF DomainInv
<1> QED
  BY <1>3, <1>7, <1>13, <1>14, <1>15 DEF DomainInv

-----------------------------------------------------------------------------
\* A server more, a server less, and one that changes.
LEMMA Cards ==
    ASSUME NEW S, IsFiniteSet(S), NEW x
    PROVE  /\ IsFiniteSet(S \cup {x}) /\ IsFiniteSet(S \ {x}) /\ Cardinality(S) \in Nat
           /\ x \notin S => Cardinality(S \cup {x}) = Cardinality(S) + 1
           /\ x \in S => Cardinality(S \ {x}) = Cardinality(S) - 1
<1>1. IsFiniteSet(S \cup {x}) /\ Cardinality(S) \in Nat /\ Cardinality(S \cup {x}) = IF x \in S THEN Cardinality(S) ELSE Cardinality(S) + 1
  BY FS_AddElement, FS_CardinalityType
<1>2. IsFiniteSet(S \ {x}) /\ Cardinality(S \ {x}) = IF x \in S THEN Cardinality(S) - 1 ELSE Cardinality(S)
  BY FS_RemoveElement
<1> QED
  BY <1>1, <1>2

LEMMA ServerNewStep ==
    ASSUME DnsInv(dns), NEW i \in Infos, NEW made \in BOOLEAN, DNSServerNew(i, made)
    PROVE  DnsInv(dns')
<1>1. PICK b : b = [dns EXCEPT !.info[i] = IF made THEN "resolving" ELSE "failed"]
  OBVIOUS
<1>2. dns.st = "live" /\ dns.info[i] = "none" /\ dns.n_info < MaxInfos /\ dns' = [b EXCEPT !.n_info = @ + 1]
  BY <1>1 DEF DNSServerNew
<1>3. /\ IsDns(b) /\ b.st = dns.st /\ b.n_info = dns.n_info /\ b.told = dns.told
      /\ b.info = [dns.info EXCEPT ![i] = IF made THEN "resolving" ELSE "failed"]
  BY <1>1 DEF DnsInv, IsDns
<1>4. IsDns(dns') /\ dns'.st = "live" /\ dns'.n_info = dns.n_info + 1 /\ dns'.told = dns.told /\ dns'.info = b.info
  BY <1>2, <1>3 DEF IsDns
<1>5. \A j \in Infos : dns'.info[j] = IF j = i THEN (IF made THEN "resolving" ELSE "failed") ELSE dns.info[j]
  BY <1>3, <1>4 DEF DnsInv, IsDns
<1>6. Held(dns') = Held(dns) \cup {i} /\ i \notin Held(dns)
  BY <1>2, <1>5 DEF Held
<1>7. {j \in Infos : dns'.info[j] = "found"} = {j \in Infos : dns.info[j] = "found"}
  BY <1>2, <1>5
<1>8. IsFiniteSet(Held(dns')) /\ dns'.n_info = Cardinality(Held(dns')) /\ dns'.n_info <= MaxInfos
  <2>1. IsFiniteSet(Held(dns)) /\ dns.n_info = Cardinality(Held(dns)) /\ dns.n_info \in Nat
    BY DEF DnsInv, IsDns
  <2>2. IsFiniteSet(Held(dns) \cup {i}) /\ Cardinality(Held(dns) \cup {i}) = Cardinality(Held(dns)) + 1
    BY <1>6, <2>1, Cards
  <2>3. IsFiniteSet(Held(dns')) /\ Cardinality(Held(dns')) = Cardinality(Held(dns)) + 1
    BY <1>6, <2>2
  <2> QED
    BY <1>2, <1>4, <2>1, <2>3, StaticsLength
<1> QED
  BY <1>2, <1>4, <1>7, <1>8 DEF DnsInv

LEMMA ResolvedStep ==
    ASSUME DnsInv(dns), NEW i \in Infos, NEW found \in BOOLEAN, HostNameResolved(i, found)
    PROVE  DnsInv(dns')
<1>1. PICK b : b = [dns EXCEPT !.info[i] = IF found THEN "found" ELSE "failed"]
  OBVIOUS
<1>2. dns.info[i] = "resolving" /\ dns' = [b EXCEPT !.told = IF found THEN @ \cup {i} ELSE @]
  BY <1>1 DEF HostNameResolved
<1>3. /\ IsDns(b) /\ b.st = dns.st /\ b.n_info = dns.n_info /\ b.told = dns.told
      /\ b.info = [dns.info EXCEPT ![i] = IF found THEN "found" ELSE "failed"]
  BY <1>1 DEF DnsInv, IsDns
<1>4. /\ IsDns(dns') /\ dns'.st = dns.st /\ dns'.n_info = dns.n_info /\ dns'.info = b.info
      /\ dns'.told = IF found THEN dns.told \cup {i} ELSE dns.told
  BY <1>2, <1>3 DEF IsDns
<1>5. \A j \in Infos : dns'.info[j] = IF j = i THEN (IF found THEN "found" ELSE "failed") ELSE dns.info[j]
  BY <1>3, <1>4 DEF DnsInv, IsDns
<1>6. Held(dns') = Held(dns)
  BY <1>2, <1>5 DEF Held
<1>7. dns.told = {j \in Infos : dns.info[j] = "found"} => dns'.told = {j \in Infos : dns'.info[j] = "found"}
  BY <1>2, <1>4, <1>5
<1> QED
  BY <1>4, <1>6, <1>7 DEF DnsInv

LEMMA ServerRemoveStep ==
    ASSUME DnsInv(dns), NEW i \in Infos, ServerRemove(i)
    PROVE  DnsInv(dns')
<1>1. PICK b : b = IF dns.info[i] = "resolving" THEN dns ELSE [dns EXCEPT !.told = @ \ {i}]
  OBVIOUS
<1>2. PICK c : c = [b EXCEPT !.info[i] = "none"]
  OBVIOUS
<1>3. dns.st = "live" /\ dns.info[i] # "none" /\ dns' = [c EXCEPT !.n_info = @ - 1]
  BY <1>1, <1>2 DEF ServerRemove, ServerInfoFree
<1>4. /\ IsDns(b) /\ b.st = dns.st /\ b.n_info = dns.n_info /\ b.info = dns.info
      /\ b.told = IF dns.info[i] = "resolving" THEN dns.told ELSE dns.told \ {i}
  BY <1>1 DEF DnsInv, IsDns
<1>5. /\ IsDns(c) /\ c.st = b.st /\ c.n_info = b.n_info /\ c.told = b.told
      /\ c.info = [b.info EXCEPT ![i] = "none"]
  BY <1>2, <1>4 DEF IsDns
<1>6. i \in Held(dns) /\ dns.n_info = Cardinality(Held(dns)) /\ dns.n_info - 1 \in Nat
  <2>1. i \in Held(dns) /\ dns.n_info = Cardinality(Held(dns)) /\ IsFiniteSet(Held(dns))
    BY <1>3 DEF Held, DnsInv
  <2>2. Cardinality(Held(dns) \ {i}) = Cardinality(Held(dns)) - 1 /\ Cardinality(Held(dns) \ {i}) \in Nat
    BY <2>1, Cards
  <2> QED
    BY <2>1, <2>2
<1>7. /\ IsDns(dns') /\ dns'.st = "live" /\ dns'.n_info = dns.n_info - 1 /\ dns'.told = b.told
      /\ dns'.info = c.info
  BY <1>3, <1>4, <1>5, <1>6 DEF IsDns
<1>8. \A j \in Infos : dns'.info[j] = IF j = i THEN "none" ELSE dns.info[j]
  BY <1>4, <1>5, <1>7 DEF IsDns
<1>9. Held(dns') = Held(dns) \ {i}
  BY <1>8 DEF Held
<1>10. dns'.told = {j \in Infos : dns'.info[j] = "found"}
  <2>1. dns.told = {j \in Infos : dns.info[j] = "found"}
    BY <1>3 DEF DnsInv
  <2> QED
    BY <1>3, <1>4, <1>7, <1>8, <2>1
<1>11. IsFiniteSet(Held(dns')) /\ dns'.n_info = Cardinality(Held(dns')) /\ dns'.n_info <= MaxInfos
  <2>1. IsFiniteSet(Held(dns)) /\ dns.n_info <= MaxInfos /\ dns.n_info \in Nat
    BY DEF DnsInv, IsDns
  <2>2. IsFiniteSet(Held(dns) \ {i}) /\ Cardinality(Held(dns) \ {i}) = Cardinality(Held(dns)) - 1
    BY <1>6, <2>1, Cards
  <2>3. IsFiniteSet(Held(dns')) /\ Cardinality(Held(dns')) = Cardinality(Held(dns)) - 1
    BY <1>9, <2>2
  <2> QED
    BY <1>6, <1>7, <2>1, <2>3, StaticsLength
<1> QED
  BY <1>7, <1>10, <1>11 DEF DnsInv

LEMMA ServersStep ==
    ASSUME DnsInv(dns), DNSServerBrowserNew \/ DNSServerBrowserFree
    PROVE  DnsInv(dns')
<1>1. CASE DNSServerBrowserNew
  <2>1. dns.st = "none" /\ dns' = [dns EXCEPT !.st = "live"]
    BY <1>1 DEF DNSServerBrowserNew
  <2>2. IsDns(dns') /\ dns'.st = "live" /\ dns'.info = dns.info /\ dns'.n_info = dns.n_info /\ dns'.told = dns.told
    BY <2>1 DEF DnsInv, IsDns
  <2> QED
    BY <2>1, <2>2 DEF DnsInv, Held
<1>2. CASE DNSServerBrowserFree
  <2>1. dns' = [st |-> "freed", info |-> [i \in Infos |-> "none"], n_info |-> 0, told |-> dns.told]
    BY <1>2 DEF DNSServerBrowserFree
  <2>2. IsDns(dns') /\ dns'.st = "freed" /\ dns'.n_info = 0 /\ Held(dns') = {}
    BY <2>1 DEF DnsInv, IsDns, Held
  <2> QED
    BY <2>2, FS_EmptySet, StaticsLength DEF DnsInv
<1> QED
  BY <1>1, <1>2

LEMMA BrowsersStep ==
    ASSUME BrowsersInv, [BrowsersNext]_browsersVars
    PROVE  BrowsersInv'
<1> USE DEF BrowsersInv
<1>1. CASE UNCHANGED browsersVars
  BY <1>1 DEF browsersVars, DomainInv
<1>2. CASE DomainInv' /\ dns' = dns
  BY <1>2
<1>3. CASE DnsInv(dns') /\ UNCHANGED <<dom, seen, heard>>
  BY <1>3 DEF DomainInv
<1>4. ASSUME NEW t \in {"browse", "register"}, DomainBrowserNew(t) PROVE BrowsersInv'
  BY <1>2, <1>4, DomainNewStep DEF DomainBrowserNew
<1>5. CASE DomainBrowserFree
  BY <1>2, <1>5, DomainFreeStep DEF DomainBrowserFree
<1>6. CASE DomainAllForNow
  BY <1>2, <1>6, AllForNowStep DEF DomainAllForNow
<1>7. ASSUME NEW n \in RecordNames, DomainRecord(n) PROVE BrowsersInv'
  BY <1>2, <1>7, DomainRecordStep DEF DomainRecord
<1>8. ASSUME NEW n \in RecordNames, TypeRecord(n) PROVE BrowsersInv'
  BY <1>8 DEF TypeRecord, domVars, DomainInv
<1>9. ASSUME NEW k \in 0..(Len(Statics) + 1), DeferCallback(k) PROVE BrowsersInv'
  BY <1>2, <1>9, DeferStep DEF DeferCallback, StaticsLen
<1>10. CASE DNSServerBrowserNew \/ DNSServerBrowserFree
  BY <1>3, <1>10, ServersStep DEF DNSServerBrowserNew, DNSServerBrowserFree, domVars
<1>11. ASSUME NEW i \in Infos, NEW b \in BOOLEAN, DNSServerNew(i, b) \/ HostNameResolved(i, b) PROVE BrowsersInv'
  BY <1>3, <1>11, ServerNewStep, ResolvedStep DEF DNSServerNew, HostNameResolved, domVars
<1>12. ASSUME NEW i \in Infos, ServerRemove(i) PROVE BrowsersInv'
  BY <1>3, <1>12, ServerRemoveStep DEF ServerRemove, domVars
<1> QED
  BY <1>1, <1>4, <1>5, <1>6, <1>7, <1>8, <1>9, <1>10, <1>11, <1>12 DEF BrowsersNext

LEMMA BrowsersStart == BrowsersInit => BrowsersInv
<1> SUFFICES ASSUME BrowsersInit PROVE BrowsersInv
  OBVIOUS
<1>1. DomainInv
  BY DEF BrowsersInit, DomainInv, IsHeard
<1>2. Held(dns) = {} /\ IsDns(dns) /\ dns.n_info = 0 /\ dns.told = {} /\ {i \in Infos : dns.info[i] = "found"} = {}
  BY DEF BrowsersInit, Held, IsDns
<1>3. DnsInv(dns)
  BY <1>2, FS_EmptySet, StaticsLength DEF DnsInv
<1> QED
  BY <1>1, <1>3 DEF BrowsersInv

LEMMA BrowsersSafeFrom == BrowsersInv => BrowsersSafe
<1> SUFFICES ASSUME BrowsersInv PROVE BrowsersSafe
  OBVIOUS
<1>1. BrowsersTypeOK
  BY DEF BrowsersInv, DnsInv, DomainInv, Held, BrowsersTypeOK
<1>2. FreedIsSilent /\ KnownServers
  BY DEF BrowsersInv, DnsInv, DomainInv, FreedIsSilent, KnownServers
<1>3. AllForNowIsLast
  BY DEF BrowsersInv, DomainInv, AllForNowIsLast, StaticsLen
<1> QED
  BY <1>1, <1>2, <1>3 DEF BrowsersSafe

(* Whoever heard ALL_FOR_NOW has heard of every domain of the configuration, nobody
   hears of a browser it freed, and the client knows the DNS servers that are there
   and were resolved (browse-domain.c, browse-dns-server.c).                        *)
THEOREM BrowsersCorrect == BrowsersSpec => []BrowsersSafe
<1>1. BrowsersInv /\ [BrowsersNext]_browsersVars => BrowsersInv'
  BY BrowsersStep
<1> QED
  BY <1>1, BrowsersStart, BrowsersSafeFrom, PTL DEF BrowsersSpec

=============================================================================
