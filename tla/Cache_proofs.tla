---------------------------- MODULE Cache_proofs ----------------------------
(***************************************************************************)
(* Proofs about the cache of an interface and the querier that keeps it:   *)
(* for any records, lookups and hosts the querier of an interface that is  *)
(* up counts the lookups exactly, the cache stays within its limit, and a  *)
(* record that is there and browsed stays until four packets are lost.     *)
(***************************************************************************)
EXTENDS RecordCache, FiniteSetTheorems, TLAPS

Queriers == [used : Nat, live : BOOLEAN, posted : BOOLEAN]
Jobs == [st : {"none", "scheduled", "history"}, posted : Nat]
Ifaces == [up : BOOLEAN, cache : [Records -> Entries], querier : Queriers, job : Jobs]

(* A record is given up as soon as conf.poof queries for it went unanswered. *)
Observed(e) == e.st = "POOF" => e.poof <= conf.poof

CacheOK(c) ==
    /\ c \in [Records -> Entries]
    /\ \A r \in Records : Observed(c[r])
    /\ Cardinality(Cached(c)) <= conf.limit

(* The querier counts the lookups in C, one by one, and is there while there are any. *)
QuerierOK(up, q, C) ==
    /\ q.used > 0 => q.live
    /\ up => q.used = Cardinality(C)
    /\ ~ up => q.used = 0 /\ ~ q.live

IfaceOK(t, C) == t \in Ifaces /\ CacheOK(t.cache) /\ QuerierOK(t.up, t.querier, C)

CacheInv ==
    /\ conf \in Confs
    /\ IfaceOK(i, clients)
    /\ clients \subseteq Clients /\ owned \subseteq Records
    /\ answers \subseteq Records /\ tended \subseteq Records

-----------------------------------------------------------------------------
(* Sets of records and lookups *)

LEMMA ConfType ==
    ASSUME conf \in Confs
    PROVE  conf.limit \in Nat \ {0} /\ conf.poof \in Nat
  BY CacheAssumption

LEMMA FiniteCard ==
    /\ \A S \in SUBSET Records : IsFiniteSet(S) /\ Cardinality(S) \in Nat
    /\ \A S \in SUBSET Clients : IsFiniteSet(S) /\ Cardinality(S) \in 0..Cardinality(Clients)
<1>1. ASSUME NEW S \in SUBSET Records
      PROVE  IsFiniteSet(S) /\ Cardinality(S) \in Nat
  BY FS_Subset, FS_CardinalityType, CacheAssumption
<1>2. ASSUME NEW S \in SUBSET Clients
      PROVE  IsFiniteSet(S) /\ Cardinality(S) \in 0..Cardinality(Clients)
  <2>1. IsFiniteSet(S) /\ Cardinality(S) <= Cardinality(Clients)
    BY FS_Subset, CacheAssumption
  <2>2. Cardinality(S) \in Nat /\ Cardinality(Clients) \in Nat
    BY <2>1, FS_CardinalityType, CacheAssumption
  <2> QED
    BY <2>1, <2>2
<1> QED
  BY <1>1, <1>2

LEMMA CachedType == \A c : Cached(c) \in SUBSET Records
  BY DEF Cached

(* A cache that holds no other records than one within the limit is within it. *)
LEMMA NoMoreCached ==
    ASSUME conf \in Confs, NEW c, CacheOK(c), NEW d \in [Records -> Entries],
           \A r \in Records : Observed(d[r]) /\ (d[r].st # "none" => c[r].st # "none")
    PROVE  CacheOK(d)
<1>1. Cached(d) \subseteq Cached(c)
  BY DEF Cached
<1>2. Cached(d) \in SUBSET Records /\ Cached(c) \in SUBSET Records
  BY CachedType
<1>3. IsFiniteSet(Cached(c))
  BY <1>2, FiniteCard
<1>4. Cardinality(Cached(d)) <= Cardinality(Cached(c))
  BY <1>1, <1>3, FS_Subset
<1>5. Cardinality(Cached(d)) \in Nat /\ Cardinality(Cached(c)) \in Nat
  BY <1>2, FiniteCard
<1>6. Cardinality(Cached(d)) <= conf.limit
  BY <1>4, <1>5, ConfType DEF CacheOK
<1> QED
  BY <1>6 DEF CacheOK

(* The entries the code makes. *)
States == {"none", "VALID", "POOF", "EXPIRY1", "EXPIRY2", "EXPIRY3", "EXPIRY_FINAL",
           "POOF_FINAL", "GOODBYE_FINAL", "REPLACE_FINAL"}

LEMMA EntryFacts ==
    ASSUME conf \in Confs
    PROVE  /\ NoEntry \in Entries /\ NoEntry.st = "none" /\ Observed(NoEntry)
           /\ \A e \in Entries, st \in States :
                 /\ Enter(e, st) \in Entries /\ Enter(e, st).st = st
                 /\ Observed(Enter(e, st))
<1>1. conf.poof \in Nat
  BY ConfType
<1>2. NoEntry \in Entries /\ NoEntry.st = "none" /\ Observed(NoEntry)
  BY <1>1 DEF NoEntry, Entries, Observed
<1>3. ASSUME NEW e \in Entries, NEW st \in States
      PROVE  Enter(e, st) \in Entries /\ Enter(e, st).st = st /\ Observed(Enter(e, st))
  <2>1. e.old \in BOOLEAN
    BY DEF Entries
  <2> QED
    BY <1>1, <2>1 DEF Enter, Entries, Observed, States
<1> QED
  BY <1>2, <1>3

(* Passive observation of failure adds no record and loses none. *)
LEMMA StartPoofFacts ==
    ASSUME conf \in Confs, NEW e \in Entries, Observed(e), NEW h \in Hosts, NEW again \in BOOLEAN
    PROVE  LET p == StartPoof(e, h, again)
           IN  p \in Entries /\ Observed(p) /\ (p.st # "none" => e.st # "none")
<1>1. conf.poof \in Nat
  BY ConfType
<1>2. e.old \in BOOLEAN /\ e.poof \in 0..(conf.poof + 1) /\ e.st \in States
  BY DEF Entries, States
<1> PICK p : p = StartPoof(e, h, again)
  OBVIOUS
<1> SUFFICES p \in Entries /\ Observed(p) /\ (p.st # "none" => e.st # "none")
  OBVIOUS
<1>3. CASE e.st = "VALID"
  <2>1. p = [st |-> "POOF", old |-> e.old, poof |-> 0, by |-> h]
    BY <1>3 DEF StartPoof
  <2> QED
    BY <2>1, <1>1, <1>2, <1>3 DEF Entries, Observed
<1>4. CASE e.st = "POOF" /\ ~ again
  <2>1. e.poof <= conf.poof
    BY <1>4 DEF Observed
  <2>2. CASE e.poof + 1 > conf.poof
    <3>1. p = [st |-> "POOF_FINAL", old |-> e.old, poof |-> e.poof + 1, by |-> h]
      BY <1>4, <2>2 DEF StartPoof
    <3> QED
      BY <3>1, <2>1, <1>1, <1>2, <1>4 DEF Entries, Observed
  <2>3. CASE ~ (e.poof + 1 > conf.poof)
    <3>1. p = [st |-> "POOF", old |-> e.old, poof |-> e.poof + 1, by |-> h]
      BY <1>4, <2>3 DEF StartPoof
    <3> QED
      BY <3>1, <2>3, <1>1, <1>2, <1>4 DEF Entries, Observed
  <2> QED
    BY <2>2, <2>3
<1>5. CASE e.st # "VALID" /\ ~ (e.st = "POOF" /\ ~ again)
  BY <1>5 DEF StartPoof
<1> QED
  BY <1>3, <1>4, <1>5

LEMMA StopPoofFacts ==
    ASSUME conf \in Confs, NEW e \in Entries, Observed(e), NEW h
    PROVE  LET p == StopPoof(e, h)
           IN  p \in Entries /\ Observed(p) /\ (p.st # "none" => e.st # "none")
<1>1. Enter(e, "VALID") \in Entries /\ Observed(Enter(e, "VALID"))
  BY EntryFacts DEF States
<1>2. CASE e.st \in {"POOF", "POOF_FINAL"} /\ e.by = h
  BY <1>1, <1>2 DEF StopPoof
<1>3. CASE ~ (e.st \in {"POOF", "POOF_FINAL"} /\ e.by = h)
  BY <1>3 DEF StopPoof
<1> QED
  BY <1>2, <1>3

LEMMA PoofedFacts ==
    ASSUME conf \in Confs, CacheOK(i.cache), NEW h \in Hosts, NEW K \in SUBSET Records,
           NEW unicast \in BOOLEAN
    PROVE  CacheOK(Poofed(h, K, unicast))
<1> PICK again \in BOOLEAN : again <=> burst.asked # {}
  OBVIOUS
<1>1. ASSUME NEW r \in Records
      PROVE  LET p == Poofed(h, K, unicast)[r]
             IN  p \in Entries /\ Observed(p) /\ (p.st # "none" => i.cache[r].st # "none")
  <2>0. PICK e : e = i.cache[r]
    OBVIOUS
  <2>1. e \in Entries /\ Observed(e)
    BY <2>0 DEF CacheOK
  <2>2. PICK p : p = IF unicast THEN e ELSE StartPoof(e, h, again)
    OBVIOUS
  <2>3. p \in Entries /\ Observed(p) /\ (p.st # "none" => e.st # "none")
    <3>1. CASE unicast
      BY <2>1, <2>2, <3>1
    <3>2. CASE ~ unicast
      BY <2>1, <2>2, <3>2, StartPoofFacts
    <3> QED
      BY <3>1, <3>2
  <2>4. PICK s : s = StopPoof(p, h)
    OBVIOUS
  <2>5. s \in Entries /\ Observed(s) /\ (s.st # "none" => p.st # "none")
    BY <2>3, <2>4, StopPoofFacts
  <2>6. Poofed(h, K, unicast)[r] = IF r \in K THEN s ELSE p
    <3>1. (burst.asked # {}) = again
      OBVIOUS
    <3> QED
      BY <2>0, <2>2, <2>4, <3>1 DEF Poofed
  <2> QED
    BY <2>0, <2>3, <2>5, <2>6
<1>2. Poofed(h, K, unicast) \in [Records -> Entries]
  <2>1. Poofed(h, K, unicast) = [r \in Records |-> Poofed(h, K, unicast)[r]]
    BY DEF Poofed
  <2> QED
    BY <1>1, <2>1
<1> QED
  BY <1>1, <1>2, NoMoreCached

-----------------------------------------------------------------------------
(* The querier and its query *)

LEMMA PostFacts ==
    /\ \A j \in Jobs : Post(j) \in Jobs /\ Done(j) \in Jobs
    /\ \A q \in Queriers, j \in Jobs :
          LET p == PostedBy(q, j)
          IN  p \in Queriers /\ p.used = q.used /\ p.live = q.live
    /\ NoJob \in Jobs /\ NoQuerier \in Queriers
    /\ NoQuerier.used = 0 /\ NoQuerier.live = FALSE
<1>1. ASSUME NEW j \in Jobs
      PROVE  Post(j) \in Jobs /\ Done(j) \in Jobs
  <2>1. CASE Accepts(j)
    BY <2>1 DEF Post, Done, Jobs
  <2>2. CASE ~ Accepts(j)
    BY <2>2 DEF Post, Done, Jobs
  <2> QED
    BY <2>1, <2>2
<1>2. ASSUME NEW q \in Queriers, NEW j \in Jobs
      PROVE  LET p == PostedBy(q, j)
             IN  p \in Queriers /\ p.used = q.used /\ p.live = q.live
  <2>1. CASE Accepts(j)
    <3>1. PICK p : p = [q EXCEPT !.posted = TRUE]
      OBVIOUS
    <3>2. p \in Queriers /\ p.used = q.used /\ p.live = q.live
      BY <3>1 DEF Queriers
    <3>3. PostedBy(q, j) = p
      BY <2>1, <3>1 DEF PostedBy
    <3> QED
      BY <3>2, <3>3
  <2>2. CASE ~ Accepts(j)
    BY <2>2 DEF PostedBy
  <2> QED
    BY <2>1, <2>2
<1>3. NoJob \in Jobs /\ NoQuerier \in Queriers /\ NoQuerier.used = 0 /\ NoQuerier.live = FALSE
  BY DEF NoJob, NoQuerier, Jobs, Queriers
<1> QED
  BY <1>1, <1>2, <1>3

(* The interface t with another querier, job or cache. *)
LEMMA Replaced ==
    ASSUME NEW t \in Ifaces
    PROVE  /\ \A q \in Queriers : LET u == [t EXCEPT !.querier = q]
                                 IN  /\ u \in Ifaces /\ u.up = t.up /\ u.cache = t.cache
                                     /\ u.querier = q /\ u.job = t.job
           /\ \A j \in Jobs : LET u == [t EXCEPT !.job = j]
                              IN  /\ u \in Ifaces /\ u.up = t.up /\ u.cache = t.cache
                                  /\ u.querier = t.querier /\ u.job = j
           /\ \A c \in [Records -> Entries] :
                              LET u == [t EXCEPT !.cache = c]
                              IN  /\ u \in Ifaces /\ u.up = t.up /\ u.cache = c
                                  /\ u.querier = t.querier /\ u.job = t.job
<1>1. ASSUME NEW q \in Queriers
      PROVE  LET u == [t EXCEPT !.querier = q]
             IN  /\ u \in Ifaces /\ u.up = t.up /\ u.cache = t.cache
                 /\ u.querier = q /\ u.job = t.job
  BY DEF Ifaces
<1>2. ASSUME NEW j \in Jobs
      PROVE  LET u == [t EXCEPT !.job = j]
             IN  /\ u \in Ifaces /\ u.up = t.up /\ u.cache = t.cache
                 /\ u.querier = t.querier /\ u.job = j
  BY DEF Ifaces
<1>3. ASSUME NEW c \in [Records -> Entries]
      PROVE  LET u == [t EXCEPT !.cache = c]
             IN  /\ u \in Ifaces /\ u.up = t.up /\ u.cache = c
                 /\ u.querier = t.querier /\ u.job = t.job
  BY DEF Ifaces
<1> QED
  BY <1>1, <1>2, <1>3

(* A lookup more. *)
LEMMA AddFacts ==
    ASSUME NEW t \in Ifaces, NEW C, Cardinality(C) \in Nat,
           NEW D, Cardinality(D) = Cardinality(C) + 1,
           t.up, QuerierOK(t.up, t.querier, C)
    PROVE  LET u == QuerierAdd(t)
           IN  u \in Ifaces /\ u.cache = t.cache /\ u.up = t.up /\ QuerierOK(u.up, u.querier, D)
<1>0. t.querier \in Queriers /\ t.job \in Jobs /\ t.querier.used \in Nat
  BY DEF Ifaces, Queriers
<1>1. t.querier.used = Cardinality(C)
  BY DEF QuerierOK
<1>2. CASE t.querier.live
  <2>1. PICK q : q = [t.querier EXCEPT !.used = t.querier.used + 1]
    OBVIOUS
  <2>2. q \in Queriers /\ q.used = t.querier.used + 1 /\ q.live = t.querier.live
    BY <2>1, <1>0 DEF Queriers
  <2>3. QuerierAdd(t) = [t EXCEPT !.querier = q]
    BY <1>2, <2>1, <1>0 DEF QuerierAdd, Ifaces
  <2>4. QuerierOK(t.up, q, D)
    BY <2>2, <1>1, <1>2 DEF QuerierOK
  <2>5. PICK u : u = [t EXCEPT !.querier = q]
    OBVIOUS
  <2>6. u \in Ifaces /\ u.up = t.up /\ u.cache = t.cache /\ u.querier = q
    BY <2>2, <2>5, Replaced
  <2> QED
    BY <2>3, <2>4, <2>5, <2>6
<1>3. CASE ~ t.querier.live
  <2>1. t.querier.used = 0
    BY <1>3, <1>0 DEF QuerierOK
  <2>2. PICK q : q = PostedBy([used |-> 1, live |-> TRUE, posted |-> FALSE], t.job)
    OBVIOUS
  <2>3. q \in Queriers /\ q.used = 1 /\ q.live = TRUE
    <3>1. [used |-> 1, live |-> TRUE, posted |-> FALSE] \in Queriers
      BY DEF Queriers
    <3> QED
      BY <2>2, <3>1, <1>0, PostFacts
  <2>4. PICK j : j = Post(t.job)
    OBVIOUS
  <2>5. j \in Jobs
    BY <2>4, <1>0, PostFacts
  <2>6. PICK s : s = [t EXCEPT !.querier = q]
    OBVIOUS
  <2>7. s \in Ifaces /\ s.up = t.up /\ s.cache = t.cache /\ s.querier = q /\ s.job = t.job
    BY <2>3, <2>6, Replaced
  <2>8. QuerierAdd(t) = [s EXCEPT !.job = j]
    BY <1>3, <2>2, <2>4, <2>6, <2>7 DEF QuerierAdd
  <2>9. QuerierOK(t.up, q, D)
    BY <2>1, <2>3, <1>1 DEF QuerierOK
  <2>10. PICK u : u = [s EXCEPT !.job = j]
    OBVIOUS
  <2>11. u \in Ifaces /\ u.up = s.up /\ u.cache = s.cache /\ u.querier = s.querier
    BY <2>5, <2>7, <2>10, Replaced
  <2> QED
    BY <2>7, <2>8, <2>9, <2>10, <2>11
<1> QED
  BY <1>2, <1>3

(* A lookup less; a querier without lookups takes its query back. *)
LEMMA RemoveFacts ==
    ASSUME NEW t \in Ifaces, NEW C, Cardinality(C) \in Nat,
           NEW D, Cardinality(D) \in Nat, Cardinality(C) = Cardinality(D) + 1,
           t.up, QuerierOK(t.up, t.querier, C)
    PROVE  LET u == QuerierRemove(t)
           IN  u \in Ifaces /\ u.cache = t.cache /\ u.up = t.up /\ QuerierOK(u.up, u.querier, D)
<1>0. t.querier \in Queriers /\ t.job \in Jobs /\ t.querier.used \in Nat
  BY DEF Ifaces, Queriers
<1>1. t.querier.used = Cardinality(D) + 1 /\ t.querier.live
  BY <1>0 DEF QuerierOK
<1>2. PICK q : q = [t.querier EXCEPT !.used = t.querier.used - 1]
  OBVIOUS
<1>3. q \in Queriers /\ q.used = t.querier.used - 1 /\ q.live = t.querier.live
  <2>1. PICK n : n = t.querier.used - 1
    OBVIOUS
  <2>2. n \in Nat
    BY <1>1, <2>1
  <2>3. q = [t.querier EXCEPT !.used = n]
    BY <1>2, <2>1
  <2>4. q \in Queriers /\ q.used = n /\ q.live = t.querier.live
    BY <1>0, <2>2, <2>3 DEF Queriers
  <2> QED
    BY <2>1, <2>4
<1>4. PICK u : u = [t EXCEPT !.querier = q]
  OBVIOUS
<1>5. u \in Ifaces /\ u.up = t.up /\ u.cache = t.cache /\ u.querier = q /\ u.job = t.job
  BY <1>3, <1>4, Replaced
<1>6. QuerierOK(u.up, q, D)
  BY <1>1, <1>3, <1>5 DEF QuerierOK
<1>7. QuerierRemove(t) = IF u.querier.used = 0 /\ u.querier.posted THEN Withdraw(u) ELSE u
  <2>1. t.querier.used # 0
    BY <1>1
  <2>2. u = [t EXCEPT !.querier.used = @ - 1]
    BY <1>2, <1>4, <1>0 DEF Ifaces
  <2> QED
    BY <2>1, <2>2 DEF QuerierRemove
<1>8. CASE u.querier.used = 0 /\ u.querier.posted
  <2>1. QuerierRemove(t) = Withdraw(u)
    BY <1>7, <1>8
  <2>2. u.job \in Jobs /\ u.job.posted \in Nat
    BY <1>5 DEF Ifaces, Jobs
  <2>3. CASE u.job.posted > 1
    <3>1. PICK j : j = [u.job EXCEPT !.posted = u.job.posted - 1]
      OBVIOUS
    <3>2. j \in Jobs
      BY <3>1, <2>2, <2>3 DEF Jobs
    <3>3. Withdraw(u) = [u EXCEPT !.job = j]
      BY <2>3, <3>1, <1>5 DEF Withdraw, Ifaces
    <3> QED
      <4>1. PICK w : w = [u EXCEPT !.job = j]
        OBVIOUS
      <4>2. w \in Ifaces /\ w.up = u.up /\ w.cache = u.cache /\ w.querier = u.querier
        BY <1>5, <3>2, <4>1, Replaced
      <4> QED
        BY <2>1, <3>3, <4>1, <4>2, <1>5, <1>6
  <2>4. CASE ~ (u.job.posted > 1)
    <3>1. PICK v : v = [u EXCEPT !.job = NoJob]
      OBVIOUS
    <3>2. v \in Ifaces /\ v.up = u.up /\ v.cache = u.cache /\ v.querier = q
      BY <3>1, <1>5, PostFacts, Replaced
    <3>3. Withdraw(u) = [v EXCEPT !.querier = NoQuerier]
      BY <2>4, <3>1 DEF Withdraw
    <3>4. PICK w : w = [v EXCEPT !.querier = NoQuerier]
      OBVIOUS
    <3>5. w \in Ifaces /\ w.up = v.up /\ w.cache = v.cache /\ w.querier = NoQuerier
      BY <3>2, <3>4, PostFacts, Replaced
    <3>6. QuerierOK(w.up, NoQuerier, D)
      BY <1>1, <1>3, <1>5, <1>8, PostFacts, <3>2, <3>5 DEF QuerierOK
    <3> QED
      BY <2>1, <3>2, <3>3, <3>4, <3>5, <3>6, <1>5
  <2> QED
    BY <2>3, <2>4
<1>9. CASE ~ (u.querier.used = 0 /\ u.querier.posted)
  BY <1>5, <1>6, <1>7, <1>9
<1> QED
  BY <1>8, <1>9

(* A querier that posts, or that nobody uses any more and that goes. *)
LEMMA PostOrGo ==
    ASSUME NEW t \in Ifaces, NEW C, QuerierOK(t.up, t.querier, C), t.querier.live
    PROVE  /\ t.querier.used = 0 =>
                 LET u == [t EXCEPT !.querier = NoQuerier]
                 IN  u \in Ifaces /\ u.cache = t.cache /\ u.up = t.up /\ QuerierOK(u.up, u.querier, C)
           /\ LET u == [t EXCEPT !.job = Post(@)]
              IN  u \in Ifaces /\ u.cache = t.cache /\ u.up = t.up /\ QuerierOK(u.up, u.querier, C)
           /\ LET u == [[t EXCEPT !.querier = PostedBy(@, t.job)] EXCEPT !.job = Post(@)]
              IN  u \in Ifaces /\ u.cache = t.cache /\ u.up = t.up /\ QuerierOK(u.up, u.querier, C)
<1>0. t.querier \in Queriers /\ t.job \in Jobs /\ t.querier.used \in Nat
  BY DEF Ifaces, Queriers
<1>1. PICK j : j = Post(t.job)
  OBVIOUS
<1>2. j \in Jobs
  BY <1>0, <1>1, PostFacts
<1>3. ASSUME t.querier.used = 0
      PROVE  LET u == [t EXCEPT !.querier = NoQuerier]
             IN  u \in Ifaces /\ u.cache = t.cache /\ u.up = t.up /\ QuerierOK(u.up, u.querier, C)
  <2>1. QuerierOK(t.up, NoQuerier, C)
    BY <1>3, PostFacts DEF QuerierOK
  <2> QED
    BY <2>1, PostFacts, Replaced
<1>4. LET u == [t EXCEPT !.job = Post(@)]
      IN  u \in Ifaces /\ u.cache = t.cache /\ u.up = t.up /\ QuerierOK(u.up, u.querier, C)
  <2>1. [t EXCEPT !.job = Post(@)] = [t EXCEPT !.job = j]
    BY <1>1
  <2> QED
    BY <1>2, <2>1, Replaced
<1>5. LET u == [[t EXCEPT !.querier = PostedBy(@, t.job)] EXCEPT !.job = Post(@)]
      IN  u \in Ifaces /\ u.cache = t.cache /\ u.up = t.up /\ QuerierOK(u.up, u.querier, C)
  <2>1. PICK q : q = PostedBy(t.querier, t.job)
    OBVIOUS
  <2>2. q \in Queriers /\ q.used = t.querier.used /\ q.live = t.querier.live
    BY <1>0, <2>1, PostFacts
  <2>3. PICK s : s = [t EXCEPT !.querier = q]
    OBVIOUS
  <2>4. s \in Ifaces /\ s.up = t.up /\ s.cache = t.cache /\ s.querier = q /\ s.job = t.job
    BY <2>2, <2>3, Replaced
  <2>5. [[t EXCEPT !.querier = PostedBy(@, t.job)] EXCEPT !.job = Post(@)] = [s EXCEPT !.job = j]
    BY <1>1, <2>1, <2>3, <2>4
  <2>6. QuerierOK(t.up, q, C)
    BY <2>2 DEF QuerierOK
  <2> QED
    <3>1. PICK u : u = [s EXCEPT !.job = j]
      OBVIOUS
    <3>2. u \in Ifaces /\ u.up = s.up /\ u.cache = s.cache /\ u.querier = s.querier
      BY <1>2, <2>4, <3>1, Replaced
    <3> QED
      BY <2>4, <2>5, <2>6, <3>1, <3>2
<1> QED
  BY <1>3, <1>4, <1>5

-----------------------------------------------------------------------------
(* The steps *)

LEMMA WithCache ==
    ASSUME NEW t, NEW C, IfaceOK(t, C), NEW c, CacheOK(c)
    PROVE  IfaceOK([t EXCEPT !.cache = c], C)
<1>1. t \in Ifaces /\ c \in [Records -> Entries]
  BY DEF IfaceOK, CacheOK
<1>2. PICK u : u = [t EXCEPT !.cache = c]
  OBVIOUS
<1>3. u \in Ifaces /\ u.up = t.up /\ u.cache = c /\ u.querier = t.querier
  BY <1>1, <1>2, Replaced
<1> QED
  BY <1>2, <1>3 DEF IfaceOK

LEMMA WithJob ==
    ASSUME NEW t, NEW C, IfaceOK(t, C), NEW j \in Jobs
    PROVE  IfaceOK([t EXCEPT !.job = j], C)
<1>1. t \in Ifaces
  BY DEF IfaceOK
<1>2. PICK u : u = [t EXCEPT !.job = j]
  OBVIOUS
<1>3. u \in Ifaces /\ u.up = t.up /\ u.cache = t.cache /\ u.querier = t.querier
  BY <1>1, <1>2, Replaced
<1> QED
  BY <1>2, <1>3 DEF IfaceOK

(* One entry changes and is not a new one. *)
LEMMA WithEntry ==
    ASSUME conf \in Confs, NEW t, NEW C, IfaceOK(t, C), NEW r \in Records, NEW e \in Entries,
           Observed(e), e.st # "none" => t.cache[r].st # "none"
    PROVE  IfaceOK([t EXCEPT !.cache[r] = e], C)
<1>1. CacheOK(t.cache) /\ t \in Ifaces
  BY DEF IfaceOK
<1>2. PICK c : c = [t.cache EXCEPT ![r] = e]
  OBVIOUS
<1>3. c \in [Records -> Entries] /\ c[r] = e /\ \A s \in Records : s # r => c[s] = t.cache[s]
  BY <1>1, <1>2 DEF CacheOK
<1>4. \A s \in Records : Observed(c[s]) /\ (c[s].st # "none" => t.cache[s].st # "none")
  <2>1. \A s \in Records : Observed(t.cache[s])
    BY <1>1 DEF CacheOK
  <2> QED
    BY <1>3, <2>1
<1>5. CacheOK(c)
  BY <1>1, <1>3, <1>4, NoMoreCached
<1>6. [t EXCEPT !.cache[r] = e] = [t EXCEPT !.cache = c]
  BY <1>1, <1>2 DEF Ifaces
<1> QED
  BY <1>5, <1>6, WithCache

LEMMA IncomingFacts ==
    ASSUME NEW t, NEW C, IfaceOK(t, C)
    PROVE  IfaceOK(Incoming(t), C)
<1>1. t \in Ifaces /\ t.job \in Jobs
  BY DEF IfaceOK, Ifaces
<1>2. PICK j : j = Done(t.job)
  OBVIOUS
<1>3. j \in Jobs
  BY <1>1, <1>2, PostFacts
<1>4. PICK s : s = [t EXCEPT !.job = j]
  OBVIOUS
<1>5. IfaceOK(s, C)
  BY <1>3, <1>4, WithJob
<1>6. s \in Ifaces /\ s.querier \in Queriers
  BY <1>5 DEF IfaceOK, Ifaces
<1>7. PICK q : q = [s.querier EXCEPT !.posted = FALSE]
  OBVIOUS
<1>8. q \in Queriers /\ q.used = s.querier.used /\ q.live = s.querier.live
  BY <1>6, <1>7 DEF Queriers
<1>9. PICK u : u = [s EXCEPT !.querier = q]
  OBVIOUS
<1>10. u \in Ifaces /\ u.up = s.up /\ u.cache = s.cache /\ u.querier = q
  BY <1>6, <1>8, <1>9, Replaced
<1>11. IfaceOK(u, C)
  BY <1>5, <1>8, <1>10 DEF IfaceOK, QuerierOK
<1>12. Incoming(t) = u
  <2>1. Incoming(t) = [s EXCEPT !.querier.posted = FALSE]
    BY <1>2, <1>4, <1>1 DEF Incoming
  <2> QED
    BY <2>1, <1>6, <1>7, <1>9 DEF Ifaces
<1> QED
  BY <1>11, <1>12

LEMMA RefreshFacts ==
    ASSUME NEW t, NEW C, IfaceOK(t, C)
    PROVE  IfaceOK(Refresh(t), C)
<1>1. t \in Ifaces /\ QuerierOK(t.up, t.querier, C)
  BY DEF IfaceOK
<1>2. CASE ~ t.querier.live
  BY <1>2 DEF Refresh
<1>3. CASE t.querier.live /\ t.querier.used = 0
  <2>1. PICK u : u = [t EXCEPT !.querier = NoQuerier]
    OBVIOUS
  <2>2. u \in Ifaces /\ u.cache = t.cache /\ u.up = t.up /\ QuerierOK(u.up, u.querier, C)
    BY <1>1, <1>3, <2>1, PostOrGo
  <2>3. Refresh(t) = u
    BY <1>3, <2>1 DEF Refresh
  <2> QED
    BY <2>2, <2>3 DEF IfaceOK
<1>4. CASE t.querier.live /\ t.querier.used # 0
  <2>1. PICK u : u = [t EXCEPT !.job = Post(@)]
    OBVIOUS
  <2>2. u \in Ifaces /\ u.cache = t.cache /\ u.up = t.up /\ QuerierOK(u.up, u.querier, C)
    BY <1>1, <1>4, <2>1, PostOrGo
  <2>3. Refresh(t) = u
    BY <1>4, <2>1 DEF Refresh
  <2> QED
    BY <2>2, <2>3 DEF IfaceOK
<1> QED
  BY <1>2, <1>3, <1>4

LEMMA Stays ==
    ASSUME CacheInv, conf' = conf, IfaceOK(i', clients'), clients' \subseteq Clients,
           owned' \subseteq Records, answers' \subseteq Records, tended' \subseteq Records
    PROVE  CacheInv'
<1>1. Entries' = Entries
  BY DEF Entries
<1>2. Ifaces' = Ifaces
  BY <1>1 DEF Ifaces
<1>3. IfaceOK(i, clients)'
  <2>1. CacheOK(i.cache)'
    BY <1>1 DEF IfaceOK, CacheOK, Observed, Cached
  <2>2. QuerierOK(i.up, i.querier, clients)'
    BY DEF IfaceOK, QuerierOK
  <2>3. i' \in Ifaces'
    BY <1>2 DEF IfaceOK
  <2> QED
    BY <2>1, <2>2, <2>3 DEF IfaceOK
<1> QED
  BY <1>3 DEF CacheInv

(* The limit is looked at when a record comes in, and only then. *)
LEMMA UpdateFacts ==
    ASSUME CacheInv, NEW r \in Records, Update(r)
    PROVE  IfaceOK(i', clients) /\ tended' \subseteq Records
<1>0. IfaceOK(i, clients) /\ CacheOK(i.cache) /\ i.cache \in [Records -> Entries] /\ conf \in Confs
  BY DEF CacheInv, IfaceOK, CacheOK
<1> PICK flush : flush = IF conf.unique THEN Aged ELSE {}
  OBVIOUS
<1>1. flush \subseteq Cached(i.cache)
  BY DEF Aged
<1> PICK c : c = Flushed(i.cache, flush)
  OBVIOUS
<1> PICK e : e = Enter(NoEntry, "VALID")
  OBVIOUS
<1>2. e \in Entries /\ e.st = "VALID" /\ Observed(e)
  BY <1>0, EntryFacts DEF States
<1>3. c \in [Records -> Entries]
      /\ \A s \in Records : Observed(c[s]) /\ (c[s].st # "none" => i.cache[s].st # "none")
  <2>1. ASSUME NEW s \in Records
        PROVE  LET x == IF s \in flush THEN Enter(i.cache[s], "REPLACE_FINAL") ELSE i.cache[s]
               IN  x \in Entries /\ Observed(x) /\ (x.st # "none" => i.cache[s].st # "none")
    <3>1. i.cache[s] \in Entries /\ Observed(i.cache[s])
      BY <1>0 DEF CacheOK
    <3>2. CASE s \in flush
      <4>1. i.cache[s].st # "none"
        BY <1>1, <3>2 DEF Cached
      <4>2. Enter(i.cache[s], "REPLACE_FINAL") \in Entries /\ Observed(Enter(i.cache[s], "REPLACE_FINAL"))
        BY <1>0, <3>1, EntryFacts DEF States
      <4> QED
        BY <3>2, <4>1, <4>2
    <3>3. CASE s \notin flush
      BY <3>1, <3>3
    <3> QED
      BY <3>2, <3>3
  <2>2. c = [s \in Records |-> IF s \in flush THEN Enter(i.cache[s], "REPLACE_FINAL") ELSE i.cache[s]]
    BY DEF Flushed
  <2> QED
    BY <2>1, <2>2
<1>4. CacheOK(c)
  BY <1>0, <1>3, NoMoreCached
<1> PICK taken \in BOOLEAN : taken <=> c[r].st # "none" \/ Cardinality(Cached(c)) < conf.limit
  OBVIOUS
<1> PICK d : d = [c EXCEPT ![r] = e]
  OBVIOUS
<1>5. d \in [Records -> Entries] /\ d[r] = e /\ \A s \in Records : s # r => d[s] = c[s]
  BY <1>2, <1>3
<1>6. \A s \in Records : Observed(d[s])
  BY <1>2, <1>3, <1>5
<1>7. ASSUME taken
      PROVE  CacheOK(d)
  <2>1. CASE c[r].st # "none"
    <3>1. \A s \in Records : d[s].st # "none" => c[s].st # "none"
      BY <1>5, <2>1
    <3> QED
      BY <1>0, <1>4, <1>5, <1>6, <3>1, NoMoreCached
  <2>2. CASE c[r].st = "none"
    <3>1. Cardinality(Cached(c)) < conf.limit
      BY <1>7, <2>2
    <3>2. Cached(d) = Cached(c) \cup {r} /\ r \notin Cached(c)
      BY <1>2, <1>5, <2>2 DEF Cached
    <3>3. IsFiniteSet(Cached(c)) /\ Cardinality(Cached(c)) \in Nat
      BY CachedType, FiniteCard
    <3>4. Cardinality(Cached(d)) = Cardinality(Cached(c)) + 1
      BY <3>2, <3>3, FS_AddElement
    <3>5. Cardinality(Cached(d)) <= conf.limit
      BY <1>0, <3>1, <3>3, <3>4, ConfType
    <3> QED
      BY <1>5, <1>6, <3>5 DEF CacheOK
  <2> QED
    BY <2>1, <2>2
<1>8. i' = [i EXCEPT !.cache = IF taken THEN d ELSE c]
  BY DEF Update
<1>9. CacheOK(IF taken THEN d ELSE c)
  BY <1>4, <1>7
<1>10. IfaceOK([i EXCEPT !.cache = IF taken THEN d ELSE c], clients)
  BY <1>0, <1>9, WithCache
<1>11. tended' \subseteq Records
  BY DEF Update, CacheInv
<1> QED
  BY <1>8, <1>10, <1>11

LEMMA InitHolds == CacheInit => CacheInv
<1> SUFFICES ASSUME CacheInit PROVE CacheInv
  OBVIOUS
<1>1. conf \in Confs
  BY DEF CacheInit
<1> PICK c : c = [r \in Records |-> NoEntry]
  OBVIOUS
<1>2. CacheOK(c)
  <2>1. c \in [Records -> Entries] /\ \A r \in Records : Observed(c[r])
    BY <1>1, EntryFacts
  <2>2. Cached(c) = {}
    BY <1>1, EntryFacts DEF Cached
  <2>3. Cardinality(Cached(c)) <= conf.limit
    BY <1>1, <2>2, FS_EmptySet, ConfType
  <2> QED
    BY <2>1, <2>3 DEF CacheOK
<1>3. i = [up |-> TRUE, cache |-> c, querier |-> NoQuerier, job |-> NoJob]
  BY DEF CacheInit
<1>4. i \in Ifaces
  BY <1>2, <1>3, PostFacts DEF Ifaces, CacheOK
<1>5. i.cache = c /\ i.querier = NoQuerier
  BY <1>3
<1>6. QuerierOK(i.up, NoQuerier, clients)
  BY <1>3, PostFacts, FS_EmptySet DEF QuerierOK, CacheInit
<1>7. IfaceOK(i, clients)
  BY <1>2, <1>4, <1>5, <1>6 DEF IfaceOK
<1> QED
  BY <1>1, <1>7 DEF CacheInv, CacheInit

LEMMA LinkUpHolds == CacheInv /\ LinkUp => CacheInv'
<1> SUFFICES ASSUME CacheInv, LinkUp PROVE CacheInv'
  OBVIOUS
<1>1. IfaceOK(i, clients) /\ i \in Ifaces /\ CacheOK(i.cache) /\ QuerierOK(i.up, i.querier, clients) /\ ~ i.up
  BY DEF CacheInv, IfaceOK, LinkUp
<1>2. i.querier.used = 0 /\ ~ i.querier.live /\ i.job \in Jobs /\ i.querier \in Queriers
  BY <1>1 DEF QuerierOK, Ifaces
<1> PICK t : t = [i EXCEPT !.up = TRUE]
  OBVIOUS
<1>3. t \in Ifaces /\ t.up /\ t.cache = i.cache /\ t.querier = i.querier /\ t.job = i.job
  BY <1>1 DEF Ifaces
<1>4. Cardinality({}) = 0 /\ Cardinality({}) \in Nat
  BY FS_EmptySet
<1>5. QuerierOK(t.up, t.querier, {})
  BY <1>2, <1>3, <1>4 DEF QuerierOK
<1>6. IfaceOK(i', clients)
  <2>1. CASE clients = {}
    <3>1. i' = t
      BY <2>1 DEF LinkUp
    <3> QED
      BY <1>1, <1>3, <1>5, <2>1, <3>1 DEF IfaceOK
  <2>2. CASE clients # {}
    <3>1. PICK D : D = {NoQuerier}
      OBVIOUS
    <3>2. Cardinality(D) = 1
      BY <3>1, FS_Singleton
    <3>3. Cardinality(D) = Cardinality({}) + 1
      BY <3>2, <1>4
    <3>4. PICK u : u = QuerierAdd(t)
      OBVIOUS
    <3>5. u \in Ifaces /\ u.cache = t.cache /\ u.up = t.up /\ QuerierOK(u.up, u.querier, D)
      BY <1>3, <1>4, <1>5, <3>3, <3>4, AddFacts
    <3>6. u.querier \in Queriers /\ u.querier.live
      <4>1. u.querier.used = 1
        BY <1>3, <3>2, <3>5 DEF QuerierOK
      <4> QED
        BY <3>5, <4>1 DEF QuerierOK, Ifaces
    <3>7. PICK n : n = Cardinality(clients)
      OBVIOUS
    <3>8. n \in Nat
      BY <3>7, FiniteCard DEF CacheInv
    <3>9. PICK q : q = [u.querier EXCEPT !.used = n]
      OBVIOUS
    <3>10. q \in Queriers /\ q.used = n /\ q.live
      BY <3>6, <3>8, <3>9 DEF Queriers
    <3>11. i' = [u EXCEPT !.querier = q]
      <4>1. i' = [u EXCEPT !.querier.used = n]
        BY <2>2, <3>4, <3>7 DEF LinkUp
      <4> QED
        BY <3>5, <3>9, <4>1 DEF Ifaces
    <3>12. PICK v : v = [u EXCEPT !.querier = q]
      OBVIOUS
    <3>13. v \in Ifaces /\ v.up = u.up /\ v.cache = u.cache /\ v.querier = q
      BY <3>5, <3>10, <3>12, Replaced
    <3>14. QuerierOK(v.up, q, clients)
      BY <1>3, <3>5, <3>7, <3>10, <3>13 DEF QuerierOK
    <3> QED
      BY <1>1, <1>3, <3>5, <3>11, <3>12, <3>13, <3>14 DEF IfaceOK
  <2> QED
    BY <2>1, <2>2
<1>7. conf' = conf /\ clients' = clients /\ owned' = owned /\ answers' = answers /\ tended' = tended
  BY DEF LinkUp
<1>8. clients' \subseteq Clients /\ owned' \subseteq Records /\ answers' \subseteq Records /\ tended' \subseteq Records
  BY <1>7 DEF CacheInv
<1>9. IfaceOK(i', clients')
  BY <1>6, <1>7
<1> QED
  BY <1>7, <1>8, <1>9, Stays

LEMMA WatchHolds == \A c \in Clients : CacheInv /\ (Watch(c) \/ Unwatch(c)) => CacheInv'
<1> SUFFICES ASSUME NEW c \in Clients, CacheInv, Watch(c) \/ Unwatch(c) PROVE CacheInv'
  OBVIOUS
<1>1. IfaceOK(i, clients) /\ i \in Ifaces /\ CacheOK(i.cache) /\ QuerierOK(i.up, i.querier, clients)
  BY DEF CacheInv, IfaceOK
<1>2. clients' \subseteq Clients
  BY DEF CacheInv, Watch, Unwatch
<1>3. IsFiniteSet(clients) /\ Cardinality(clients) \in Nat /\ Cardinality(clients') \in Nat
  <2>1. clients \in SUBSET Clients /\ clients' \in SUBSET Clients
    BY <1>2 DEF CacheInv
  <2>2. \A n \in 0..Cardinality(Clients) : n \in Nat
    OBVIOUS
  <2> QED
    BY <2>1, <2>2, FiniteCard
<1>4. IfaceOK(i', clients')
  <2>1. CASE ~ i.up
    <3>1. i' = i
      BY <2>1 DEF Watch, Unwatch
    <3>2. QuerierOK(i.up, i.querier, clients')
      BY <1>1, <2>1 DEF QuerierOK
    <3>3. IfaceOK(i, clients')
      BY <1>1, <3>2 DEF IfaceOK
    <3> QED
      BY <3>1, <3>3
  <2>2. CASE i.up /\ Watch(c)
    <3>1. Cardinality(clients') = Cardinality(clients) + 1
      BY <1>3, <2>2, FS_AddElement DEF Watch
    <3>2. PICK u : u = QuerierAdd(i)
      OBVIOUS
    <3>3. u \in Ifaces /\ u.cache = i.cache /\ u.up = i.up /\ QuerierOK(u.up, u.querier, clients')
      BY <1>1, <1>3, <2>2, <3>1, <3>2, AddFacts
    <3>4. i' = u
      BY <2>2, <3>2 DEF Watch
    <3> QED
      BY <1>1, <3>3, <3>4 DEF IfaceOK
  <2>3. CASE i.up /\ Unwatch(c)
    <3>1. Cardinality(clients) = Cardinality(clients') + 1
      <4>1. Cardinality(clients') = Cardinality(clients) - 1
        BY <1>3, <2>3, FS_RemoveElement DEF Unwatch
      <4> QED
        BY <1>3, <4>1
    <3>2. PICK u : u = QuerierRemove(i)
      OBVIOUS
    <3>3. u \in Ifaces /\ u.cache = i.cache /\ u.up = i.up /\ QuerierOK(u.up, u.querier, clients')
      BY <1>1, <1>3, <2>3, <3>1, <3>2, RemoveFacts
    <3>4. i' = u
      BY <2>3, <3>2 DEF Unwatch
    <3> QED
      BY <1>1, <3>3, <3>4 DEF IfaceOK
  <2> QED
    BY <2>1, <2>2, <2>3
<1>5. conf' = conf /\ owned' = owned /\ answers' = answers /\ tended' \subseteq tended
  BY DEF Watch, Unwatch
<1>6. owned' \subseteq Records /\ answers' \subseteq Records /\ tended' \subseteq Records
  BY <1>5 DEF CacheInv
<1> QED
  BY <1>2, <1>4, <1>5, <1>6, Stays

LEMMA ElapseHolds == \A r \in Records : CacheInv /\ (Elapse(r) \/ HalfTtl(r)) => CacheInv'
<1> SUFFICES ASSUME NEW r \in Records, CacheInv, Elapse(r) \/ HalfTtl(r) PROVE CacheInv'
  OBVIOUS
<1>0. IfaceOK(i, clients) /\ CacheOK(i.cache) /\ i \in Ifaces /\ conf \in Confs
  BY DEF CacheInv, IfaceOK
<1> PICK e : e = i.cache[r]
  OBVIOUS
<1>1. e \in Entries /\ Observed(e) /\ e.st \in States /\ e.st # "none"
  BY <1>0 DEF CacheOK, Entries, States, Elapse, HalfTtl
<1>2. IfaceOK(i', clients)
  <2>1. CASE Elapse(r) /\ e.st \in DOMAIN NextState
    <3>1. NextState[e.st] \in States
      BY <2>1 DEF NextState, States
    <3>2. PICK x : x = Enter(e, NextState[e.st])
      OBVIOUS
    <3>3. x \in Entries /\ Observed(x)
      BY <1>0, <1>1, <3>1, <3>2, EntryFacts
    <3>4. IfaceOK([i EXCEPT !.cache[r] = x], clients)
      BY <1>0, <1>1, <3>3, WithEntry
    <3>5. i' = Refresh([i EXCEPT !.cache[r] = x])
      BY <2>1, <3>2 DEF Elapse
    <3>6. PICK t : t = [i EXCEPT !.cache[r] = x]
      OBVIOUS
    <3>7. IfaceOK(Refresh(t), clients)
      BY <3>4, <3>6, RefreshFacts
    <3> QED
      BY <3>5, <3>6, <3>7
  <2>2. CASE Elapse(r) /\ e.st \notin DOMAIN NextState
    <3>1. i' = [i EXCEPT !.cache[r] = NoEntry]
      BY <2>2 DEF Elapse
    <3> QED
      BY <1>0, <3>1, EntryFacts, WithEntry
  <2>3. CASE HalfTtl(r)
    <3>1. PICK x : x = [e EXCEPT !.old = TRUE]
      OBVIOUS
    <3>2. x \in Entries /\ x.st = e.st /\ x.poof = e.poof
      BY <1>1, <3>1 DEF Entries
    <3>3. Observed(x)
      BY <1>1, <3>2 DEF Observed
    <3>4. i' = [i EXCEPT !.cache[r] = x]
      BY <2>3, <3>1, <1>0 DEF HalfTtl, Ifaces
    <3> QED
      BY <1>0, <1>1, <3>2, <3>3, <3>4, WithEntry
  <2> QED
    BY <2>1, <2>2, <2>3
<1>3. conf' = conf /\ clients' = clients /\ owned' = owned /\ answers' = answers /\ tended' \subseteq tended
  BY DEF Elapse, HalfTtl
<1>4. clients' \subseteq Clients /\ owned' \subseteq Records /\ answers' \subseteq Records /\ tended' \subseteq Records
  BY <1>3 DEF CacheInv
<1>5. IfaceOK(i', clients')
  BY <1>2, <1>3
<1> QED
  BY <1>3, <1>4, <1>5, Stays

LEMMA PacketsHold ==
    ASSUME CacheInv,
           \/ \E lost \in BOOLEAN : SendQuery(lost)
           \/ \E r \in Records : ReceiveAnswer(r) \/ \E lost \in BOOLEAN : SayGoodbye(r, lost)
           \/ \E h \in Hosts, K \in SUBSET Records, unicast \in BOOLEAN : OtherQuery(h, K, unicast)
    PROVE  CacheInv'
<1>0. IfaceOK(i, clients) /\ CacheOK(i.cache) /\ i \in Ifaces /\ conf \in Confs
  BY DEF CacheInv, IfaceOK
<1>1. ASSUME NEW lost \in BOOLEAN, SendQuery(lost)
      PROVE  CacheInv'
  <2>1. IfaceOK(i', clients)
    BY <1>0, <1>1, IncomingFacts DEF SendQuery
  <2>2. conf' = conf /\ clients' = clients /\ owned' = owned /\ tended' = tended
    BY <1>1 DEF SendQuery
  <2>3. answers' \subseteq Records
    BY <1>1 DEF SendQuery, CacheInv
  <2>4. clients' \subseteq Clients /\ owned' \subseteq Records /\ tended' \subseteq Records
    BY <2>2 DEF CacheInv
  <2>5. IfaceOK(i', clients')
    BY <2>1, <2>2
  <2> QED
    BY <2>2, <2>3, <2>4, <2>5, Stays
<1>2. ASSUME NEW r \in Records, ReceiveAnswer(r)
      PROVE  CacheInv'
  <2>1. Update(r)
    BY <1>2 DEF ReceiveAnswer
  <2>2. IfaceOK(i', clients) /\ tended' \subseteq Records
    BY <2>1, UpdateFacts
  <2>3. conf' = conf /\ clients' = clients /\ owned' = owned /\ answers' \subseteq answers
    BY <1>2 DEF ReceiveAnswer
  <2>4. clients' \subseteq Clients /\ owned' \subseteq Records /\ answers' \subseteq Records
    BY <2>3 DEF CacheInv
  <2>5. IfaceOK(i', clients')
    BY <2>2, <2>3
  <2> QED
    BY <2>2, <2>3, <2>4, <2>5, Stays
<1>3. ASSUME NEW r \in Records, NEW lost \in BOOLEAN, SayGoodbye(r, lost)
      PROVE  CacheInv'
  <2>1. IfaceOK(i', clients)
    <3>1. CASE lost \/ i.cache[r].st = "none"
      <4>1. i' = i
        BY <1>3, <3>1 DEF SayGoodbye
      <4> QED
        BY <1>0, <4>1
    <3>2. CASE ~ (lost \/ i.cache[r].st = "none")
      <4>1. PICK x : x = Enter(i.cache[r], "GOODBYE_FINAL")
        OBVIOUS
      <4>2. x \in Entries /\ Observed(x)
        BY <1>0, <4>1, EntryFacts DEF CacheOK, States
      <4>3. i' = [i EXCEPT !.cache[r] = x]
        BY <1>3, <3>2, <4>1, <1>0 DEF SayGoodbye, Ifaces
      <4> QED
        BY <1>0, <3>2, <4>2, <4>3, WithEntry
    <3> QED
      BY <3>1, <3>2
  <2>2. conf' = conf /\ clients' = clients /\ answers' = answers /\ owned' \subseteq owned /\ tended' \subseteq tended
    BY <1>3 DEF SayGoodbye
  <2>3. clients' \subseteq Clients /\ owned' \subseteq Records /\ answers' \subseteq Records /\ tended' \subseteq Records
    BY <2>2 DEF CacheInv
  <2>4. IfaceOK(i', clients')
    BY <2>1, <2>2
  <2> QED
    BY <2>2, <2>3, <2>4, Stays
<1>4. ASSUME NEW h \in Hosts, NEW K \in SUBSET Records, NEW unicast \in BOOLEAN, OtherQuery(h, K, unicast)
      PROVE  CacheInv'
  <2>1. PICK c : c = Poofed(h, K, unicast)
    OBVIOUS
  <2>2. CacheOK(c)
    BY <1>0, <2>1, PoofedFacts
  <2>3. PICK t : t = [i EXCEPT !.cache = c]
    OBVIOUS
  <2>4. IfaceOK(t, clients)
    BY <1>0, <2>2, <2>3, WithCache
  <2>5. i' = IF K = {} THEN Incoming(t) ELSE t
    BY <1>4, <2>1, <2>3 DEF OtherQuery
  <2>6. IfaceOK(i', clients)
    <3>1. CASE K = {}
      BY <2>4, <2>5, <3>1, IncomingFacts
    <3>2. CASE K # {}
      BY <2>4, <2>5, <3>2
    <3> QED
      BY <3>1, <3>2
  <2>7. conf' = conf /\ clients' = clients /\ owned' = owned /\ tended' = tended
    BY <1>4 DEF OtherQuery
  <2>8. answers' \subseteq Records
    BY <1>4 DEF OtherQuery, CacheInv
  <2>9. clients' \subseteq Clients /\ owned' \subseteq Records /\ tended' \subseteq Records
    BY <2>7 DEF CacheInv
  <2>10. IfaceOK(i', clients')
    BY <2>6, <2>7
  <2> QED
    BY <2>7, <2>8, <2>9, <2>10, Stays
<1> QED
  BY <1>1, <1>2, <1>3, <1>4

LEMMA TimersHold == CacheInv /\ (HistoryEnds \/ QuerierElapse \/ LinkDown \/ Pass) => CacheInv'
<1> SUFFICES ASSUME CacheInv, HistoryEnds \/ QuerierElapse \/ LinkDown \/ Pass PROVE CacheInv'
  OBVIOUS
<1>0. IfaceOK(i, clients) /\ CacheOK(i.cache) /\ i \in Ifaces /\ conf \in Confs
      /\ QuerierOK(i.up, i.querier, clients)
  BY DEF CacheInv, IfaceOK
<1>1. CASE HistoryEnds \/ Pass
  <2>1. i' = [i EXCEPT !.job = NoJob]
    BY <1>1 DEF HistoryEnds, Pass
  <2>2. IfaceOK(i', clients)
    BY <1>0, <2>1, PostFacts, WithJob
  <2>3. conf' = conf /\ clients' = clients /\ owned' = owned /\ answers' = answers /\ tended' = tended
    BY <1>1 DEF HistoryEnds, Pass
  <2>4. clients' \subseteq Clients /\ owned' \subseteq Records /\ answers' \subseteq Records /\ tended' \subseteq Records
    BY <2>3 DEF CacheInv
  <2>5. IfaceOK(i', clients')
    BY <2>2, <2>3
  <2> QED
    BY <2>3, <2>4, <2>5, Stays
<1>2. CASE QuerierElapse
  <2>1. i.querier.live
    BY <1>2 DEF QuerierElapse
  <2>2. IfaceOK(i', clients)
    <3>1. PICK u : u = i'
      OBVIOUS
    <3>2. u \in Ifaces /\ u.cache = i.cache /\ u.up = i.up /\ QuerierOK(u.up, u.querier, clients)
      <4>1. CASE i.querier.used = 0
        <5>1. u = [i EXCEPT !.querier = NoQuerier]
          BY <1>2, <3>1, <4>1 DEF QuerierElapse
        <5> QED
          BY <1>0, <2>1, <4>1, <5>1, PostOrGo
      <4>2. CASE i.querier.used # 0
        <5>1. u = [[i EXCEPT !.querier = PostedBy(@, i.job)] EXCEPT !.job = Post(@)]
          BY <1>2, <3>1, <4>2 DEF QuerierElapse
        <5> QED
          BY <1>0, <2>1, <5>1, PostOrGo
      <4> QED
        BY <4>1, <4>2
    <3> QED
      BY <1>0, <3>1, <3>2 DEF IfaceOK
  <2>3. conf' = conf /\ clients' = clients /\ owned' = owned /\ answers' = answers /\ tended' = tended
    BY <1>2 DEF QuerierElapse
  <2>4. clients' \subseteq Clients /\ owned' \subseteq Records /\ answers' \subseteq Records /\ tended' \subseteq Records
    BY <2>3 DEF CacheInv
  <2>5. IfaceOK(i', clients')
    BY <2>2, <2>3
  <2> QED
    BY <2>3, <2>4, <2>5, Stays
<1>3. CASE LinkDown
  <2>1. PICK c : c = [r \in Records |-> NoEntry]
    OBVIOUS
  <2>2. CacheOK(c)
    <3>1. c \in [Records -> Entries] /\ \A r \in Records : Observed(c[r]) /\ c[r].st = "none"
      BY <1>0, <2>1, EntryFacts
    <3> QED
      BY <1>0, <3>1, NoMoreCached
  <2>3. PICK u : u = [up |-> FALSE, cache |-> c, querier |-> NoQuerier, job |-> NoJob]
    OBVIOUS
  <2>4. u \in Ifaces
    BY <2>2, <2>3, PostFacts DEF Ifaces, CacheOK
  <2>5. u.cache = c /\ QuerierOK(u.up, u.querier, clients)
    BY <2>3, PostFacts DEF QuerierOK
  <2>6. IfaceOK(i', clients)
    BY <1>3, <2>1, <2>2, <2>3, <2>4, <2>5 DEF IfaceOK, LinkDown
  <2>7. conf' = conf /\ clients' = clients /\ owned' = owned /\ answers' = {} /\ tended' = {}
    BY <1>3 DEF LinkDown
  <2>8. clients' \subseteq Clients /\ owned' \subseteq Records /\ answers' \subseteq Records /\ tended' \subseteq Records
    BY <2>7 DEF CacheInv
  <2>9. IfaceOK(i', clients')
    BY <2>6, <2>7
  <2> QED
    BY <2>7, <2>8, <2>9, Stays
<1> QED
  BY <1>1, <1>2, <1>3

LEMMA HostsHold ==
    ASSUME CacheInv, NEW r \in Records, Publish(r) \/ Crash(r) \/ LoseAnswer(r)
    PROVE  CacheInv'
<1>1. conf' = conf /\ i' = i /\ clients' = clients
  BY DEF Publish, Crash, LoseAnswer
<1>2. clients' \subseteq Clients /\ owned' \subseteq Records /\ answers' \subseteq Records /\ tended' \subseteq Records
  BY DEF CacheInv, Publish, Crash, LoseAnswer
<1>3. IfaceOK(i', clients')
  BY <1>1 DEF CacheInv
<1> QED
  BY <1>1, <1>2, <1>3, Stays

LEMMA CacheStep == CacheInv /\ [CacheNext]_cacheVars => CacheInv'
<1> SUFFICES ASSUME CacheInv, [CacheNext]_cacheVars PROVE CacheInv'
  OBVIOUS
<1>1. CASE HistoryEnds \/ QuerierElapse \/ LinkDown \/ Pass
  BY <1>1, TimersHold
<1>2. CASE LinkUp
  BY <1>2, LinkUpHolds
<1>3. CASE \E c \in Clients : Watch(c) \/ Unwatch(c)
  BY <1>3, WatchHolds
<1>4. CASE \E r \in Records : Elapse(r) \/ HalfTtl(r)
  BY <1>4, ElapseHolds
<1>5. CASE \/ \E lost \in BOOLEAN : SendQuery(lost)
           \/ \E r \in Records : ReceiveAnswer(r) \/ \E lost \in BOOLEAN : SayGoodbye(r, lost)
           \/ \E h \in Hosts, K \in SUBSET Records, unicast \in BOOLEAN : OtherQuery(h, K, unicast)
  BY <1>5, PacketsHold
<1>6. CASE \E r \in Records : Publish(r) \/ Crash(r) \/ LoseAnswer(r)
  BY <1>6, HostsHold
<1>7. CASE UNCHANGED cacheVars
  <2>1. conf' = conf /\ i' = i /\ clients' = clients /\ owned' = owned /\ answers' = answers /\ tended' = tended
    BY <1>7 DEF cacheVars
  <2>2. IfaceOK(i', clients') /\ clients' \subseteq Clients /\ owned' \subseteq Records
        /\ answers' \subseteq Records /\ tended' \subseteq Records
    BY <2>1 DEF CacheInv
  <2> QED
    BY <2>1, <2>2, Stays
<1> QED
  BY <1>1, <1>2, <1>3, <1>4, <1>5, <1>6, <1>7 DEF CacheNext

LEMMA CacheInvImplies == CacheInv => CacheTypeOK
<1> SUFFICES ASSUME CacheInv PROVE CacheTypeOK
  OBVIOUS
<1>1. i \in Ifaces /\ CacheOK(i.cache) /\ QuerierOK(i.up, i.querier, clients)
  BY DEF CacheInv, IfaceOK
<1>2. Cardinality(clients) \in 0..Cardinality(Clients) /\ Cardinality(Clients) \in Nat
  BY FiniteCard, FS_CardinalityType, CacheAssumption DEF CacheInv
<1>3. i.querier \in Queriers /\ i.job \in Jobs
  BY <1>1 DEF Ifaces
<1>4. i.querier.used \in 0..Cardinality(Clients)
  <2>1. i.up \in BOOLEAN
    BY <1>1 DEF Ifaces
  <2> QED
    BY <1>1, <1>2, <2>1 DEF QuerierOK
<1>5. i.querier \in [used : 0..Cardinality(Clients), live : BOOLEAN, posted : BOOLEAN]
  BY <1>3, <1>4 DEF Queriers
<1> QED
  BY <1>1, <1>3, <1>5 DEF CacheTypeOK, CacheInv, CacheOK, Jobs

(* CacheTypeOK is about avahi_cache_update, which alone compares the size of the
   cache with n_cache_entries_max, and about the used counter of querier.c: however
   records come, are flushed, refreshed and given up, no key takes the cache beyond
   its limit, and the querier of an interface that is up is used exactly as often as
   there are lookups, so that none of them ends it for another.                     *)
THEOREM CacheTypeCorrect == CacheSpec => []CacheTypeOK
<1>1. CacheInit => CacheInv
  BY InitHolds
<1>2. CacheInv /\ [CacheNext]_cacheVars => CacheInv'
  BY CacheStep
<1>3. CacheInv => CacheTypeOK
  BY CacheInvImplies
<1> QED
  BY <1>1, <1>2, <1>3, PTL DEF CacheSpec

(* avahi_querier_add, avahi_querier_remove, avahi_querier_add_for_all and
   avahi_multicast_lookup_engine_new_interface: the querier is alive while anybody
   browses the key on an interface that is up, and counts who does.               *)
QuerierCounts ==
    i.up => /\ i.querier.used = Cardinality(clients)
            /\ clients # {} => i.querier.live

THEOREM QuerierIsCounted == CacheSpec => []QuerierCounts
<1>1. CacheInit => CacheInv
  BY InitHolds
<1>2. CacheInv /\ [CacheNext]_cacheVars => CacheInv'
  BY CacheStep
<1>3. CacheInv => QuerierCounts
  <2> SUFFICES ASSUME CacheInv PROVE QuerierCounts
    OBVIOUS
  <2>1. QuerierOK(i.up, i.querier, clients)
    BY DEF CacheInv, IfaceOK
  <2>2. IsFiniteSet(clients) /\ Cardinality(clients) \in Nat
    <3>1. \A n \in 0..Cardinality(Clients) : n \in Nat
      OBVIOUS
    <3> QED
      BY <3>1, FiniteCard DEF CacheInv
  <2>3. clients # {} => Cardinality(clients) # 0
    BY <2>2, FS_EmptySet
  <2> QED
    BY <2>1, <2>2, <2>3 DEF QuerierOK, QuerierCounts
<1> QED
  BY <1>1, <1>2, <1>3, PTL DEF CacheSpec

-----------------------------------------------------------------------------
(* Records that are kept *)

(* The queries elapse_func has posted for an entry, by its state. These are the states
   of a record that is looked after and that a host has.                               *)
Tries == [VALID |-> 0, POOF |-> 0, POOF_FINAL |-> 0,
          EXPIRY1 |-> 1, EXPIRY2 |-> 2, EXPIRY3 |-> 3, EXPIRY_FINAL |-> 4]

(* Entry e of such a record r, in burst b with the answers A on their way, a job in
   state j and L packets lost. Each query that was posted for it was lost, or its
   answer, but for one of this burst, which is still scheduled or whose answer is on
   its way. A query that was just sent, by us or by another host, and after which ours
   are refused, counts as ours if the entry asks again: its answer is on its way as
   well, or was lost in addition. So is that of the last query of others that counts
   towards POOF_FINAL.                                                                 *)
KeptWell(r, e, b, A, j, L) ==
    /\ e.st \in DOMAIN Tries
    /\ Tries[e.st] > 0 => e.old
    /\ r \in b.new => ~ e.old
    /\ L >= Tries[e.st] \/ (L >= Tries[e.st] - 1 /\ r \in b.timers /\ (j = "scheduled" \/ r \in A))
    /\ e.st = "POOF" => L > e.poof \/ (L >= e.poof /\ r \in A /\ b.asked # {})
    /\ e.st = "POOF_FINAL" => L >= e.poof /\ e.poof > conf.poof
    /\ j = "history" /\ e.old /\ r \notin b.timers /\ e.st # "EXPIRY_FINAL" =>
          L > Tries[e.st] \/ (L >= Tries[e.st] /\ r \in A)

Bursts == [new : SUBSET Records, timers : SUBSET (Records \cup {Querier}), asked : SUBSET Hosts]

LinkInv ==
    /\ burst \in Bursts /\ burst.timers \cap burst.new = {} /\ losses \in Nat
    /\ tended # {} => i.up /\ clients # {}
    /\ conf.unique => \A r, s \in owned : r = s
    /\ conf.unique => \A r \in answers \ owned, s \in owned \cap tended : s \in burst.new

KeptInv ==
    /\ CacheInv /\ LinkInv
    /\ \A r \in owned \cap tended : KeptWell(r, i.cache[r], burst, answers, i.job.st, losses)

LEMMA TriesFacts ==
    /\ DOMAIN Tries = {"VALID", "POOF", "POOF_FINAL", "EXPIRY1", "EXPIRY2", "EXPIRY3", "EXPIRY_FINAL"}
    /\ Tries["VALID"] = 0 /\ Tries["POOF"] = 0 /\ Tries["POOF_FINAL"] = 0
    /\ Tries["EXPIRY1"] = 1 /\ Tries["EXPIRY2"] = 2 /\ Tries["EXPIRY3"] = 3
    /\ Tries["EXPIRY_FINAL"] = 4
    /\ \A st \in DOMAIN Tries : Tries[st] \in 0..4
  BY DEF Tries

LEMMA ArmedFacts ==
    ASSUME burst \in Bursts, NEW T \in SUBSET (Records \cup {Querier})
    PROVE  /\ Armed(T) \in Bursts /\ Armed(T).new = burst.new /\ Armed(T).asked = burst.asked
           /\ Armed(T).timers = (burst.timers \cup T) \ burst.new
<1>1. PICK X : X = (burst.timers \cup T) \ burst.new
  OBVIOUS
<1>2. X \in SUBSET (Records \cup {Querier})
  BY <1>1 DEF Bursts
<1>3. Armed(T) = [burst EXCEPT !.timers = X]
  BY <1>1 DEF Armed, Bursts
<1> QED
  BY <1>1, <1>2, <1>3 DEF Bursts

LEMMA NewBurstFacts ==
    NewBurst \in Bursts /\ NewBurst.new = {} /\ NewBurst.timers = {} /\ NewBurst.asked = {}
  BY DEF NewBurst, Bursts

LEMMA PostSt ==
    ASSUME NEW j
    PROVE  /\ j.st = "scheduled" => Post(j).st = "scheduled"
           /\ Post(j).st = "history" => j.st = "history"
           /\ j.st # "history" => Post(j).st = "scheduled"
           /\ j.st = "history" => Post(j) = j
<1>1. CASE j.st = "history"
  BY <1>1 DEF Post, Accepts
<1>2. CASE j.st # "history"
  <2>1. Post(j) = [st |-> "scheduled", posted |-> j.posted + 1]
    BY <1>2 DEF Post, Accepts
  <2>2. Post(j).st = "scheduled"
    BY <2>1
  <2> QED
    BY <1>2, <2>2
<1> QED
  BY <1>1, <1>2

(* What a step leaves to an entry it does not touch: the queries and answers it had,
   but for those that are lost, and an answer to a query that is sent.               *)
Quiet(r) ==
    /\ i'.cache[r] = i.cache[r] /\ conf' = conf
    /\ losses' \in Nat /\ losses' >= losses
    /\ r \in burst.timers => r \in burst'.timers
    /\ r \in burst'.new => r \in burst.new
    /\ burst.asked # {} => burst'.asked # {}
    /\ r \in answers => r \in answers' \/ losses' > losses
    /\ i.job.st = "scheduled" /\ i.cache[r].old =>
          i'.job.st = "scheduled" \/ r \in answers' \/ losses' > losses
    /\ i'.job.st = "history" /\ i.cache[r].old =>
          i.job.st = "history" \/ r \in answers' \/ losses' > losses

LEMMA QuietKeeps ==
    ASSUME KeptInv, NEW r \in owned \cap tended, Quiet(r)
    PROVE  KeptWell(r, i.cache[r], burst, answers, i.job.st, losses)'
<1> PICK e : e = i.cache[r]
  OBVIOUS
<1>2. KeptWell(r, e, burst, answers, i.job.st, losses) /\ losses \in Nat
  BY DEF KeptInv, LinkInv
<1>3. e \in Entries
  BY DEF KeptInv, CacheInv, IfaceOK, CacheOK
<1>4. e.st \in DOMAIN Tries /\ Tries[e.st] \in 0..4 /\ e.poof \in Nat
  BY <1>2, <1>3, TriesFacts, ConfType DEF KeptWell, Entries, KeptInv, CacheInv
<1>5. PICK n : n = Tries[e.st]
  OBVIOUS
<1>6. n \in 0..4 /\ (n = 0 => losses >= n)
  BY <1>2, <1>4, <1>5
<1>7. i'.cache[r] = e /\ conf' = conf
  BY DEF Quiet
<1>8. losses' \in Nat /\ losses' >= losses
  BY DEF Quiet
<1>9. losses' >= n \/ (losses' >= n - 1 /\ r \in burst'.timers /\ (i'.job.st = "scheduled" \/ r \in answers'))
  BY <1>2, <1>5, <1>6, <1>8 DEF KeptWell, Quiet
<1>10. e.st = "POOF" => losses' > e.poof \/ (losses' >= e.poof /\ r \in answers' /\ burst'.asked # {})
  BY <1>2, <1>4, <1>8 DEF KeptWell, Quiet
<1>11. e.st = "POOF_FINAL" => losses' >= e.poof /\ e.poof > conf'.poof
  BY <1>2, <1>4, <1>7, <1>8 DEF KeptWell
<1>12. i'.job.st = "history" /\ e.old /\ r \notin burst'.timers /\ e.st # "EXPIRY_FINAL" =>
          losses' > n \/ (losses' >= n /\ r \in answers')
  BY <1>2, <1>5, <1>6, <1>8 DEF KeptWell, Quiet
<1>13. (n > 0 => e.old) /\ (r \in burst'.new => ~ e.old)
  BY <1>2, <1>5 DEF KeptWell, Quiet
<1> QED
  BY <1>4, <1>5, <1>7, <1>9, <1>10, <1>11, <1>12, <1>13 DEF KeptWell

LEMMA IncomingJob ==
    ASSUME NEW t \in Ifaces
    PROVE  Incoming(t).cache = t.cache /\ Incoming(t).job.st = "history"
<1>1. PICK j : j = Done(t.job)
  OBVIOUS
<1>2. j \in Jobs /\ j.st = "history"
  BY <1>1, PostFacts DEF Ifaces, Done
<1>3. PICK s : s = [t EXCEPT !.job = j]
  OBVIOUS
<1>4. s \in Ifaces /\ s.cache = t.cache /\ s.job = j /\ s.querier \in Queriers
  BY <1>2, <1>3, Replaced DEF Ifaces
<1>5. PICK q : q = [s.querier EXCEPT !.posted = FALSE]
  OBVIOUS
<1>6. q \in Queriers
  BY <1>4, <1>5 DEF Queriers
<1>7. PICK u : u = [s EXCEPT !.querier = q]
  OBVIOUS
<1>8. u.cache = s.cache /\ u.job = s.job
  BY <1>4, <1>6, <1>7, Replaced
<1>9. Incoming(t) = u
  <2>1. Incoming(t) = [s EXCEPT !.querier.posted = FALSE]
    BY <1>1, <1>3 DEF Incoming
  <2> QED
    BY <2>1, <1>4, <1>5, <1>7 DEF Ifaces
<1> QED
  BY <1>2, <1>4, <1>8, <1>9

(* The steps of other timers, of the lookups and of packets that are lost or sent: they
   touch no entry.                                                                     *)
LEMMA JobSteps ==
    ASSUME KeptInv, NEW r \in owned \cap tended,
           HistoryEnds \/ QuerierElapse \/ \E lost \in BOOLEAN : SendQuery(lost)
    PROVE  Quiet(r)
<1>0. i \in Ifaces /\ burst \in Bursts /\ losses \in Nat /\ r \in Records
  BY DEF KeptInv, LinkInv, CacheInv, IfaceOK
<1>1. CASE HistoryEnds
  <2>1. i'.cache = i.cache /\ i'.job = NoJob
    <3>1. i' = [i EXCEPT !.job = NoJob]
      BY <1>1 DEF HistoryEnds
    <3> QED
      BY <1>0, <3>1, PostFacts, Replaced
  <2> QED
    BY <1>0, <1>1, <2>1 DEF HistoryEnds, Quiet, NoJob
<1>2. CASE QuerierElapse
  <2>1. /\ i'.cache = i.cache
        /\ i.job.st = "scheduled" => i'.job.st = "scheduled"
        /\ i'.job.st = "history" => i.job.st = "history"
    <3>1. CASE i.querier.used = 0
      <4>1. i' = [i EXCEPT !.querier = NoQuerier]
        BY <1>2, <3>1 DEF QuerierElapse
      <4> QED
        BY <1>0, <4>1, PostFacts, Replaced
    <3>2. CASE i.querier.used # 0
      <4>1. PICK q : q = PostedBy(i.querier, i.job)
        OBVIOUS
      <4>2. PICK j : j = Post(i.job)
        OBVIOUS
      <4>3. q \in Queriers /\ j \in Jobs
        BY <1>0, <4>1, <4>2, PostFacts DEF Ifaces
      <4>4. PICK s : s = [i EXCEPT !.querier = q]
        OBVIOUS
      <4>5. s \in Ifaces /\ s.cache = i.cache /\ s.job = i.job
        BY <1>0, <4>3, <4>4, Replaced
      <4>6. i' = [s EXCEPT !.job = j]
        BY <1>2, <3>2, <4>1, <4>2, <4>4, <4>5 DEF QuerierElapse
      <4>7. i'.cache = i.cache /\ i'.job = j
        BY <4>3, <4>5, <4>6, Replaced
      <4> QED
        BY <4>2, <4>7, PostSt
    <3> QED
      BY <3>1, <3>2
  <2>2. burst' = Armed({Querier})
    BY <1>2 DEF QuerierElapse
  <2>3. burst'.new = burst.new /\ burst'.asked = burst.asked /\ burst'.timers = (burst.timers \cup {Querier}) \ burst.new
    BY <1>0, <2>2, ArmedFacts
  <2>4. UNCHANGED <<conf, answers, losses>>
    BY <1>2 DEF QuerierElapse
  <2>5. burst.timers \cap burst.new = {}
    BY DEF KeptInv, LinkInv
  <2> QED
    BY <1>0, <2>1, <2>3, <2>4, <2>5 DEF Quiet
<1>3. CASE \E lost \in BOOLEAN : SendQuery(lost)
  <2>1. PICK lost \in BOOLEAN : SendQuery(lost)
    BY <1>3
  <2>2. i'.cache = i.cache /\ i'.job.st = "history"
    BY <1>0, <2>1, IncomingJob DEF SendQuery
  <2>3. losses' \in Nat /\ losses' >= losses /\ (lost => losses' > losses)
    BY <1>0, <2>1 DEF SendQuery, Lost
  <2>4. answers' = IF lost THEN answers ELSE answers \cup (owned \ KnownAnswers)
    BY <2>1 DEF SendQuery
  <2>5. i.cache[r].old => r \notin KnownAnswers
    BY DEF KnownAnswers
  <2>6. UNCHANGED <<conf, burst>>
    BY <2>1 DEF SendQuery
  <2> QED
    BY <2>2, <2>3, <2>4, <2>5, <2>6 DEF Quiet
<1> QED
  BY <1>1, <1>2, <1>3

(* A lookup that starts or ends leaves the query of the others. *)
LEMMA WatchQuiet ==
    ASSUME KeptInv, CacheInv', NEW r \in owned \cap tended, NEW c \in Clients,
           Watch(c) \/ Unwatch(c), clients' # {}
    PROVE  Quiet(r)
<1>0. i \in Ifaces /\ burst \in Bursts /\ losses \in Nat /\ r \in Records /\ i.up
      /\ burst.timers \cap burst.new = {} /\ i.querier \in Queriers /\ i.job \in Jobs
  BY DEF KeptInv, LinkInv, CacheInv, IfaceOK, Ifaces
<1>1. /\ i'.cache = i.cache
      /\ i.job.st = "scheduled" => i'.job.st = "scheduled"
      /\ i'.job.st = "history" => i.job.st = "history"
  <2>1. CASE Watch(c) /\ i.querier.live
    <3>1. PICK q : q = [i.querier EXCEPT !.used = i.querier.used + 1]
      OBVIOUS
    <3>2. q \in Queriers
      BY <1>0, <3>1 DEF Queriers
    <3>3. i' = [i EXCEPT !.querier = q]
      BY <1>0, <2>1, <3>1 DEF Watch, QuerierAdd, Ifaces
    <3> QED
      BY <1>0, <3>2, <3>3, Replaced
  <2>2. CASE Watch(c) /\ ~ i.querier.live
    <3>1. PICK q : q = PostedBy([used |-> 1, live |-> TRUE, posted |-> FALSE], i.job)
      OBVIOUS
    <3>2. PICK j : j = Post(i.job)
      OBVIOUS
    <3>3. q \in Queriers /\ j \in Jobs
      <4>1. [used |-> 1, live |-> TRUE, posted |-> FALSE] \in Queriers
        BY DEF Queriers
      <4> QED
        BY <1>0, <3>1, <3>2, <4>1, PostFacts
    <3>4. PICK s : s = [i EXCEPT !.querier = q]
      OBVIOUS
    <3>5. s \in Ifaces /\ s.cache = i.cache /\ s.job = i.job
      BY <1>0, <3>3, <3>4, Replaced
    <3>6. i' = [s EXCEPT !.job = j]
      BY <1>0, <2>2, <3>1, <3>2, <3>4, <3>5 DEF Watch, QuerierAdd
    <3>7. i'.cache = i.cache /\ i'.job = j
      BY <3>3, <3>5, <3>6, Replaced
    <3> QED
      BY <3>2, <3>7, PostSt
  <2>3. CASE Unwatch(c)
    <3>1. PICK q : q = [i.querier EXCEPT !.used = i.querier.used - 1]
      OBVIOUS
    <3>2. PICK u : u = [i EXCEPT !.querier = q]
      OBVIOUS
    <3>3. u.cache = i.cache /\ u.job = i.job /\ u.querier = q /\ q.used = i.querier.used - 1
      BY <1>0, <3>1, <3>2 DEF Ifaces, Queriers
    <3>4. i.querier.used # 0 /\ q.used # 0
      <4>1. IsFiniteSet(clients) /\ Cardinality(clients) \in Nat /\ clients' = clients \ {c} /\ c \in clients
        <5>1. \A n \in 0..Cardinality(Clients) : n \in Nat
          OBVIOUS
        <5> QED
          BY <2>3, <5>1, FiniteCard DEF KeptInv, CacheInv, Unwatch
      <4>2. Cardinality(clients') = Cardinality(clients) - 1 /\ IsFiniteSet(clients')
        BY <4>1, FS_RemoveElement
      <4>3. Cardinality(clients') # 0 /\ Cardinality(clients') \in Nat
        BY <4>2, FS_EmptySet, FS_CardinalityType
      <4>4. i.querier.used = Cardinality(clients)
        BY <1>0 DEF KeptInv, CacheInv, IfaceOK, QuerierOK
      <4> QED
        BY <4>1, <4>2, <4>3, <4>4, <3>3
    <3>5. i' = u
      <4>1. u = [i EXCEPT !.querier.used = @ - 1]
        BY <1>0, <3>1, <3>2 DEF Ifaces
      <4> QED
        BY <1>0, <2>3, <3>3, <3>4, <4>1 DEF Unwatch, QuerierRemove
    <3> QED
      BY <3>3, <3>5
  <2> QED
    BY <2>1, <2>2, <2>3
<1>2. burst'.new = burst.new /\ burst'.asked = burst.asked /\ burst.timers \subseteq burst'.timers
  <2>1. burst' = burst \/ burst' = Armed({Querier})
    BY DEF Watch, Unwatch
  <2> QED
    BY <1>0, <2>1, ArmedFacts
<1>3. UNCHANGED <<conf, answers, losses>>
  BY DEF Watch, Unwatch
<1> QED
  BY <1>0, <1>1, <1>2, <1>3 DEF Quiet

(* What becomes of one entry is nothing to the others. *)
LEMMA OtherSteps ==
    ASSUME KeptInv, NEW r \in owned \cap tended, NEW s \in Records,
           \/ LoseAnswer(s)
           \/ s # r /\ (\/ Publish(s) \/ Crash(s) \/ Elapse(s) \/ HalfTtl(s)
                        \/ \E lost \in BOOLEAN : SayGoodbye(s, lost))
    PROVE  Quiet(r)
<1>0. i \in Ifaces /\ i.cache \in [Records -> Entries] /\ burst \in Bursts /\ losses \in Nat /\ r \in Records
      /\ burst.timers \cap burst.new = {} /\ i.querier \in Queriers /\ i.job \in Jobs
  BY DEF KeptInv, LinkInv, CacheInv, IfaceOK, Ifaces
<1>1. CASE LoseAnswer(s)
  BY <1>0, <1>1 DEF LoseAnswer, Lost, Quiet
<1>2. CASE Publish(s) \/ Crash(s)
  BY <1>0, <1>2 DEF Publish, Crash, Quiet
<1>3. CASE s # r /\ Elapse(s)
  <2>1. PICK x : \/ x = Enter(i.cache[s], NextState[i.cache[s].st]) /\ i' = Refresh([i EXCEPT !.cache[s] = x])
                 \/ i' = [i EXCEPT !.cache[s] = x]
    BY <1>3 DEF Elapse
  <2>2. PICK t : t = [i EXCEPT !.cache[s] = x]
    OBVIOUS
  <2>3. t.cache[r] = i.cache[r] /\ t.job = i.job
    BY <1>0, <1>3, <2>2 DEF Ifaces
  <2>4. i' = t \/ i' = Refresh(t)
    BY <2>1, <2>2
  <2>5. /\ i'.cache[r] = i.cache[r]
        /\ i.job.st = "scheduled" => i'.job.st = "scheduled"
        /\ i'.job.st = "history" => i.job.st = "history"
    <3>1. i' = t \/ i' = [t EXCEPT !.querier = NoQuerier] \/ i' = [t EXCEPT !.job = Post(@)]
      BY <2>4 DEF Refresh
    <3>2. t = [up |-> i.up, cache |-> t.cache, querier |-> i.querier, job |-> i.job]
      BY <1>0, <2>2 DEF Ifaces
    <3>3. i'.cache = t.cache /\ (i'.job = t.job \/ i'.job = Post(t.job))
      BY <3>1, <3>2
    <3> QED
      BY <2>3, <3>3, PostSt
  <2>6. burst'.new = burst.new /\ burst'.asked = burst.asked /\ burst.timers \subseteq burst'.timers
    <3>1. burst' = burst \/ burst' = Armed({s} \cup IF i.querier.used > 0 THEN {Querier} ELSE {})
      BY <1>3 DEF Elapse
    <3> QED
      BY <1>0, <3>1, ArmedFacts
  <2>7. UNCHANGED <<conf, answers, losses>>
    BY <1>3 DEF Elapse
  <2> QED
    BY <1>0, <2>5, <2>6, <2>7 DEF Quiet
<1>4. CASE s # r /\ (HalfTtl(s) \/ \E lost \in BOOLEAN : SayGoodbye(s, lost))
  <2>1. PICK x : i' = i \/ i' = [i EXCEPT !.cache[s] = x]
    <3>1. CASE HalfTtl(s)
      <4>1. i' = [i EXCEPT !.cache[s] = [i.cache[s] EXCEPT !.old = TRUE]]
        BY <1>0, <3>1 DEF HalfTtl, Ifaces
      <4> QED
        BY <4>1
    <3>2. CASE \E lost \in BOOLEAN : SayGoodbye(s, lost)
      <4>1. i' = i \/ i' = [i EXCEPT !.cache[s] = Enter(i.cache[s], "GOODBYE_FINAL")]
        BY <1>0, <3>2 DEF SayGoodbye, Ifaces
      <4> QED
        BY <4>1
    <3> QED
      BY <1>4, <3>1, <3>2
  <2>2. i'.cache[r] = i.cache[r] /\ i'.job = i.job
    BY <1>0, <1>4, <2>1 DEF Ifaces
  <2>3. burst'.new = burst.new /\ burst'.asked = burst.asked /\ burst.timers \subseteq burst'.timers
    <3>1. burst' = burst \/ burst' = Armed({s})
      BY <1>4 DEF HalfTtl, SayGoodbye
    <3> QED
      BY <1>0, <3>1, ArmedFacts
  <2>4. UNCHANGED <<conf, answers>> /\ losses' \in Nat /\ losses' >= losses
    BY <1>0, <1>4 DEF HalfTtl, SayGoodbye, Lost
  <2> QED
    BY <1>0, <2>2, <2>3, <2>4 DEF Quiet
<1> QED
  BY <1>1, <1>2, <1>3, <1>4

(* elapse_func of a record that is kept: the query it posts is merged with one that
   waits, or refused where one was just sent, whose answer is still to come.       *)
LEMMA ElapseKeeps ==
    ASSUME KeptInv, NEW r \in owned \cap tended, Elapse(r), r \in tended'
    PROVE  KeptWell(r, i.cache[r], burst, answers, i.job.st, losses)'
<1>0. i \in Ifaces /\ i.cache \in [Records -> Entries] /\ burst \in Bursts /\ losses \in Nat /\ r \in Records
      /\ burst.timers \cap burst.new = {} /\ i.querier \in Queriers /\ i.job \in Jobs
      /\ i.up /\ clients # {}
  BY DEF KeptInv, LinkInv, CacheInv, IfaceOK, Ifaces
<1> PICK e : e = i.cache[r]
  OBVIOUS
<1>1. KeptWell(r, e, burst, answers, i.job.st, losses) /\ e \in Entries
  BY <1>0 DEF KeptInv
<1>2. e.st \in DOMAIN NextState /\ r \notin burst.new /\ r \notin burst.timers
  BY DEF Elapse
<1>3. e.old
  BY <1>1, <1>2, TriesFacts DEF KeptWell, Elapse, NextState
<1> PICK st : st = NextState[e.st]
  OBVIOUS
<1>4. /\ st \in DOMAIN Tries /\ Tries[st] = Tries[e.st] + 1
      /\ st \notin {"POOF", "POOF_FINAL"} /\ e.st # "EXPIRY_FINAL"
  BY <1>2, TriesFacts DEF NextState
<1> PICK x : x = Enter(e, st)
  OBVIOUS
<1>5. x.st = st /\ x.old = e.old
  BY DEF Enter
<1>6. Tries[e.st] \in 0..4 /\ losses >= Tries[e.st]
  BY <1>1, <1>2, TriesFacts DEF KeptWell
<1>7. i'.cache[r] = x /\ (i'.job.st = "scheduled" \/ i.job.st = "history")
  <2>1. PICK t : t = [i EXCEPT !.cache[r] = x]
    OBVIOUS
  <2>2. t.cache[r] = x /\ t.job = i.job /\ t.querier = i.querier
        /\ t = [up |-> i.up, cache |-> t.cache, querier |-> i.querier, job |-> i.job]
    BY <1>0, <2>1 DEF Ifaces
  <2>3. i.querier.live /\ i.querier.used # 0
    <3>1. QuerierOK(i.up, i.querier, clients)
      BY DEF KeptInv, CacheInv, IfaceOK
    <3>2. IsFiniteSet(clients) /\ Cardinality(clients) \in Nat
      <4>1. \A n \in 0..Cardinality(Clients) : n \in Nat
        OBVIOUS
      <4> QED
        BY <4>1, FiniteCard DEF KeptInv, CacheInv
    <3>3. Cardinality(clients) # 0
      BY <1>0, <3>2, FS_EmptySet
    <3> QED
      BY <1>0, <3>1, <3>2, <3>3 DEF QuerierOK
  <2>4. i' = Refresh(t)
    BY <1>2, <2>1 DEF Elapse
  <2>5. i' = [t EXCEPT !.job = Post(@)]
    BY <2>2, <2>3, <2>4 DEF Refresh
  <2>6. i'.cache = t.cache /\ i'.job = Post(i.job)
    BY <2>2, <2>5
  <2> QED
    BY <2>2, <2>6, PostSt
<1>8. burst'.new = burst.new /\ r \in burst'.timers
  <2>1. burst' = Armed({r} \cup IF i.querier.used > 0 THEN {Querier} ELSE {})
    BY <1>2 DEF Elapse
  <2>2. burst'.new = burst.new /\ burst'.timers = (burst.timers \cup ({r} \cup IF i.querier.used > 0 THEN {Querier} ELSE {})) \ burst.new
    BY <1>0, <2>1, ArmedFacts
  <2> QED
    BY <1>2, <2>2
<1>9. UNCHANGED <<conf, answers, losses>>
  BY DEF Elapse
<1>10. i.job.st = "history" => losses > Tries[e.st] \/ r \in answers
  BY <1>1, <1>2, <1>3, <1>4 DEF KeptWell
<1>11. losses' >= Tries[st] \/ (losses' >= Tries[st] - 1 /\ r \in burst'.timers /\ (i'.job.st = "scheduled" \/ r \in answers'))
  BY <1>0, <1>4, <1>6, <1>7, <1>8, <1>9, <1>10
<1> QED
  BY <1>2, <1>3, <1>4, <1>5, <1>7, <1>8, <1>11 DEF KeptWell

(* avahi_cache_entry_half_ttl: from here on a query asks for the record. *)
LEMMA HalfTtlKeeps ==
    ASSUME KeptInv, NEW r \in owned \cap tended, HalfTtl(r)
    PROVE  KeptWell(r, i.cache[r], burst, answers, i.job.st, losses)'
<1>0. i \in Ifaces /\ i.cache \in [Records -> Entries] /\ burst \in Bursts /\ losses \in Nat /\ r \in Records
      /\ burst.timers \cap burst.new = {}
  BY DEF KeptInv, LinkInv, CacheInv, IfaceOK, Ifaces
<1> PICK e : e = i.cache[r]
  OBVIOUS
<1>1. KeptWell(r, e, burst, answers, i.job.st, losses) /\ e \in Entries
  BY <1>0 DEF KeptInv
<1>2. ~ e.old /\ r \notin burst.new
  BY DEF HalfTtl
<1> PICK x : x = [e EXCEPT !.old = TRUE]
  OBVIOUS
<1>3. x.st = e.st /\ x.old = TRUE /\ x.poof = e.poof
  BY <1>1 DEF Entries
<1>4. i'.cache[r] = x /\ i'.job = i.job
  <2>1. i' = [i EXCEPT !.cache = [i.cache EXCEPT ![r] = x]]
    BY <1>0 DEF HalfTtl, Ifaces
  <2> QED
    BY <1>0, <2>1 DEF Ifaces
<1>5. burst'.new = burst.new /\ r \in burst'.timers /\ burst'.asked = burst.asked
  BY <1>0, <1>2, ArmedFacts DEF HalfTtl
<1>6. UNCHANGED <<conf, answers, losses>>
  BY DEF HalfTtl
<1>7. e.st \in DOMAIN Tries /\ Tries[e.st] = 0
  BY <1>1, <1>2, TriesFacts DEF KeptWell
<1> QED
  BY <1>0, <1>1, <1>2, <1>3, <1>4, <1>5, <1>6, <1>7 DEF KeptWell

(* A second goes by: what was sent has been answered or lost. *)
LEMMA PassKeeps ==
    ASSUME KeptInv, NEW r \in owned \cap tended, Pass
    PROVE  KeptWell(r, i.cache[r], burst, answers, i.job.st, losses)'
<1>0. i \in Ifaces /\ losses \in Nat /\ r \in Records
  BY DEF KeptInv, LinkInv, CacheInv, IfaceOK
<1> PICK e : e = i.cache[r]
  OBVIOUS
<1>1. KeptWell(r, e, burst, answers, i.job.st, losses)
  BY <1>0 DEF KeptInv
<1>2. i'.cache = i.cache /\ i'.job = NoJob /\ burst' = NewBurst
  <2>1. i' = [i EXCEPT !.job = NoJob] /\ burst' = NewBurst
    BY DEF Pass
  <2> QED
    BY <1>0, <2>1, PostFacts, Replaced
<1>3. UNCHANGED <<conf, answers, losses>> /\ answers = {} /\ i.job.st # "scheduled"
  BY DEF Pass
<1>4. i'.job.st = "none"
  BY <1>2 DEF NoJob
<1>5. r \notin burst'.new
  BY <1>2, NewBurstFacts
<1> QED
  BY <1>0, <1>1, <1>2, <1>3, <1>4, <1>5 DEF KeptWell

(* avahi_cache_update: a record that comes in is there again; the records it flushes
   from a unique key are those no host has, or that have come in just before.       *)
LEMMA UpdateKeeps ==
    ASSUME KeptInv, NEW s \in Records, ReceiveAnswer(s), NEW r \in owned \cap tended'
    PROVE  KeptWell(r, i.cache[r], burst, answers, i.job.st, losses)'
<1>0. i \in Ifaces /\ i.cache \in [Records -> Entries] /\ burst \in Bursts /\ losses \in Nat /\ r \in Records
      /\ burst.timers \cap burst.new = {} /\ owned \subseteq Records
  BY DEF KeptInv, LinkInv, CacheInv, IfaceOK, Ifaces
<1> PICK flush : flush = IF conf.unique THEN Aged ELSE {}
  OBVIOUS
<1>1. flush \subseteq Records /\ flush \cap burst.new = {} /\ (flush # {} => conf.unique)
  BY DEF Aged, Cached
<1> PICK c : c = Flushed(i.cache, flush)
  OBVIOUS
<1> PICK taken \in BOOLEAN : taken <=> c[s].st # "none" \/ Cardinality(Cached(c)) < conf.limit
  OBVIOUS
<1> PICK d : d = [c EXCEPT ![s] = Enter(NoEntry, "VALID")]
  OBVIOUS
<1>2. \A q \in Records : c[q] = IF q \in flush THEN Enter(i.cache[q], "REPLACE_FINAL") ELSE i.cache[q]
  BY DEF Flushed
<1>3. d[s] = Enter(NoEntry, "VALID") /\ \A q \in Records \ {s} : d[q] = c[q]
  BY DEF Flushed
<1>4. i'.cache = (IF taken THEN d ELSE c) /\ i'.job = i.job
  <2>1. i' = [i EXCEPT !.cache = IF taken THEN d ELSE c]
    BY DEF ReceiveAnswer, Update
  <2> QED
    BY <1>0, <2>1 DEF Ifaces
<1> PICK b : b = Armed(flush)
  OBVIOUS
<1>5. b \in Bursts /\ b.new = burst.new /\ b.asked = burst.asked /\ b.timers = (burst.timers \cup flush) \ burst.new
  BY <1>0, <1>1, ArmedFacts
<1>6. burst' = IF taken THEN [b EXCEPT !.new = b.new \cup {s}, !.timers = b.timers \ {s}] ELSE b
  BY <1>5 DEF ReceiveAnswer, Update, Bursts
<1>7. /\ burst'.new = (IF taken THEN burst.new \cup {s} ELSE burst.new)
      /\ burst'.timers = (IF taken THEN b.timers \ {s} ELSE b.timers)
      /\ burst'.asked = burst.asked
  BY <1>5, <1>6 DEF Bursts
<1>8. tended' = IF taken /\ i.querier.used > 0 THEN tended \cup {s} ELSE tended \ {s}
  BY DEF ReceiveAnswer, Update
<1>9. UNCHANGED <<conf, losses>> /\ s \in answers /\ answers' = answers \ {s}
  BY DEF ReceiveAnswer
<1>10. CASE r = s
  <2>1. taken
    BY <1>8, <1>10
  <2> PICK x : x = Enter(NoEntry, "VALID")
    OBVIOUS
  <2>2. x.st = "VALID" /\ x.old = FALSE
    BY DEF Enter, NoEntry
  <2>3. i'.cache[r] = x
    BY <1>3, <1>4, <1>10, <2>1
  <2> QED
    BY <1>0, <1>9, <2>2, <2>3, TriesFacts DEF KeptWell
<1>11. CASE r # s
  <2>1. r \in tended
    BY <1>8, <1>11
  <2>2. r \notin flush
    <3>1. CASE ~ conf.unique
      BY <1>1, <3>1
    <3>2. CASE conf.unique
      <4>1. s \notin owned
        BY <1>11, <3>2 DEF KeptInv, LinkInv
      <4>2. r \in burst.new
        BY <1>9, <2>1, <3>2, <4>1 DEF KeptInv, LinkInv
      <4> QED
        BY <1>1, <4>2
    <3> QED
      BY <3>1, <3>2
  <2>3. i'.cache[r] = i.cache[r]
    BY <1>0, <1>2, <1>3, <1>4, <1>11, <2>2
  <2>4. (r \in burst.timers => r \in burst'.timers) /\ (r \in burst'.new => r \in burst.new)
    BY <1>0, <1>5, <1>7, <1>11
  <2>5. Quiet(r)
    BY <1>0, <1>4, <1>7, <1>9, <1>11, <2>3, <2>4 DEF Quiet
  <2> QED
    BY <2>1, <2>5, QuietKeeps
<1> QED
  BY <1>10, <1>11

(* handle_query_packet: only queries that found no answer count towards POOF_FINAL, and
   all but the last of them have cost a packet.                                        *)
LEMMA QueryKeeps ==
    ASSUME KeptInv, NEW r \in owned \cap tended,
           NEW h \in Hosts, NEW K \in SUBSET Records, NEW unicast \in BOOLEAN, OtherQuery(h, K, unicast)
    PROVE  KeptWell(r, i.cache[r], burst, answers, i.job.st, losses)'
<1>0. i \in Ifaces /\ i.cache \in [Records -> Entries] /\ burst \in Bursts /\ losses \in Nat /\ r \in Records
      /\ burst.timers \cap burst.new = {} /\ CacheOK(i.cache) /\ conf \in Confs
  BY DEF KeptInv, LinkInv, CacheInv, IfaceOK, Ifaces
<1> PICK e : e = i.cache[r]
  OBVIOUS
<1>1. KeptWell(r, e, burst, answers, i.job.st, losses) /\ e \in Entries /\ e.poof \in Nat /\ Observed(e)
  BY <1>0, ConfType DEF KeptInv, Entries, CacheOK
<1> PICK c : c = Poofed(h, K, unicast)
  OBVIOUS
<1> PICK x : x = c[r]
  OBVIOUS
<1>2. i'.cache = c /\ (i'.job = i.job \/ (K = {} /\ i'.job.st = "history"))
  <2>1. PICK t : t = [i EXCEPT !.cache = c]
    OBVIOUS
  <2>2. t \in Ifaces /\ t.cache = c /\ t.job = i.job
    BY <1>0, <2>1, PoofedFacts, Replaced DEF CacheOK
  <2>3. i' = IF K = {} THEN Incoming(t) ELSE t
    BY <2>1 DEF OtherQuery
  <2> QED
    BY <2>2, <2>3, IncomingJob
<1>3. conf' = conf /\ losses' \in Nat /\ losses' >= losses /\ (unicast => losses' > losses)
  BY <1>0 DEF OtherQuery, Lost
<1>4. ~ unicast => (r \notin K => r \in answers')
  BY DEF OtherQuery
<1>5. r \in answers => r \in answers'
  BY DEF OtherQuery
<1>6. K = {} => r \in answers' \/ losses' > losses
  BY <1>3, <1>4
<1>7. /\ burst'.new = burst.new /\ burst.timers \subseteq burst'.timers
      /\ (burst.asked # {} => burst'.asked # {})
      /\ (~ unicast => burst'.asked # {})
  <2>1. CASE unicast
    BY <2>1 DEF OtherQuery
  <2>2. CASE ~ unicast
    <3>1. PICK T : T = {q \in Records : c[q].st = "POOF_FINAL" /\ i.cache[q].st = "POOF"}
      OBVIOUS
    <3>2. T \in SUBSET (Records \cup {Querier})
      BY <3>1
    <3>3. PICK b : b = Armed(T)
      OBVIOUS
    <3>4. b \in Bursts /\ b.new = burst.new /\ b.asked = burst.asked /\ b.timers = (burst.timers \cup T) \ burst.new
      BY <1>0, <3>2, <3>3, ArmedFacts
    <3>5. burst' = [b EXCEPT !.asked = b.asked \cup {h}]
      BY <2>2, <3>1, <3>3, <3>4 DEF OtherQuery, Bursts
    <3>6. burst'.new = b.new /\ burst'.timers = b.timers /\ burst'.asked = b.asked \cup {h}
      BY <3>4, <3>5 DEF Bursts
    <3> QED
      BY <1>0, <3>4, <3>6
  <2> QED
    BY <2>1, <2>2
<1>8. CASE x = e
  <2>1. Quiet(r)
    BY <1>0, <1>2, <1>3, <1>5, <1>6, <1>7, <1>8 DEF Quiet
  <2> QED
    BY <2>1, QuietKeeps
<1>9. CASE x # e
  <2> PICK again \in BOOLEAN : again <=> burst.asked # {}
    OBVIOUS
  <2> PICK p : p = IF unicast THEN e ELSE StartPoof(e, h, again)
    OBVIOUS
  <2>6. x = IF r \in K THEN StopPoof(p, h) ELSE p
    <3>1. (burst.asked # {}) = again
      OBVIOUS
    <3> QED
      BY <1>0, <3>1 DEF Poofed
  <2>7. \/ x.st = "VALID" /\ x.old = e.old /\ e.st \in {"VALID", "POOF", "POOF_FINAL"}
        \/ r \notin K /\ ~ unicast /\ x.old = e.old
           /\ \/ x.st = "POOF" /\ x.poof = 0 /\ e.st = "VALID"
              \/ e.st = "POOF" /\ ~ again /\ x.poof = e.poof + 1
                 /\ (x.st = "POOF" \/ (x.st = "POOF_FINAL" /\ x.poof > conf.poof))
    <3>1. CASE p = e
      <4>1. x = Enter(e, "VALID") /\ e.st \in {"POOF", "POOF_FINAL"}
        BY <1>9, <2>6, <3>1 DEF StopPoof
      <4> QED
        BY <4>1 DEF Enter
    <3>2. CASE p # e /\ e.st = "VALID"
      <4>1. p = [st |-> "POOF", old |-> e.old, poof |-> 0, by |-> h] /\ ~ unicast
        BY <3>2 DEF StartPoof
      <4>2. CASE r \in K
        <5>1. x = Enter(p, "VALID")
          BY <2>6, <4>1, <4>2 DEF StopPoof
        <5> QED
          BY <3>2, <4>1, <5>1 DEF Enter
      <4>3. CASE r \notin K
        BY <2>6, <3>2, <4>1, <4>3
      <4> QED
        BY <4>2, <4>3
    <3>3. CASE p # e /\ e.st # "VALID"
      <4>1. e.st = "POOF" /\ ~ again /\ ~ unicast
        BY <3>3 DEF StartPoof
      <4>2. p = [st |-> IF e.poof + 1 > conf.poof THEN "POOF_FINAL" ELSE "POOF",
                 old |-> e.old, poof |-> e.poof + 1, by |-> h]
        BY <4>1 DEF StartPoof
      <4>3. /\ p.st \in {"POOF", "POOF_FINAL"} /\ (p.st = "POOF_FINAL" => p.poof > conf.poof)
            /\ p.old = e.old /\ p.poof = e.poof + 1 /\ p.by = h
        BY <4>2
      <4>4. CASE r \in K
        <5>1. x = Enter(p, "VALID")
          BY <2>6, <4>3, <4>4 DEF StopPoof
        <5> QED
          BY <4>1, <4>3, <5>1 DEF Enter
      <4>5. CASE r \notin K
        BY <2>6, <4>1, <4>3, <4>5
      <4> QED
        BY <4>4, <4>5
    <3> QED
      BY <3>1, <3>2, <3>3
  <2>1. x.st \in {"VALID", "POOF", "POOF_FINAL"} /\ x.old = e.old
    BY <2>7
  <2>2. e.st \in {"VALID", "POOF", "POOF_FINAL"}
    BY <2>7
  <2>8. e.st = "POOF" /\ ~ again => losses > e.poof
    BY <1>1 DEF KeptWell
  <2>3. x.st = "POOF" => losses' > x.poof \/ (losses' >= x.poof /\ r \in answers' /\ burst'.asked # {})
    BY <1>0, <1>1, <1>3, <1>4, <1>7, <2>7, <2>8
  <2>4. x.st = "POOF_FINAL" => losses' >= x.poof /\ x.poof > conf.poof
    BY <1>0, <1>1, <1>3, <2>7, <2>8
  <2>5. i'.job.st = "history" /\ e.old /\ r \notin burst'.timers => losses' > 0 \/ r \in answers'
    BY <1>0, <1>1, <1>2, <1>3, <1>5, <1>6, <1>7, <2>2, TriesFacts DEF KeptWell
  <2> QED
    BY <1>0, <1>1, <1>2, <1>3, <1>7, <2>1, <2>2, <2>3, <2>4, <2>5, TriesFacts DEF KeptWell
<1> QED
  BY <1>8, <1>9

Step == [CacheNext]_cacheVars

LEMMA BurstHolds ==
    ASSUME KeptInv, Step
    PROVE  burst' \in Bursts /\ burst'.timers \cap burst'.new = {} /\ losses' \in Nat
<1>0. burst \in Bursts /\ burst.timers \cap burst.new = {} /\ losses \in Nat /\ CacheInv
  BY DEF KeptInv, LinkInv
<1>1. losses' \in Nat
  <2>1. CASE losses' = losses \/ \E lost \in BOOLEAN : Lost(lost)
    BY <1>0, <2>1 DEF Lost
  <2>2. CASE HistoryEnds \/ QuerierElapse \/ LinkDown \/ LinkUp \/ Pass \/ UNCHANGED cacheVars
    BY <2>1, <2>2 DEF HistoryEnds, QuerierElapse, LinkDown, LinkUp, Pass, cacheVars
  <2>3. CASE (\E c \in Clients : Watch(c) \/ Unwatch(c)) \/ \E lost \in BOOLEAN : SendQuery(lost)
    BY <2>1, <2>3 DEF Watch, Unwatch, SendQuery
  <2>4. CASE \E r \in Records : Elapse(r) \/ HalfTtl(r) \/ ReceiveAnswer(r) \/ LoseAnswer(r)
    BY <2>1, <2>4 DEF Elapse, HalfTtl, ReceiveAnswer, LoseAnswer
  <2>5. CASE \E r \in Records : Publish(r) \/ Crash(r) \/ \E lost \in BOOLEAN : SayGoodbye(r, lost)
    BY <2>1, <2>5 DEF Publish, Crash, SayGoodbye
  <2>6. CASE \E h \in Hosts, K \in SUBSET Records, unicast \in BOOLEAN : OtherQuery(h, K, unicast)
    BY <2>1, <2>6 DEF OtherQuery
  <2> QED
    BY <2>2, <2>3, <2>4, <2>5, <2>6 DEF Step, CacheNext
<1>2. ASSUME NEW T \in SUBSET (Records \cup {Querier})
      PROVE  Armed(T) \in Bursts /\ Armed(T).timers \cap Armed(T).new = {}
  <2>1. PICK b : b = Armed(T)
    OBVIOUS
  <2>2. b \in Bursts /\ b.new = burst.new /\ b.timers = (burst.timers \cup T) \ burst.new
    BY <1>0, <2>1, ArmedFacts
  <2> QED
    BY <2>1, <2>2
<1>3. CASE burst' = burst \/ burst' = NewBurst \/ \E T \in SUBSET (Records \cup {Querier}) : burst' = Armed(T)
  BY <1>0, <1>1, <1>2, <1>3, NewBurstFacts
<1>4. CASE \E s \in Records : ReceiveAnswer(s)
  <2> PICK s \in Records : ReceiveAnswer(s)
    BY <1>4
  <2> PICK flush : flush = IF conf.unique THEN Aged ELSE {}
    OBVIOUS
  <2>1. flush \in SUBSET (Records \cup {Querier})
    BY DEF Aged, Cached
  <2> PICK b : b = Armed(flush)
    OBVIOUS
  <2>2. b \in Bursts /\ b.timers \cap b.new = {}
    BY <1>2, <2>1
  <2>3. burst' = b \/ burst' = [b EXCEPT !.new = b.new \cup {s}, !.timers = b.timers \ {s}]
    BY <2>2 DEF ReceiveAnswer, Update, Bursts
  <2> PICK d : d = [b EXCEPT !.new = b.new \cup {s}, !.timers = b.timers \ {s}]
    OBVIOUS
  <2>n. b.new \cup {s} \subseteq Records /\ b.timers \ {s} \subseteq Records \cup {Querier}
    BY <2>2 DEF Bursts
  <2>4. d.new = b.new \cup {s} /\ d.timers = b.timers \ {s} /\ d \in Bursts
    BY <2>2, <2>n DEF Bursts
  <2>5. d.timers \cap d.new = {}
    BY <2>2, <2>4
  <2> QED
    BY <1>1, <2>2, <2>3, <2>4, <2>5
<1>5. CASE \E h \in Hosts, K \in SUBSET Records, unicast \in BOOLEAN : OtherQuery(h, K, unicast)
  <2> PICK h \in Hosts, K \in SUBSET Records, unicast \in BOOLEAN : OtherQuery(h, K, unicast)
    BY <1>5
  <2> PICK T : T = {q \in Records : Poofed(h, K, unicast)[q].st = "POOF_FINAL" /\ i.cache[q].st = "POOF"}
    OBVIOUS
  <2> PICK b : b = Armed(T)
    OBVIOUS
  <2>1. b \in Bursts /\ b.timers \cap b.new = {}
    BY <1>2
  <2>2. burst' = burst \/ burst' = [b EXCEPT !.asked = b.asked \cup {h}]
    BY <2>1 DEF OtherQuery, Bursts
  <2> QED
    BY <1>0, <1>1, <2>1, <2>2 DEF Bursts
<1>6. CASE HistoryEnds \/ QuerierElapse \/ LinkDown \/ LinkUp \/ Pass
  BY <1>3, <1>6 DEF HistoryEnds, QuerierElapse, LinkDown, LinkUp, Pass
<1>7. CASE (\E c \in Clients : Watch(c) \/ Unwatch(c)) \/ (\E lost \in BOOLEAN : SendQuery(lost)) \/ UNCHANGED cacheVars
  BY <1>3, <1>7 DEF Watch, Unwatch, SendQuery, cacheVars
<1>8. CASE \E r \in Records : Elapse(r) \/ HalfTtl(r)
  <2> PICK r \in Records : Elapse(r) \/ HalfTtl(r)
    BY <1>8
  <2>1. burst' = burst \/ burst' = Armed({r}) \/ burst' = Armed({r} \cup IF i.querier.used > 0 THEN {Querier} ELSE {})
    BY DEF Elapse, HalfTtl
  <2>2. {r} \in SUBSET (Records \cup {Querier})
        /\ ({r} \cup IF i.querier.used > 0 THEN {Querier} ELSE {}) \in SUBSET (Records \cup {Querier})
    OBVIOUS
  <2> QED
    BY <1>3, <2>1, <2>2
<1>9. CASE \E r \in Records : LoseAnswer(r) \/ Publish(r) \/ Crash(r) \/ \E lost \in BOOLEAN : SayGoodbye(r, lost)
  BY <1>3, <1>9 DEF LoseAnswer, Publish, Crash, SayGoodbye
<1> QED
  BY <1>4, <1>5, <1>6, <1>7, <1>8, <1>9 DEF Step, CacheNext

(* Queries and timers take no interface down. *)
LEMMA UpStays ==
    ASSUME NEW t \in Ifaces
    PROVE  /\ QuerierAdd(t).up = t.up /\ QuerierRemove(t).up = t.up /\ Incoming(t).up = t.up
           /\ QuerierRemove(t).cache = t.cache
           /\ [t EXCEPT !.querier = NoQuerier].up = t.up
           /\ [t EXCEPT !.job = NoJob].up = t.up
           /\ [[t EXCEPT !.querier = PostedBy(@, t.job)] EXCEPT !.job = Post(@)].up = t.up
<1> PICK u, k, q, j : t = [up |-> u, cache |-> k, querier |-> q, job |-> j] /\ u = t.up
  BY DEF Ifaces
<1>1. QuerierAdd(t).up = t.up
  BY DEF QuerierAdd
<1>2. QuerierRemove(t).up = t.up /\ QuerierRemove(t).cache = t.cache
  <2>1. ASSUME NEW v, v.up = u, v.cache = k, {"up", "cache"} \subseteq DOMAIN v
        PROVE  Withdraw(v).up = u /\ Withdraw(v).cache = k
    BY <2>1 DEF Withdraw
  <2> QED
    BY <2>1 DEF QuerierRemove
<1>3. Incoming(t).up = t.up
  BY DEF Incoming
<1> QED
  BY <1>1, <1>2, <1>3

(* Only what somebody browses on an interface that is up is looked after. *)
LEMMA TendedHolds ==
    ASSUME KeptInv, Step
    PROVE  tended' # {} => i'.up /\ clients' # {}
<1>0. /\ tended # {} => i.up /\ clients # {}
      /\ i \in Ifaces /\ QuerierOK(i.up, i.querier, clients)
  BY DEF KeptInv, LinkInv, CacheInv, IfaceOK
<1>1. CASE LinkDown
  BY <1>1 DEF LinkDown
<1>2. CASE LinkUp
  BY <1>0, <1>2 DEF LinkUp
<1>3. CASE \E c \in Clients : Watch(c) \/ Unwatch(c)
  <2> PICK c \in Clients : Watch(c) \/ Unwatch(c)
    BY <1>3
  <2>1. tended' # {} => tended # {}
    BY DEF Watch, Unwatch
  <2>2. i.up => i'.up
    BY <1>0, UpStays DEF Watch, Unwatch
  <2>3. tended' # {} => clients' # {}
    BY <1>0 DEF Watch, Unwatch
  <2> QED
    BY <1>0, <2>1, <2>2, <2>3
<1>4. CASE \E s \in Records : ReceiveAnswer(s)
  <2> PICK s \in Records : ReceiveAnswer(s)
    BY <1>4
  <2>1. i'.up = i.up /\ clients' = clients
    BY <1>0 DEF ReceiveAnswer, Update, Ifaces
  <2>2. tended' # {} => tended # {} \/ i.querier.used > 0
    BY DEF ReceiveAnswer, Update
  <2>3. i.querier.used > 0 => i.up /\ clients # {}
    BY <1>0, FS_EmptySet DEF QuerierOK
  <2> QED
    BY <1>0, <2>1, <2>2, <2>3
<1>5. CASE UNCHANGED cacheVars \/ \E h \in Hosts, K \in SUBSET Records, unicast \in BOOLEAN : OtherQuery(h, K, unicast)
  <2>1. clients' = clients /\ tended' = tended
    BY <1>5 DEF OtherQuery, cacheVars
  <2>2. i'.up = i.up
    <3>1. CASE UNCHANGED cacheVars
      BY <3>1 DEF cacheVars
    <3>2. CASE \E h \in Hosts, K \in SUBSET Records, unicast \in BOOLEAN : OtherQuery(h, K, unicast)
      <4> PICK h \in Hosts, K \in SUBSET Records, unicast \in BOOLEAN : OtherQuery(h, K, unicast)
        BY <3>2
      <4>1. PICK t : t = [i EXCEPT !.cache = Poofed(h, K, unicast)]
        OBVIOUS
      <4>2. t \in Ifaces /\ t.up = i.up
        BY <1>0, <4>1, PoofedFacts, Replaced DEF CacheOK, KeptInv, CacheInv, IfaceOK
      <4>3. i' = Incoming(t) \/ i' = t
        BY <4>1 DEF OtherQuery
      <4> QED
        BY <4>2, <4>3, UpStays
    <3> QED
      BY <1>5, <3>1, <3>2
  <2> QED
    BY <1>0, <2>1, <2>2
<1>6. CASE HistoryEnds \/ QuerierElapse \/ Pass \/ \E lost \in BOOLEAN : SendQuery(lost)
  <2>1. clients' = clients /\ tended' = tended
    BY <1>6 DEF HistoryEnds, QuerierElapse, Pass, SendQuery
  <2>2. i'.up = i.up
    BY <1>0, <1>6, UpStays DEF HistoryEnds, QuerierElapse, Pass, SendQuery
  <2> QED
    BY <1>0, <2>1, <2>2
<1>7. CASE \E r \in Records : \/ Elapse(r) \/ HalfTtl(r) \/ LoseAnswer(r) \/ Publish(r) \/ Crash(r)
                              \/ \E lost \in BOOLEAN : SayGoodbye(r, lost)
  <2> PICK r \in Records : \/ Elapse(r) \/ HalfTtl(r) \/ LoseAnswer(r) \/ Publish(r) \/ Crash(r)
                           \/ \E lost \in BOOLEAN : SayGoodbye(r, lost)
    BY <1>7
  <2>1. clients' = clients /\ tended' \subseteq tended
    BY DEF Elapse, HalfTtl, LoseAnswer, Publish, Crash, SayGoodbye
  <2>2. i'.up = i.up
    <3>1. CASE Elapse(r)
      <4>1. PICK x : i' = [i EXCEPT !.cache[r] = x] \/ i' = Refresh([i EXCEPT !.cache[r] = x])
        BY <3>1 DEF Elapse
      <4>2. PICK t : t = [i EXCEPT !.cache[r] = x]
        OBVIOUS
      <4>3. t.up = i.up /\ t = [up |-> i.up, cache |-> t.cache, querier |-> i.querier, job |-> i.job]
        BY <1>0, <4>2 DEF Ifaces
      <4>4. i' = t \/ i' = t \/ i' = [t EXCEPT !.querier = NoQuerier] \/ i' = [t EXCEPT !.job = Post(@)]
        BY <4>1, <4>2 DEF Refresh
      <4> QED
        BY <4>3, <4>4
    <3>2. CASE ~ Elapse(r)
      BY <1>0, <3>2 DEF HalfTtl, LoseAnswer, Publish, Crash, SayGoodbye, Ifaces
    <3> QED
      BY <3>1, <3>2
  <2> QED
    BY <1>0, <2>1, <2>2
<1> QED
  BY <1>1, <1>2, <1>3, <1>4, <1>5, <1>6, <1>7 DEF Step, CacheNext

(* The one record of a unique key is announced before another is, and what is left of
   the last owner's answers comes in after it was cached in the same burst at most.   *)
LEMMA SoleHolds ==
    ASSUME KeptInv, Step
    PROVE  /\ conf'.unique => \A r, s \in owned' : r = s
           /\ conf'.unique => \A r \in answers' \ owned', s \in owned' \cap tended' : s \in burst'.new
<1>0. /\ burst \in Bursts
      /\ conf.unique => \A r, s \in owned : r = s
      /\ conf.unique => \A r \in answers \ owned, s \in owned \cap tended : s \in burst.new
  BY DEF KeptInv, LinkInv
<1>1. ASSUME conf' = conf, owned' = owned, tended' \subseteq tended, answers' \subseteq answers \cup owned,
             burst'.new = burst.new
      PROVE  /\ conf'.unique => \A r, s \in owned' : r = s
             /\ conf'.unique => \A r \in answers' \ owned', s \in owned' \cap tended' : s \in burst'.new
  BY <1>0, <1>1
<1>2. ASSUME NEW T \in SUBSET (Records \cup {Querier})
      PROVE  Armed(T).new = burst.new
  BY <1>0, ArmedFacts
<1>3. CASE HistoryEnds \/ QuerierElapse \/ LinkUp \/ \E lost \in BOOLEAN : SendQuery(lost)
  BY <1>1, <1>2, <1>3 DEF HistoryEnds, QuerierElapse, LinkUp, SendQuery
<1>4. CASE UNCHANGED cacheVars \/ \E c \in Clients : Watch(c) \/ Unwatch(c)
  BY <1>1, <1>2, <1>4 DEF Watch, Unwatch, cacheVars
<1>5. CASE \E r \in Records : Elapse(r) \/ HalfTtl(r) \/ LoseAnswer(r)
  <2> PICK r \in Records : Elapse(r) \/ HalfTtl(r) \/ LoseAnswer(r)
    BY <1>5
  <2>1. burst' = burst \/ burst' = Armed({r}) \/ burst' = Armed({r} \cup IF i.querier.used > 0 THEN {Querier} ELSE {})
    BY DEF Elapse, HalfTtl, LoseAnswer
  <2>2. {r} \in SUBSET (Records \cup {Querier})
        /\ ({r} \cup IF i.querier.used > 0 THEN {Querier} ELSE {}) \in SUBSET (Records \cup {Querier})
    OBVIOUS
  <2>3. burst'.new = burst.new
    BY <1>2, <2>1, <2>2
  <2> QED
    BY <1>1, <2>3 DEF Elapse, HalfTtl, LoseAnswer
<1>6. CASE \E h \in Hosts, K \in SUBSET Records, unicast \in BOOLEAN : OtherQuery(h, K, unicast)
  <2> PICK h \in Hosts, K \in SUBSET Records, unicast \in BOOLEAN : OtherQuery(h, K, unicast)
    BY <1>6
  <2> PICK T : T = {q \in Records : Poofed(h, K, unicast)[q].st = "POOF_FINAL" /\ i.cache[q].st = "POOF"}
    OBVIOUS
  <2> PICK b : b = Armed(T)
    OBVIOUS
  <2>1. b \in Bursts /\ b.new = burst.new
    BY <1>0, ArmedFacts
  <2>2. burst' = burst \/ burst' = [b EXCEPT !.asked = b.asked \cup {h}]
    BY <2>1 DEF OtherQuery, Bursts
  <2>3. burst'.new = burst.new
    BY <2>1, <2>2 DEF Bursts
  <2> QED
    BY <1>1, <2>3 DEF OtherQuery
<1>7. CASE LinkDown \/ Pass
  BY <1>0, <1>7 DEF LinkDown, Pass
<1>8. CASE \E r \in Records : Publish(r) \/ Crash(r) \/ \E lost \in BOOLEAN : SayGoodbye(r, lost)
  <2> PICK r \in Records : Publish(r) \/ Crash(r) \/ \E lost \in BOOLEAN : SayGoodbye(r, lost)
    BY <1>8
  <2>1. CASE Publish(r)
    <3>1. conf' = conf /\ owned' = owned \cup {r} /\ r \notin tended' /\ (conf.unique => owned = {})
      BY <2>1 DEF Publish
    <3> QED
      BY <3>1
  <2>2. CASE Crash(r) \/ \E lost \in BOOLEAN : SayGoodbye(r, lost)
    <3>1. conf' = conf /\ r \in owned /\ owned' = owned \ {r}
      BY <2>2 DEF Crash, SayGoodbye
    <3>2. conf.unique => owned' = {}
      BY <1>0, <3>1
    <3> QED
      BY <3>1, <3>2
  <2> QED
    BY <2>1, <2>2
<1>9. CASE \E s \in Records : ReceiveAnswer(s)
  <2> PICK s \in Records : ReceiveAnswer(s)
    BY <1>9
  <2> PICK flush : flush = IF conf.unique THEN Aged ELSE {}
    OBVIOUS
  <2>1. flush \in SUBSET (Records \cup {Querier})
    BY DEF Aged, Cached
  <2> PICK b : b = Armed(flush)
    OBVIOUS
  <2>2. b \in Bursts /\ b.new = burst.new
    BY <1>0, <2>1, ArmedFacts
  <2> PICK taken \in BOOLEAN :
             taken <=> Flushed(i.cache, flush)[s].st # "none" \/ Cardinality(Cached(Flushed(i.cache, flush))) < conf.limit
    OBVIOUS
  <2>3. burst' = IF taken THEN [b EXCEPT !.new = b.new \cup {s}, !.timers = b.timers \ {s}] ELSE b
    BY <2>2 DEF ReceiveAnswer, Update, Bursts
  <2>4. burst'.new = IF taken THEN burst.new \cup {s} ELSE burst.new
    BY <2>2, <2>3 DEF Bursts
  <2>5. tended' = IF taken /\ i.querier.used > 0 THEN tended \cup {s} ELSE tended \ {s}
    BY DEF ReceiveAnswer, Update
  <2>6. conf' = conf /\ owned' = owned /\ answers' \subseteq answers
    BY DEF ReceiveAnswer
  <2> QED
    BY <1>0, <2>4, <2>5, <2>6
<1> QED
  BY <1>3, <1>4, <1>5, <1>6, <1>7, <1>8, <1>9 DEF Step, CacheNext

LEMMA KeptStep == KeptInv /\ [CacheNext]_cacheVars => KeptInv'
<1> SUFFICES ASSUME KeptInv, [CacheNext]_cacheVars PROVE KeptInv'
  OBVIOUS
<1>0. CacheInv' /\ Step
  BY CacheStep DEF KeptInv, Step
<1>1. LinkInv'
  <2>1. burst' \in Bursts' /\ burst'.timers \cap burst'.new = {} /\ losses' \in Nat
    BY <1>0, BurstHolds DEF Bursts
  <2>2. tended' # {} => i'.up /\ clients' # {}
    BY <1>0, TendedHolds
  <2> QED
    BY <1>0, <2>1, <2>2, SoleHolds DEF LinkInv
<1>2. ASSUME NEW r \in owned' \cap tended'
      PROVE  KeptWell(r, i.cache[r], burst, answers, i.job.st, losses)'
  <2>0. r \in Records
    BY <1>0 DEF CacheInv
  <2>1. CASE HistoryEnds \/ QuerierElapse \/ \E lost \in BOOLEAN : SendQuery(lost)
    <3>1. r \in owned \cap tended
      BY <2>1 DEF HistoryEnds, QuerierElapse, SendQuery
    <3> QED
      BY <2>1, <3>1, JobSteps, QuietKeeps
  <2>2. CASE \E c \in Clients : Watch(c) \/ Unwatch(c)
    <3>1. r \in owned \cap tended
      BY <2>2 DEF Watch, Unwatch
    <3>2. clients' # {}
      BY <1>1 DEF LinkInv
    <3> QED
      BY <1>0, <2>2, <3>1, <3>2, WatchQuiet, QuietKeeps
  <2>3. CASE \E s \in Records : ReceiveAnswer(s)
    <3>1. r \in owned \cap tended'
      BY <2>3 DEF ReceiveAnswer
    <3> QED
      BY <2>3, <3>1, UpdateKeeps
  <2>4. CASE LinkDown \/ LinkUp
    <3>1. tended' = {}
      BY <2>4 DEF LinkDown, LinkUp, KeptInv, LinkInv
    <3> QED
      BY <3>1
  <2>5. CASE Pass
    BY <2>5, PassKeeps DEF Pass
  <2>6. CASE \E s \in Records : LoseAnswer(s) \/ Publish(s) \/ Crash(s) \/ \E lost \in BOOLEAN : SayGoodbye(s, lost)
    <3> PICK s \in Records : LoseAnswer(s) \/ Publish(s) \/ Crash(s) \/ \E lost \in BOOLEAN : SayGoodbye(s, lost)
      BY <2>6
    <3>1. r \in owned \cap tended /\ (LoseAnswer(s) \/ s # r)
      BY DEF LoseAnswer, Publish, Crash, SayGoodbye
    <3>2. Quiet(r)
      BY <3>1, OtherSteps
    <3> QED
      BY <3>1, <3>2, QuietKeeps
  <2>7. CASE \E s \in Records : Elapse(s) \/ HalfTtl(s)
    <3> PICK s \in Records : Elapse(s) \/ HalfTtl(s)
      BY <2>7
    <3>1. r \in owned \cap tended
      BY DEF Elapse, HalfTtl
    <3>2. CASE s # r
      BY <3>1, <3>2, OtherSteps, QuietKeeps
    <3>3. CASE s = r
      BY <3>1, <3>3, ElapseKeeps, HalfTtlKeeps
    <3> QED
      BY <3>2, <3>3
  <2>8. CASE \E h \in Hosts, K \in SUBSET Records, unicast \in BOOLEAN : OtherQuery(h, K, unicast)
    <3>1. r \in owned \cap tended
      BY <2>8 DEF OtherQuery
    <3> QED
      BY <2>8, <3>1, QueryKeeps
  <2>9. CASE UNCHANGED cacheVars
    <3>1. r \in owned \cap tended
      BY <2>9 DEF cacheVars
    <3>2. Quiet(r)
      BY <2>9 DEF Quiet, cacheVars, KeptInv, LinkInv
    <3> QED
      BY <3>1, <3>2, QuietKeeps
  <2> QED
    BY <2>1, <2>2, <2>3, <2>4, <2>5, <2>6, <2>7, <2>8, <2>9 DEF CacheNext
<1> QED
  BY <1>0, <1>1, <1>2 DEF KeptInv

LEMMA KeptInit == CacheInit => KeptInv
<1> SUFFICES ASSUME CacheInit PROVE KeptInv
  OBVIOUS
<1>1. CacheInv
  BY InitHolds
<1>2. burst \in Bursts /\ burst.timers = {} /\ losses = 0 /\ tended = {} /\ owned = {}
  BY NewBurstFacts DEF CacheInit
<1> QED
  BY <1>1, <1>2 DEF KeptInv, LinkInv

(* Steps in which a record that is looked after leaves the cache. *)
LEMMA RemovedLate ==
    ASSUME KeptInv, conf.poof >= 3, [CacheNext]_cacheVars, NEW r \in owned \cap tended,
           i'.cache[r].st = "none"
    PROVE  losses >= 4 \/ ~ i'.up
<1>0. losses \in Nat /\ r \in Records /\ i \in Ifaces /\ i.cache \in [Records -> Entries] /\ conf \in Confs
  BY DEF KeptInv, LinkInv, CacheInv, IfaceOK, CacheOK
<1> PICK e : e = i.cache[r]
  OBVIOUS
<1>1. KeptWell(r, e, burst, answers, i.job.st, losses) /\ e.poof \in Nat
  BY <1>0, ConfType DEF KeptInv, Entries
<1>2. e.st # "none"
  BY <1>1, TriesFacts DEF KeptWell
<1>3. KeptInv'
  BY KeptStep
<1>4. r \notin owned' \cap tended'
  <2>1. ASSUME r \in owned' \cap tended'
        PROVE  i'.cache[r].st \in DOMAIN Tries
    BY <1>3, <2>1 DEF KeptInv, KeptWell
  <2> QED
    BY <2>1, TriesFacts
<1>5. CASE LinkDown
  BY <1>5 DEF LinkDown
<1>6. CASE Elapse(r)
  <2>1. e.st \notin DOMAIN NextState
    BY <1>4, <1>6 DEF Elapse
  <2>2. r \notin burst.timers
    BY <1>6 DEF Elapse
  <2>3. e.st \in {"POOF_FINAL", "EXPIRY_FINAL"}
    BY <1>1, <2>1, TriesFacts DEF KeptWell, NextState
  <2>4. CASE e.st = "EXPIRY_FINAL"
    BY <1>1, <2>2, <2>4, TriesFacts DEF KeptWell
  <2>5. CASE e.st = "POOF_FINAL"
    <3>1. losses >= e.poof /\ e.poof > conf.poof /\ conf.poof \in Nat
      BY <1>0, <1>1, <2>5, ConfType DEF KeptWell
    <3> QED
      BY <1>0, <1>1, <3>1
  <2> QED
    BY <2>3, <2>4, <2>5
<1>7. CASE ~ LinkDown /\ ~ Elapse(r)
  <2>1. i'.cache[r] # e
    BY <1>2
  <2>2. ~ (owned' = owned /\ tended' = tended)
    BY <1>4
  <2>3. CASE \E c \in Clients : Watch(c) \/ Unwatch(c)
    <3>1. \E c \in Clients : Unwatch(c)
      BY <2>2, <2>3 DEF Watch
    <3>2. i' = i \/ i' = QuerierRemove(i)
      BY <3>1 DEF Unwatch
    <3>3. i'.cache = i.cache
      BY <1>0, <3>2, UpStays
    <3> QED
      BY <2>1, <3>3
  <2>4. CASE \E s \in Records : Publish(s) \/ Crash(s) \/ LoseAnswer(s)
    BY <2>1, <2>4 DEF Publish, Crash, LoseAnswer
  <2>5. CASE \E s \in Records : Elapse(s) \/ HalfTtl(s)
    <3> PICK s \in Records : Elapse(s) \/ HalfTtl(s)
      BY <2>5
    <3>1. s # r
      BY <1>7, <2>2 DEF HalfTtl
    <3>2. Quiet(r)
      BY <3>1, OtherSteps
    <3> QED
      BY <2>1, <3>2 DEF Quiet
  <2>6. CASE \E s \in Records : \E lost \in BOOLEAN : SayGoodbye(s, lost)
    <3> PICK s \in Records, lost \in BOOLEAN : SayGoodbye(s, lost)
      BY <2>6
    <3>1. CASE s # r
      <4>1. Quiet(r)
        BY <3>1, OtherSteps
      <4> QED
        BY <2>1, <4>1 DEF Quiet
    <3>2. CASE s = r
      <4>1. i' = [i EXCEPT !.cache = [i.cache EXCEPT ![r] = Enter(e, "GOODBYE_FINAL")]]
        BY <1>0, <2>1, <3>2 DEF SayGoodbye, Ifaces
      <4>2. i'.cache[r].st = "GOODBYE_FINAL"
        BY <1>0, <4>1 DEF Ifaces, Enter
      <4> QED
        BY <4>2
    <3> QED
      BY <3>1, <3>2
  <2>7. CASE \E s \in Records : ReceiveAnswer(s)
    <3> PICK s \in Records : ReceiveAnswer(s)
      BY <2>7
    <3> PICK c : c = Flushed(i.cache, IF conf.unique THEN Aged ELSE {})
      OBVIOUS
    <3>1. c[r] = e \/ c[r] = Enter(e, "REPLACE_FINAL")
      BY <1>0 DEF Flushed
    <3>2. c \in [Records -> {c[q] : q \in Records}]
      BY DEF Flushed
    <3>3. i'.cache = c \/ i'.cache = [c EXCEPT ![s] = Enter(NoEntry, "VALID")]
      BY <1>0 DEF ReceiveAnswer, Update, Ifaces
    <3>4. i'.cache[r] \in {c[r], Enter(NoEntry, "VALID")}
      BY <1>0, <3>2, <3>3
    <3> QED
      BY <1>2, <3>1, <3>4 DEF Enter
  <2>8. CASE \/ HistoryEnds \/ QuerierElapse \/ LinkUp \/ Pass \/ UNCHANGED cacheVars
             \/ \E lost \in BOOLEAN : SendQuery(lost)
             \/ \E h \in Hosts, K \in SUBSET Records, unicast \in BOOLEAN : OtherQuery(h, K, unicast)
    BY <2>2, <2>8 DEF HistoryEnds, QuerierElapse, LinkUp, Pass, SendQuery, OtherQuery, cacheVars
  <2> QED
    BY <1>7, <2>3, <2>4, <2>5, <2>6, <2>7, <2>8 DEF CacheNext
<1> QED
  BY <1>5, <1>6, <1>7

(* KeptAlive is about elapse_func, avahi_querier_shall_refresh_cache and
   avahi_query_scheduler_post: the cache asks four times for a record before it gives
   it up, and a query that is refused because one was just sent is as good as one
   that is sent. So as long as as many are not lost, no record that is there and that
   somebody browses leaves the cache, however many lookups, other hosts that ask and
   other records of the key there are, and whichever come and go. The code's
   threshold of passive observation is 3; with a lower one it would be earlier.      *)
THEOREM KeptAliveCorrect ==
    ASSUME \A k \in Confs : k.poof >= 3
    PROVE  CacheSpec => KeptAlive
<1>1. CacheInit => KeptInv
  BY KeptInit
<1>2. KeptInv /\ [CacheNext]_cacheVars => KeptInv'
  BY KeptStep
<1>3. KeptInv /\ [CacheNext]_cacheVars =>
         [\A r \in owned \cap tended : i'.cache[r].st = "none" => losses >= 4 \/ ~i'.up]_cacheVars
  <2> SUFFICES ASSUME KeptInv, [CacheNext]_cacheVars, NEW r \in owned \cap tended, i'.cache[r].st = "none"
               PROVE  losses >= 4 \/ ~i'.up
    OBVIOUS
  <2>1. conf.poof >= 3
    BY DEF KeptInv, CacheInv
  <2> QED
    BY <2>1, RemovedLate
<1> QED
  BY <1>1, <1>2, <1>3, PTL DEF CacheSpec, KeptAlive
=============================================================================
