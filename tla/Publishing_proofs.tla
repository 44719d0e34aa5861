--------------------------- MODULE Publishing_proofs ---------------------------
(***************************************************************************)
(* Proofs about Publishing: for any hosts, records and interfaces, and     *)
(* whatever packets come, are lost and dispute our records while           *)
(* interfaces come and go, the probing counter of a group counts what is   *)
(* probed for, and nothing is announced before all of it has been; and on  *)
(* one link, or links that stay, no two hosts have registered one name     *)
(* while no packet is lost (OneOwner, under ProtocolAssumption).           *)
(***************************************************************************)
EXTENDS Publishing, FiniteSetTheorems, TLAPS

AnnStates == {"none", "PROBING", "WAITING", "ANNOUNCING", "ESTABLISHED"}
Announcers(h) == [Pairs(h) -> [st : AnnStates, n : Nat, due : {0, 1}]]
Announced(A, p) == A[p].st \in {"ANNOUNCING", "ESTABLISHED"}

(***************************************************************************)
(* The group of a host: g its state, n its counter, A its announcers, f    *)
(* how often an interface has gone away. The counter is never below what   *)
(* is probed for, and above it only by what interfaces that went away were *)
(* probing for (LinkDown leaves the counter as it is).                     *)
(***************************************************************************)
Counted(h, n, A, f) ==
    n \in Nat /\ Count(A) <= n /\ n <= Count(A) + f * Cardinality(Pairs(h))

GroupOK(h, g, n, A, f) ==
    /\ g \in {"none", "REGISTERING", "ESTABLISHED"}
    /\ A \in Announcers(h)
    /\ Counted(h, n, A, f)
    /\ g = "none" => A = NoAnnouncers(h)
    /\ g = "REGISTERING" => \A p \in Pairs(h) : ~Announced(A, p)

ClientOK ==
    /\ ready \in [Hosts -> BOOLEAN] /\ waiting \in [Hosts -> BOOLEAN]
    /\ wanted \in [Hosts -> BOOLEAN]
    /\ \A h \in Hosts : ~ready[h] => group[h] = "none"

LinkOK ==
    /\ up \in [Hosts -> [Links -> BOOLEAN]] /\ flaps \in 0..MaxFlaps
    /\ probes = [h \in Hosts |-> probes[h]] /\ \A h \in Hosts : probes[h] \subseteq Pairs(h)

GroupsOK ==
    /\ group = [h \in Hosts |-> group[h]] /\ n_probing = [h \in Hosts |-> n_probing[h]]
    /\ ann = [h \in Hosts |-> ann[h]]
    /\ \A h \in Hosts : GroupOK(h, group[h], n_probing[h], ann[h], flaps)

PubInv == ClientOK /\ LinkOK /\ GroupsOK

\* Packets and responses are for interfaces that there are.
NetOK ==
    /\ \A m \in net : m.link \in Links
    /\ sched = [h \in Hosts |-> sched[h]]
    /\ \A h \in Hosts : \A j \in sched[h] : j.link \in Links

IInv == PubInv /\ NetOK

(***************************************************************************)
(* Counting                                                                *)
(***************************************************************************)
ProbingIn(A) == {p \in DOMAIN A : A[p].st = "PROBING"}

LEMMA PairsFinite ==
    ASSUME NEW h \in Hosts
    PROVE  IsFiniteSet(Pairs(h)) /\ Cardinality(Pairs(h)) \in Nat
<1>1. IsFiniteSet(Offer[h]) /\ IsFiniteSet(Links)
  BY CountAssumption
<1>2. IsFiniteSet(Offer[h] \X Links)
  BY <1>1, FS_Product
<1> QED
  BY <1>2, FS_CardinalityType DEF Pairs

\* There are at most as many announcers that probe as there are announcers.
LEMMA CountBound ==
    ASSUME NEW h \in Hosts, NEW A \in Announcers(h)
    PROVE  /\ IsFiniteSet(ProbingIn(A)) /\ Count(A) = Cardinality(ProbingIn(A))
           /\ Count(A) \in Nat /\ Count(A) <= Cardinality(Pairs(h))
<1>1. ProbingIn(A) \in SUBSET Pairs(h)
  BY DEF ProbingIn, Announcers
<1>2. IsFiniteSet(ProbingIn(A)) /\ Cardinality(ProbingIn(A)) <= Cardinality(Pairs(h))
  BY <1>1, PairsFinite, FS_Subset
<1> QED
  BY <1>2, FS_CardinalityType DEF Count, ProbingIn

\* Fewer announcers that probe count for less.
LEMMA CountMonotone ==
    ASSUME NEW h \in Hosts, NEW A \in Announcers(h), NEW B \in Announcers(h),
           ProbingIn(A) \subseteq ProbingIn(B)
    PROVE  Count(A) <= Count(B)
  BY CountBound, FS_Subset

LEMMA CountSame ==
    ASSUME NEW h \in Hosts, NEW A \in Announcers(h), NEW B \in Announcers(h),
           ProbingIn(A) = ProbingIn(B)
    PROVE  Count(A) = Count(B)
  BY CountBound

\* One that has been probed for counts no more.
LEMMA CountOneLess ==
    ASSUME NEW h \in Hosts, NEW A \in Announcers(h), NEW B \in Announcers(h),
           NEW p \in ProbingIn(A), ProbingIn(B) = ProbingIn(A) \ {p}
    PROVE  Count(A) >= 1 /\ Count(B) = Count(A) - 1
  BY CountBound, FS_RemoveElement

\* The bound grows with the times an interface has gone away.
LEMMA MoreFlaps ==
    ASSUME NEW K \in Nat, NEW f \in Nat
    PROVE  f * K \in Nat /\ (f + 1) * K = f * K + K
  OBVIOUS

(***************************************************************************)
(* Announcers                                                              *)
(***************************************************************************)
LEMMA InitialType ==
    ASSUME NEW r, NEW gst
    PROVE  /\ InitialState(r, gst) \in [st : AnnStates, n : Nat, due : {0, 1}]
           /\ InitialState(r, gst).st \notin {"none", "ESTABLISHED"}
           /\ InitialState(r, gst).st = "ANNOUNCING" => gst = "ESTABLISHED"
  BY DEF InitialState, AnnStates

LEMMA AbsentType ==
    ASSUME NEW h \in Hosts
    PROVE  /\ NoAnnouncers(h) \in Announcers(h) /\ ProbingIn(NoAnnouncers(h)) = {}
           /\ Count(NoAnnouncers(h)) = 0
<1>1. NoAnnouncers(h) \in Announcers(h) /\ ProbingIn(NoAnnouncers(h)) = {}
  BY DEF NoAnnouncers, Announcers, AnnStates, Absent, ProbingIn
<1> QED
  BY <1>1, CountBound, FS_EmptySet

\* New announcers add to what is probed for, and announce only in a group that
\* has been established.
LEMMA NewAnnouncersOK ==
    ASSUME NEW h \in Hosts, NEW A \in Announcers(h), NEW L, NEW gst
    PROVE  LET B == NewAnnouncers(h, A, L, gst)
           IN  /\ B \in Announcers(h) /\ ProbingIn(A) \subseteq ProbingIn(B)
               /\ gst # "ESTABLISHED" => \A p \in Pairs(h) : Announced(B, p) => Announced(A, p)
<1> DEFINE B == NewAnnouncers(h, A, L, gst)
<1>1. B = [p \in Pairs(h) |-> IF p[2] \in L /\ A[p] = Absent THEN InitialState(p[1], gst) ELSE A[p]]
  BY DEF NewAnnouncers, Announcers
<1>2. B \in Announcers(h)
  BY <1>1, InitialType DEF Announcers
<1>3. ProbingIn(A) \subseteq ProbingIn(B)
  BY <1>1 DEF ProbingIn, Announcers, Absent
<1>4. gst # "ESTABLISHED" => \A p \in Pairs(h) : Announced(B, p) => Announced(A, p)
  BY <1>1, InitialType DEF Announced, Announcers
<1> QED
  BY <1>2, <1>3, <1>4

(***************************************************************************)
(* A group that is made, changed or withdrawn                              *)
(***************************************************************************)
\* The hosts' groups stay in order if that of one of them changes and is.
LEMMA OneGroupChanges ==
    ASSUME GroupsOK, flaps' = flaps, NEW h \in Hosts, NEW g, NEW n, NEW A,
           GroupOK(h, g, n, A, flaps),
           group' = [group EXCEPT ![h] = g], n_probing' = [n_probing EXCEPT ![h] = n],
           ann' = [ann EXCEPT ![h] = A]
    PROVE  GroupsOK'
  BY DEF GroupsOK

\* As the groups are functions, one that keeps its value has been set to it.
LEMMA Kept ==
    ASSUME GroupsOK, NEW h \in Hosts
    PROVE  /\ group = [group EXCEPT ![h] = group[h]]
           /\ n_probing = [n_probing EXCEPT ![h] = n_probing[h]]
           /\ ann = [ann EXCEPT ![h] = ann[h]]
           /\ GroupOK(h, group[h], n_probing[h], ann[h], flaps)
  BY DEF GroupsOK

LEMMA Unchanged ==
    ASSUME GroupsOK, UNCHANGED <<grpVars, flaps>>
    PROVE  GroupsOK'
  BY DEF GroupsOK, grpVars

\* The counter of a group of which nothing was lost with an interface.
LEMMA CountExact ==
    ASSUME NEW h \in Hosts, NEW A \in Announcers(h), NEW f \in Nat
    PROVE  Counted(h, Count(A), A, f)
  BY CountBound, PairsFinite, MoreFlaps DEF Counted

LEMMA NoGroupOK ==
    ASSUME NEW h \in Hosts, NEW f \in Nat
    PROVE  GroupOK(h, "none", 0, NoAnnouncers(h), f)
  BY AbsentType, CountExact DEF GroupOK

LEMMA RegisterOK ==
    ASSUME GroupsOK, flaps' = flaps, flaps \in Nat, NEW h \in Hosts, group[h] = "none", RegisterService(h)
    PROVE  GroupsOK'
<1> DEFINE A == NewAnnouncers(h, ann[h], {l \in Links : up[h][l]}, "REGISTERING")
           n == Count(A)
           B == IF n = 0 THEN Released(A) ELSE A
           g == IF n = 0 THEN "ESTABLISHED" ELSE "REGISTERING"
<1>1. ann[h] = NoAnnouncers(h) /\ ann[h] \in Announcers(h)
  BY Kept DEF GroupOK
<1>2. A \in Announcers(h) /\ \A p \in Pairs(h) : Announced(A, p) => Announced(ann[h], p)
  BY <1>1, NewAnnouncersOK
<1>3. \A p \in Pairs(h) : ~Announced(A, p)
  BY <1>1, <1>2 DEF Announced, NoAnnouncers, Absent
<1>4. Released(A) \in Announcers(h) /\ ProbingIn(Released(A)) = ProbingIn(A)
  BY <1>2 DEF Released, Announcers, AnnStates, ProbingIn
<1>5. Counted(h, n, A, flaps) /\ Counted(h, n, B, flaps)
  BY <1>2, <1>4, CountExact, CountSame
<1>6. GroupOK(h, g, n, B, flaps)
  BY <1>2, <1>3, <1>4, <1>5 DEF GroupOK
<1>7. /\ n_probing' = [n_probing EXCEPT ![h] = n] /\ group' = [group EXCEPT ![h] = g]
      /\ ann' = [ann EXCEPT ![h] = B]
  BY DEF RegisterService
<1> QED
  BY <1>6, <1>7, OneGroupChanges

LEMMA WithdrawOK ==
    ASSUME GroupsOK, flaps' = flaps, flaps \in Nat, NEW h \in Hosts,
           group' = [group EXCEPT ![h] = "none"], n_probing' = [n_probing EXCEPT ![h] = 0],
           ann' = [ann EXCEPT ![h] = NoAnnouncers(h)]
    PROVE  GroupsOK'
  BY NoGroupOK, OneGroupChanges

\* Announcers are added, or one starts again: the counter grows by what is
\* probed for in addition.
LEMMA MoreProbing ==
    ASSUME GroupsOK, flaps' = flaps, flaps \in Nat, NEW h \in Hosts, group[h] # "none",
           NEW A \in Announcers(h),
           ProbingIn(ann[h]) \subseteq ProbingIn(A),
           group[h] = "REGISTERING" => \A p \in Pairs(h) : Announced(A, p) => Announced(ann[h], p),
           group' = group, ann' = [ann EXCEPT ![h] = A],
           n_probing' = [n_probing EXCEPT ![h] = @ + NewProbing(ann[h], A)]
    PROVE  GroupsOK'
<1> DEFINE n == n_probing[h] + NewProbing(ann[h], A)
<1>1. GroupOK(h, group[h], n_probing[h], ann[h], flaps)
  BY Kept
<1>2. /\ Count(A) \in Nat /\ Count(ann[h]) \in Nat /\ Count(ann[h]) <= Count(A)
      /\ Cardinality(Pairs(h)) \in Nat
  BY <1>1, CountBound, CountMonotone, PairsFinite DEF GroupOK
<1>3. flaps * Cardinality(Pairs(h)) \in Nat
  BY <1>2, MoreFlaps
<1>4. Counted(h, n, A, flaps)
  BY <1>1, <1>2, <1>3 DEF GroupOK, Counted, NewProbing
<1>5. GroupOK(h, group[h], n, A, flaps)
  BY <1>1, <1>4 DEF GroupOK
<1>6. group' = [group EXCEPT ![h] = group[h]] /\ n_probing' = [n_probing EXCEPT ![h] = n]
  BY Kept
<1> QED
  BY <1>5, <1>6, OneGroupChanges

\* Announcers move on without being probed for any more or any less.
LEMMA SameProbing ==
    ASSUME GroupsOK, flaps' = flaps, NEW h \in Hosts, group[h] # "none",
           NEW A \in Announcers(h), ProbingIn(A) = ProbingIn(ann[h]),
           group[h] = "REGISTERING" => \A p \in Pairs(h) : Announced(A, p) => Announced(ann[h], p),
           group' = group, n_probing' = n_probing, ann' = [ann EXCEPT ![h] = A]
    PROVE  GroupsOK'
<1>1. GroupOK(h, group[h], n_probing[h], ann[h], flaps)
  BY Kept
<1>2. Count(A) = Count(ann[h])
  BY <1>1, CountSame DEF GroupOK
<1>3. GroupOK(h, group[h], n_probing[h], A, flaps)
  BY <1>1, <1>2 DEF GroupOK, Counted
<1>4. group' = [group EXCEPT ![h] = group[h]] /\ n_probing' = [n_probing EXCEPT ![h] = n_probing[h]]
  BY Kept
<1> QED
  BY <1>3, <1>4, OneGroupChanges

(***************************************************************************)
(* The announcers' timers                                                  *)
(***************************************************************************)
\* Who probes or announces has a group, and one that announces is past probing.
LEMMA GroupOfAnnouncer ==
    ASSUME GroupsOK, NEW h \in Hosts, NEW p \in Pairs(h), ann[h][p].st # "none"
    PROVE  /\ group[h] # "none" /\ ann[h] \in Announcers(h) /\ ann[h][p].n \in Nat
           /\ Announced(ann[h], p) => group[h] # "REGISTERING"
<1>1. GroupOK(h, group[h], n_probing[h], ann[h], flaps)
  BY Kept
<1>2. NoAnnouncers(h)[p].st = "none"
  BY DEF NoAnnouncers, Absent
<1>3. group[h] # "none" /\ ann[h] \in Announcers(h)
  BY <1>1, <1>2 DEF GroupOK
<1>4. ann[h][p].n \in Nat
  BY <1>3 DEF Announcers
<1>5. Announced(ann[h], p) => group[h] # "REGISTERING"
  BY <1>1 DEF GroupOK
<1> QED
  BY <1>3, <1>4, <1>5

LEMMA ProbeStep ==
    ASSUME PubInv, NEW h \in Hosts, NEW r \in Offer[h], NEW l \in Links, Probe(h, r, l)
    PROVE  PubInv'
<1> DEFINE p == <<r, l>>
           A == [ann[h] EXCEPT ![p] = [st |-> "PROBING", n |-> ann[h][p].n + 1, due |-> 1]]
<1>1. p \in Pairs(h) /\ ann[h][p].st = "PROBING"
  BY DEF Probe, Pairs
<1>2. group[h] # "none" /\ ann[h] \in Announcers(h) /\ ann[h][p].n \in Nat
  BY <1>1, GroupOfAnnouncer DEF PubInv
<1>3. /\ A \in Announcers(h) /\ ProbingIn(A) = ProbingIn(ann[h])
      /\ \A q \in Pairs(h) : Announced(A, q) => Announced(ann[h], q)
  <2>1. ann[h][p].n + 1 \in Nat
    BY <1>2
  <2>2. A \in Announcers(h)
    BY <1>1, <1>2, <2>1 DEF Announcers, AnnStates
  <2>3. \A q \in Pairs(h) : A[q].st = ann[h][q].st
    BY <1>1, <1>2 DEF Announcers
  <2> QED
    BY <1>2, <2>2, <2>3 DEF Announcers, ProbingIn, Announced
<1>4. ann' = [ann EXCEPT ![h] = A] /\ UNCHANGED <<qzVars, group, n_probing, up, flaps>>
  BY DEF Probe, bounds, PubInv, GroupsOK
<1>5. GroupsOK'
  BY <1>2, <1>3, <1>4, SameProbing DEF PubInv
<1>6. LinkOK'
  BY <1>1, <1>4 DEF PubInv, LinkOK, Probe, PostProbe
<1>7. ClientOK'
  BY <1>4 DEF PubInv, ClientOK, qzVars
<1> QED
  BY <1>5, <1>6, <1>7 DEF PubInv

\* The announcers after the last of a group has been probed, or one alone.
LEMMA ProbedGroup ==
    ASSUME GroupsOK, NEW h \in Hosts, NEW r \in Offer[h], NEW l \in Links, Probed(h, r, l),
           flaps' = flaps, flaps \in Nat
    PROVE  GroupsOK'
<1> DEFINE q == <<r, l>>
           left == n_probing[h] - 1
           done == group[h] = "REGISTERING" /\ left = 0
           A == [ann[h] EXCEPT ![q] =
                   [@ EXCEPT !.st = IF group[h] = "REGISTERING" THEN "WAITING" ELSE "ANNOUNCING"]]
           go == IF done THEN {p \in Pairs(h) : A[p].st = "WAITING"}
                 ELSE {q} \ {p \in Pairs(h) : A[p].st = "WAITING"}
           B == [p \in Pairs(h) |-> IF p \in go THEN [st |-> "ANNOUNCING", n |-> 1, due |-> 0] ELSE A[p]]
           C == [p \in Pairs(h) |-> IF p \in go THEN NextAnnouncing(1) ELSE B[p]]
           g == IF done THEN "ESTABLISHED" ELSE group[h]
<1>1. q \in Pairs(h) /\ ann[h][q].st = "PROBING"
  BY DEF Probed, Pairs
<1>2. /\ group[h] # "none" /\ ann[h] \in Announcers(h)
      /\ GroupOK(h, group[h], n_probing[h], ann[h], flaps)
  BY <1>1, GroupOfAnnouncer, Kept
<1>3. A \in Announcers(h) /\ ProbingIn(A) = ProbingIn(ann[h]) \ {q}
  BY <1>1, <1>2 DEF Announcers, AnnStates, ProbingIn
<1>4. \A p \in go : A[p].st # "PROBING"
  BY <1>1, <1>2 DEF Announcers
<1>5. NextAnnouncing(1) \in [st : AnnStates, n : Nat, due : {0, 1}] /\ NextAnnouncing(1).st # "PROBING"
  BY DEF NextAnnouncing, AnnStates
<1>6. C = [p \in Pairs(h) |-> IF p \in go THEN NextAnnouncing(1) ELSE A[p]]
  OBVIOUS
<1>7. C \in Announcers(h) /\ ProbingIn(C) = ProbingIn(A)
  BY <1>3, <1>4, <1>5, <1>6 DEF Announcers, ProbingIn
<1>8. Count(ann[h]) >= 1 /\ Count(C) = Count(ann[h]) - 1 /\ Count(ann[h]) \in Nat
  <2>1. q \in ProbingIn(ann[h])
    BY <1>1, <1>2 DEF ProbingIn, Announcers
  <2> QED
    BY <2>1, <1>2, <1>3, <1>7, CountOneLess, CountBound
<1>9. flaps * Cardinality(Pairs(h)) \in Nat
  BY PairsFinite, MoreFlaps
<1>10. Counted(h, left, C, flaps)
  BY <1>2, <1>8, <1>9 DEF Counted, GroupOK
<1>11. g = "REGISTERING" => \A p \in Pairs(h) : ~Announced(C, p)
  <2>1. SUFFICES ASSUME g = "REGISTERING" PROVE \A p \in Pairs(h) : ~Announced(C, p)
    OBVIOUS
  <2>2. ~done /\ group[h] = "REGISTERING" /\ A[q].st = "WAITING"
    BY <2>1, <1>1, <1>2 DEF Announcers
  <2>3. go = {}
    BY <2>2, <1>1
  <2> QED
    BY <2>2, <2>3, <1>1, <1>2, <1>6 DEF Announced, GroupOK, Announcers
<1>12. GroupOK(h, g, left, C, flaps)
  BY <1>2, <1>7, <1>10, <1>11 DEF GroupOK
<1>13. /\ n_probing' = [n_probing EXCEPT ![h] = left] /\ group' = [group EXCEPT ![h] = g]
       /\ ann' = [ann EXCEPT ![h] = C]
  <2>1. group' = IF done THEN [group EXCEPT ![h] = "ESTABLISHED"] ELSE group
    BY DEF Probed
  <2>2. group' = [group EXCEPT ![h] = g]
    BY <2>1, Kept
  <2>3. n_probing' = [n_probing EXCEPT ![h] = left] /\ ann' = [ann EXCEPT ![h] = C]
    BY DEF Probed
  <2> QED
    BY <2>2, <2>3
<1> QED
  BY <1>12, <1>13, OneGroupChanges

LEMMA ProbedStep ==
    ASSUME PubInv, NEW h \in Hosts, NEW r \in Offer[h], NEW l \in Links, Probed(h, r, l)
    PROVE  PubInv'
<1>1. UNCHANGED <<qzVars, up, probes, flaps>>
  BY DEF Probed, bounds
<1>2. GroupsOK'
  BY <1>1, ProbedGroup DEF PubInv, LinkOK
<1>3. LinkOK'
  BY <1>1 DEF PubInv, LinkOK
<1>4. group[h] # "none" /\ \A k \in Hosts : group[k] = "none" => group'[k] = "none"
  <2>1. <<r, l>> \in Pairs(h) /\ ann[h][<<r, l>>].st = "PROBING"
    BY DEF Probed, Pairs
  <2>2. group[h] # "none"
    BY <2>1, GroupOfAnnouncer DEF PubInv
  <2>3. group' \in {group, [group EXCEPT ![h] = "ESTABLISHED"]}
    BY DEF Probed
  <2> QED
    BY <2>2, <2>3 DEF PubInv, GroupsOK
<1>5. ClientOK'
  BY <1>1, <1>4 DEF PubInv, ClientOK, qzVars
<1> QED
  BY <1>2, <1>3, <1>5 DEF PubInv

LEMMA AnnounceStep ==
    ASSUME PubInv, NEW h \in Hosts, NEW r \in Offer[h], NEW l \in Links, Announce(h, r, l)
    PROVE  PubInv'
<1> DEFINE p == <<r, l>>
           A == [ann[h] EXCEPT ![p] = NextAnnouncing(@.n)]
<1>1. p \in Pairs(h) /\ ann[h][p].st = "ANNOUNCING"
  BY DEF Announce, Pairs
<1>2. /\ group[h] # "none" /\ ann[h] \in Announcers(h) /\ ann[h][p].n \in Nat
      /\ group[h] # "REGISTERING"
  BY <1>1, GroupOfAnnouncer DEF PubInv, Announced
<1>3. /\ NextAnnouncing(ann[h][p].n) \in [st : AnnStates, n : Nat, due : {0, 1}]
      /\ NextAnnouncing(ann[h][p].n).st # "PROBING"
  BY <1>2 DEF NextAnnouncing, AnnStates
<1>4. A \in Announcers(h) /\ ProbingIn(A) = ProbingIn(ann[h])
  BY <1>1, <1>2, <1>3 DEF Announcers, ProbingIn
<1>5. ann' = [ann EXCEPT ![h] = A] /\ UNCHANGED <<qzVars, group, n_probing, up, probes, flaps>>
  BY DEF Announce, bounds, PubInv, GroupsOK
<1>6. GroupsOK'
  BY <1>2, <1>4, <1>5, SameProbing DEF PubInv
<1> QED
  BY <1>5, <1>6 DEF PubInv, LinkOK, ClientOK, qzVars

(***************************************************************************)
(* The user                                                                *)
(***************************************************************************)
LEMMA RegisterSets ==
    ASSUME NEW h \in Hosts, RegisterService(h)
    PROVE  \E g : group' = [group EXCEPT ![h] = g]
  BY DEF RegisterService

LEMMA ServerRunningStep ==
    ASSUME PubInv, NEW h \in Hosts, ServerRunning(h)
    PROVE  PubInv'
<1>1. UNCHANGED <<wanted, up, probes, flaps>> /\ group[h] = "none" /\ flaps \in Nat
  BY DEF ServerRunning, bounds, outVars, PubInv, ClientOK, LinkOK
<1>2. GroupsOK'
  BY <1>1, RegisterOK, Unchanged DEF ServerRunning, PubInv
<1>3. (\E g : group' = [group EXCEPT ![h] = g]) \/ group' = group
  BY RegisterSets DEF ServerRunning, grpVars
<1>4. ClientOK'
  BY <1>1, <1>3 DEF PubInv, ClientOK, GroupsOK, ServerRunning
<1> QED
  BY <1>1, <1>2, <1>4 DEF PubInv, LinkOK

LEMMA StartStep ==
    ASSUME PubInv, NEW h \in Hosts, startServicePublish(h)
    PROVE  PubInv'
<1>1. UNCHANGED <<ready, up, probes, flaps>> /\ group[h] = "none" /\ flaps \in Nat
  BY DEF startServicePublish, outVars, PubInv, LinkOK
<1>2. GroupsOK'
  BY <1>1, RegisterOK, Unchanged DEF startServicePublish, PubInv
<1>3. (ready[h] /\ \E g : group' = [group EXCEPT ![h] = g]) \/ group' = group
  BY RegisterSets DEF startServicePublish, grpVars
<1>4. ClientOK'
  BY <1>1, <1>3 DEF PubInv, ClientOK, GroupsOK, startServicePublish
<1> QED
  BY <1>1, <1>2, <1>4 DEF PubInv, LinkOK

LEMMA StopStep ==
    ASSUME PubInv, NEW h \in Hosts, stopServicePublish(h)
    PROVE  PubInv'
<1>1. UNCHANGED <<ready, waiting, up, probes, flaps>> /\ flaps \in Nat
  BY DEF stopServicePublish, bounds, PubInv, LinkOK
<1>2. GroupsOK'
  BY <1>1, WithdrawOK DEF stopServicePublish, PubInv
<1>3. ClientOK'
  BY <1>1 DEF PubInv, ClientOK, stopServicePublish
<1> QED
  BY <1>1, <1>2, <1>3 DEF PubInv, LinkOK

(***************************************************************************)
(* The interface                                                           *)
(***************************************************************************)
\* An interface that goes takes its announcers along, and leaves their counts.
LEMMA LinkDownStep ==
    ASSUME PubInv, NEW h \in Hosts, NEW l \in Links, LinkDown(h, l)
    PROVE  PubInv'
<1> DEFINE A == [p \in Pairs(h) |-> IF p[2] = l THEN Absent ELSE ann[h][p]]
           K(k) == Cardinality(Pairs(k))
<1>1. flaps \in Nat /\ flaps' = flaps + 1 /\ flaps' \in 0..MaxFlaps
  BY CountAssumption DEF LinkDown, PubInv, LinkOK
<1>2. /\ UNCHANGED <<qzVars, group, n_probing>> /\ ann' = [ann EXCEPT ![h] = A]
      /\ up' = [up EXCEPT ![h][l] = FALSE]
      /\ probes' = [probes EXCEPT ![h] = {p \in @ : p[2] # l}]
  BY DEF LinkDown
<1>3. \A k \in Hosts : GroupOK(k, group[k], n_probing[k], ann[k], flaps)
  BY DEF PubInv, GroupsOK
<1>4. \A k \in Hosts : K(k) \in Nat /\ flaps * K(k) \in Nat /\ flaps' * K(k) = flaps * K(k) + K(k)
  BY <1>1, PairsFinite, MoreFlaps
<1>5. A \in Announcers(h) /\ ProbingIn(A) \subseteq ProbingIn(ann[h])
  <2>1. ann[h] \in Announcers(h)
    BY <1>3 DEF GroupOK
  <2>2. Absent \in [st : AnnStates, n : Nat, due : {0, 1}] /\ Absent.st # "PROBING"
    BY DEF Absent, AnnStates
  <2> QED
    BY <2>1, <2>2 DEF Announcers, ProbingIn
<1>6. GroupOK(h, group[h], n_probing[h], A, flaps')
  <2>1. /\ ann[h] \in Announcers(h) /\ Counted(h, n_probing[h], ann[h], flaps)
        /\ GroupOK(h, group[h], n_probing[h], ann[h], flaps)
    BY <1>3 DEF GroupOK
  <2>2. /\ Count(A) \in Nat /\ Count(ann[h]) \in Nat
        /\ Count(A) <= Count(ann[h]) /\ Count(ann[h]) <= K(h)
    BY <1>5, <2>1, CountBound, CountMonotone
  <2>3. Counted(h, n_probing[h], A, flaps')
    BY <2>1, <2>2, <1>4 DEF Counted
  <2>4. group[h] = "none" => A = NoAnnouncers(h)
    BY <2>1 DEF GroupOK, NoAnnouncers
  <2>5. group[h] = "REGISTERING" => \A p \in Pairs(h) : ~Announced(A, p)
    BY <2>1 DEF GroupOK, Announced, Absent
  <2> QED
    BY <2>1, <2>3, <2>4, <2>5, <1>5 DEF GroupOK
<1>7. \A k \in Hosts : k # h => GroupOK(k, group[k], n_probing[k], ann[k], flaps')
  <2>1. SUFFICES ASSUME NEW k \in Hosts PROVE Counted(k, n_probing[k], ann[k], flaps')
    BY <1>3 DEF GroupOK
  <2>2. Count(ann[k]) \in Nat /\ Counted(k, n_probing[k], ann[k], flaps)
    BY <1>3, CountBound DEF GroupOK
  <2> QED
    BY <2>2, <1>4 DEF Counted
<1>8. GroupsOK'
  BY <1>2, <1>6, <1>7 DEF PubInv, GroupsOK
<1>9. LinkOK'
  BY <1>1, <1>2 DEF PubInv, LinkOK
<1>10. ClientOK'
  BY <1>2 DEF PubInv, ClientOK, qzVars
<1> QED
  BY <1>8, <1>9, <1>10 DEF PubInv

LEMMA LinkUpStep ==
    ASSUME PubInv, NEW h \in Hosts, NEW l \in Links, LinkUp(h, l)
    PROVE  PubInv'
<1>1. UNCHANGED <<qzVars, group, probes, flaps>> /\ up' = [up EXCEPT ![h][l] = TRUE] /\ flaps \in Nat
  BY DEF LinkUp, bounds, outVars, PubInv, LinkOK
<1>2. CASE group[h] = "none"
  <2>1. UNCHANGED <<grpVars, flaps>>
    BY <1>1, <1>2 DEF LinkUp, grpVars
  <2> QED
    BY <2>1, <1>1, Unchanged DEF PubInv, LinkOK, ClientOK, qzVars, grpVars
<1>3. CASE group[h] # "none"
  <2> DEFINE A == NewAnnouncers(h, ann[h], {l}, group[h])
  <2>1. ann[h] \in Announcers(h) /\ group[h] \in {"none", "REGISTERING", "ESTABLISHED"}
    BY DEF PubInv, GroupsOK, GroupOK
  <2>2. /\ A \in Announcers(h) /\ ProbingIn(ann[h]) \subseteq ProbingIn(A)
        /\ group[h] = "REGISTERING" => \A p \in Pairs(h) : Announced(A, p) => Announced(ann[h], p)
    BY <2>1, NewAnnouncersOK
  <2>3. /\ ann' = [ann EXCEPT ![h] = A]
        /\ n_probing' = [n_probing EXCEPT ![h] = @ + NewProbing(ann[h], A)]
    BY <1>3 DEF LinkUp
  <2>4. GroupsOK'
    BY <1>1, <1>3, <2>2, <2>3, MoreProbing DEF PubInv
  <2> QED
    BY <2>4, <1>1 DEF PubInv, LinkOK, ClientOK, qzVars
<1> QED
  BY <1>2, <1>3

(***************************************************************************)
(* Packets                                                                 *)
(***************************************************************************)
\* The records a packet disputes are probed for or registered.
LEMMA ReturnOK ==
    ASSUME GroupsOK, flaps' = flaps, flaps \in Nat, NEW h \in Hosts, NEW r \in Offer[h], NEW l \in Links,
           IsRegistered(ann[h], r, l), ReturnToInitial(h, r, l)
    PROVE  GroupsOK'
<1> DEFINE p == <<r, l>>
           A == [ann[h] EXCEPT ![p] = InitialState(r, group[h])]
<1>1. p \in Pairs(h) /\ ann[h][p].st \notin {"none", "PROBING"}
  BY DEF Pairs, IsRegistered
<1>2. group[h] # "none" /\ ann[h] \in Announcers(h)
  BY <1>1, GroupOfAnnouncer
<1>3. A \in Announcers(h) /\ ProbingIn(ann[h]) \subseteq ProbingIn(A)
  BY <1>1, <1>2, InitialType DEF Announcers, ProbingIn
<1>4. group[h] = "REGISTERING" => \A q \in Pairs(h) : Announced(A, q) => Announced(ann[h], q)
  BY <1>1, <1>2, InitialType DEF Announcers, Announced
<1>5. /\ ann' = [ann EXCEPT ![h] = A] /\ group' = group
      /\ n_probing' = [n_probing EXCEPT ![h] = @ + NewProbing(ann[h], A)]
  BY DEF ReturnToInitial
<1> QED
  BY <1>2, <1>3, <1>4, <1>5, MoreProbing

LEMMA ReceiveGroups ==
    ASSUME PubInv, NetOK, NEW h \in Hosts, Receive(h), flaps' = flaps, flaps \in Nat
    PROVE  GroupsOK'
<1>1. PICK m \in net : IF ~up[h][m.link] THEN UNCHANGED <<grpVars, outVars>>
                       ELSE \/ m.kind = "probe" /\ ReceiveProbe(h, m)
                            \/ m.kind = "response" /\ ReceiveResponse(h, m) /\ UNCHANGED probes
  BY DEF Receive
<1>2. CASE UNCHANGED grpVars
  BY <1>2, Unchanged DEF PubInv
<1>3. CASE Withdraw(h)
  BY <1>3, WithdrawOK DEF PubInv, Withdraw
<1>4. CASE \E q \in m.recs : Contest(h, Disputed(h, q, m.link), m.link)
  <2>1. PICK q \in m.recs : Contest(h, Disputed(h, q, m.link), m.link)
    BY <1>4
  <2>2. CASE ~\E r \in Disputed(h, q, m.link) : IsProbing(ann[h], r, m.link)
    <3>1. PICK r \in Disputed(h, q, m.link) : ReturnToInitial(h, r, m.link)
      BY <2>1, <2>2 DEF Contest
    <3>2. r \in Offer[h] /\ m.link \in Links /\ IsRegistered(ann[h], r, m.link)
      BY <2>2 DEF Disputed, NetOK
    <3> QED
      BY <3>1, <3>2, ReturnOK DEF PubInv
  <2> QED
    BY <2>1, <2>2, <1>3 DEF Contest
<1> QED
  BY <1>1, <1>2, <1>3, <1>4 DEF ReceiveProbe, ReceiveResponse, Refresh, Accept

LEMMA ReceiveStep ==
    ASSUME PubInv, NetOK, NEW h \in Hosts, Receive(h)
    PROVE  PubInv'
<1>1. UNCHANGED <<qzVars, up, flaps>> /\ flaps \in Nat
  BY DEF Receive, bounds, PubInv, LinkOK
<1>2. GroupsOK'
  BY <1>1, ReceiveGroups
<1>3. UNCHANGED probes
  BY DEF Receive, ReceiveProbe, outVars
<1>4. \A k \in Hosts : group[k] = "none" => group'[k] = "none"
  <2>1. group' \in {group, [group EXCEPT ![h] = "none"]}
    BY DEF Receive, ReceiveProbe, ReceiveResponse, Refresh, Contest, Accept, Withdraw, ReturnToInitial, grpVars
  <2> QED
    BY <2>1 DEF PubInv, GroupsOK
<1> QED
  BY <1>1, <1>2, <1>3, <1>4 DEF PubInv, ClientOK, LinkOK, qzVars

(***************************************************************************)
(* What only sends, loses or waits                                         *)
(***************************************************************************)
LEMMA QuietStep ==
    ASSUME PubInv, UNCHANGED <<qzVars, grpVars, up, flaps>>,
           probes' = [h \in Hosts |-> probes'[h]], \A h \in Hosts : probes'[h] \subseteq probes[h]
    PROVE  PubInv'
<1>1. GroupsOK'
  BY Unchanged DEF PubInv
<1> QED
  BY <1>1 DEF PubInv, ClientOK, LinkOK, qzVars, grpVars

LEMMA SendProbesStep ==
    ASSUME PubInv, NEW h \in Hosts, SendProbes(h)
    PROVE  PubInv'
<1>1. UNCHANGED <<qzVars, grpVars, up, flaps>>
  BY DEF SendProbes, bounds
<1>2. \E S : probes' = [probes EXCEPT ![h] = @ \ S]
  BY DEF SendProbes
<1>3. probes' = [k \in Hosts |-> probes'[k]] /\ \A k \in Hosts : probes'[k] \subseteq probes[k]
  BY <1>2 DEF PubInv, LinkOK
<1> QED
  BY <1>1, <1>3, QuietStep

LEMMA SendOrLoseStep ==
    ASSUME PubInv, (\E h \in Hosts : SendResponse(h)) \/ Lose \/ UNCHANGED vars
    PROVE  PubInv'
<1>1. UNCHANGED <<qzVars, grpVars, up, probes, flaps>>
  BY DEF SendResponse, Lose, vars, bounds, outVars
<1> QED
  BY <1>1, QuietStep DEF PubInv, LinkOK

\* When time passes, no announcer changes but for what it is due.
LEMMA TickStep ==
    ASSUME PubInv, Tick
    PROVE  PubInv'
<1> DEFINE A(h) == [p \in Pairs(h) |-> IF ann[h][p].st = "PROBING" THEN [ann[h][p] EXCEPT !.due = 0]
                                       ELSE ann[h][p]]
<1>1. UNCHANGED <<qzVars, group, n_probing, up, probes, flaps>> /\ ann' = [h \in Hosts |-> A(h)]
  BY DEF Tick, bounds
<1>2. ASSUME NEW h \in Hosts
      PROVE  GroupOK(h, group[h], n_probing[h], A(h), flaps)
  <2>1. GroupOK(h, group[h], n_probing[h], ann[h], flaps) /\ ann[h] \in Announcers(h)
    BY DEF PubInv, GroupsOK, GroupOK
  <2>2. \A p \in Pairs(h) : A(h)[p] \in [st : AnnStates, n : Nat, due : {0, 1}] /\ A(h)[p].st = ann[h][p].st
    <3>1. SUFFICES ASSUME NEW p \in Pairs(h)
                   PROVE  A(h)[p] \in [st : AnnStates, n : Nat, due : {0, 1}] /\ A(h)[p].st = ann[h][p].st
      OBVIOUS
    <3> DEFINE a == ann[h][p]
    <3>2. a \in [st : AnnStates, n : Nat, due : {0, 1}] /\ A(h)[p] \in {a, [a EXCEPT !.due = 0]}
      BY <2>1 DEF Announcers
    <3> HIDE DEF a, A
    <3> QED
      BY <3>2 DEF a
  <2>3. A(h) \in Announcers(h) /\ ProbingIn(A(h)) = ProbingIn(ann[h])
    BY <2>1, <2>2 DEF Announcers, ProbingIn
  <2>4. Counted(h, n_probing[h], A(h), flaps)
    BY <2>1, <2>3, CountSame DEF GroupOK, Counted
  <2>5. group[h] = "none" => A(h) = NoAnnouncers(h)
    BY <2>1 DEF GroupOK, NoAnnouncers, Absent
  <2>6. group[h] = "REGISTERING" => \A p \in Pairs(h) : ~Announced(A(h), p)
    BY <2>1, <2>2 DEF GroupOK, Announced
  <2> HIDE DEF A
  <2> QED
    BY <2>1, <2>3, <2>4, <2>5, <2>6 DEF GroupOK
<1>3. GroupsOK'
  <2> HIDE DEF A
  <2> QED
    BY <1>1, <1>2 DEF PubInv, GroupsOK
<1> QED
  BY <1>1, <1>3 DEF PubInv, ClientOK, LinkOK, qzVars

(***************************************************************************)
(* Packets and responses are for interfaces that there are                 *)
(***************************************************************************)
SchedOK == /\ sched = [h \in Hosts |-> sched[h]]
           /\ \A h \in Hosts : \A j \in sched[h] : j.link \in Links

LEMMA PostOK ==
    ASSUME SchedOK, NEW h \in Hosts, NEW P, \A p \in P : p[2] \in Links, NEW bye, PostResponses(h, P, bye)
    PROVE  SchedOK'
<1> DEFINE new == {p \in P : up[h][p[2]] /\ ~InHistory(sent[h], p[1], p[2], bye)}
           more == {[rec |-> p[1], link |-> p[2], bye |-> bye] : p \in new}
<1>1. \A j \in more : j.link \in Links
  OBVIOUS
<1>2. \E R : R \subseteq sched[h] /\ sched' = [sched EXCEPT ![h] = R \cup more]
  <2>1. sched' = [sched EXCEPT ![h] = {j \in @ : <<j.rec, j.link>> \notin new} \cup more]
    BY DEF PostResponses
  <2> QED
    BY <2>1
<1> HIDE DEF more
<1> QED
  BY <1>1, <1>2 DEF SchedOK

\* What is sent on an interface there is, is for one there is.
LEMMA PacketLink ==
    ASSUME NEW h, NEW l \in Links, NEW kind, NEW recs, NEW bye
    PROVE  \A m \in Packet(h, l, kind, recs, bye) : m.link \in Links
  BY DEF Packet

LEMMA MatchingLink ==
    ASSUME NEW h, NEW A, NEW r, NEW l \in Links
    PROVE  \A p \in Matching(h, A, r, l) : p[2] \in Links
  BY DEF Matching

LEMMA TimersNet ==
    ASSUME NetOK, NEW h \in Hosts, Timers(h)
    PROVE  NetOK'
<1>1. CASE SendProbes(h)
  BY <1>1, PacketLink DEF SendProbes, NetOK
<1>2. CASE SendResponse(h)
  <2>1. PICK j \in sched[h] : /\ sched' = [sched EXCEPT ![h] = @ \ {j}]
                              /\ net' = IF up[h][j.link]
                                          THEN net \cup Packet(h, j.link, "response", {j.rec}, j.bye)
                                          ELSE net
    BY <1>2 DEF SendResponse
  <2> QED
    BY <2>1, PacketLink DEF NetOK
<1>3. CASE \E r \in Offer[h], l \in Links : Probe(h, r, l)
  BY <1>3 DEF Probe, NetOK
<1>4. ASSUME NEW r \in Offer[h], NEW l \in Links, Probed(h, r, l) \/ Announce(h, r, l)
      PROVE  NetOK'
  <2>1. \A A, p : p \in Pairs(h) => \A q \in Announcement(h, A, p) : q[2] \in Links
    BY MatchingLink DEF Announcement, Pairs
  <2>2. <<r, l>> \in Pairs(h)
    BY DEF Pairs
  <2>3. \E P : (\A p \in P : p[2] \in Links) /\ PostResponses(h, P, FALSE)
    <3>1. CASE Announce(h, r, l)
      BY <3>1, <2>1, <2>2 DEF Announce
    <3>2. CASE Probed(h, r, l)
      <4> DEFINE A == [ann[h] EXCEPT ![<<r, l>>] =
                         [@ EXCEPT !.st = IF group[h] = "REGISTERING" THEN "WAITING" ELSE "ANNOUNCING"]]
                 waiters == {p \in Pairs(h) : A[p].st = "WAITING"}
                 go == IF group[h] = "REGISTERING" /\ n_probing[h] - 1 = 0 THEN waiters
                       ELSE {<<r, l>>} \ waiters
                 B == [p \in Pairs(h) |-> IF p \in go THEN [st |-> "ANNOUNCING", n |-> 1, due |-> 0] ELSE A[p]]
      <4>1. PostResponses(h, UNION {Announcement(h, B, p) : p \in go}, FALSE)
        BY <3>2 DEF Probed
      <4>3. go \subseteq Pairs(h)
        BY <2>2
      <4> HIDE DEF B, go
      <4>2. \A q \in UNION {Announcement(h, B, p) : p \in go} : q[2] \in Links
        BY <4>3, <2>1
      <4> QED
        BY <4>1, <4>2
    <3> QED
      BY <1>4, <3>1, <3>2
  <2>4. UNCHANGED net
    BY <1>4 DEF Probed, Announce
  <2> QED
    BY <2>3, <2>4, PostOK DEF NetOK, SchedOK
<1> QED
  BY <1>1, <1>2, <1>3, <1>4 DEF Timers

LEMMA ReceiveNet ==
    ASSUME NetOK, NEW h \in Hosts, Receive(h)
    PROVE  NetOK'
<1>1. net' \subseteq net
  BY DEF Receive
<1>2. SchedOK'
  <2>1. SchedOK
    BY DEF NetOK, SchedOK
  <2>2. CASE UNCHANGED sched
    BY <2>1, <2>2 DEF SchedOK
  <2>3. CASE \E P : (\A p \in P : p[2] \in Links) /\ PostResponses(h, P, FALSE)
    BY <2>1, <2>3, PostOK
  <2>4. CASE \E S : sched' = [sched EXCEPT ![h] = @ \ S]
    BY <2>1, <2>4 DEF SchedOK
  <2>5. PICK m \in net : IF ~up[h][m.link] THEN UNCHANGED <<grpVars, outVars>>
                         ELSE \/ m.kind = "probe" /\ ReceiveProbe(h, m)
                              \/ m.kind = "response" /\ ReceiveResponse(h, m) /\ UNCHANGED probes
    BY DEF Receive
  <2>6. m.link \in Links
    BY DEF NetOK
  <2>7. CASE ReceiveProbe(h, m)
    <3>1. \A p \in UNION {Matching(h, ann[h], q, m.link) : q \in m.recs} : p[2] \in Links
      BY <2>6, MatchingLink
    <3>2. PostResponses(h, UNION {Matching(h, ann[h], q, m.link) : q \in m.recs}, FALSE)
      BY <2>7 DEF ReceiveProbe
    <3> QED
      BY <2>3, <3>1, <3>2
  <2>8. CASE ReceiveResponse(h, m)
    BY <2>2, <2>3, <2>4, <2>6, <2>8, MatchingLink DEF ReceiveResponse, Refresh, Contest, Accept
  <2> QED
    BY <2>2, <2>5, <2>7, <2>8 DEF outVars
<1> QED
  BY <1>1, <1>2 DEF NetOK, SchedOK

LEMMA OtherNet ==
    ASSUME NetOK,
           \/ \E h \in Hosts : Client(h)
           \/ \E h \in Hosts, l \in Links : LinkDown(h, l) \/ LinkUp(h, l)
           \/ Lose \/ Tick \/ UNCHANGED vars
    PROVE  NetOK'
<1>1. net' \subseteq net
  BY DEF Client, ServerRunning, startServicePublish, stopServicePublish, LinkDown, LinkUp, Lose, Tick, vars
<1>2. SchedOK
  BY DEF NetOK, SchedOK
<1>3. ASSUME NEW h \in Hosts, stopServicePublish(h) PROVE NetOK'
  <2>1. \A p \in Pairs(h) : p[2] \in Links
    BY DEF Pairs
  <2> QED
    BY <2>1, <1>1, <1>2, <1>3, PostOK DEF stopServicePublish, NetOK, SchedOK
<1>4. ASSUME NEW h \in Hosts, NEW l \in Links, LinkDown(h, l) PROVE NetOK'
  BY <1>1, <1>2, <1>4 DEF LinkDown, NetOK, SchedOK
<1>5. CASE UNCHANGED sched
  BY <1>1, <1>2, <1>5 DEF NetOK, SchedOK
<1> QED
  BY <1>3, <1>4, <1>5 DEF Client, ServerRunning, startServicePublish, LinkUp, Lose, Tick, vars, outVars

(***************************************************************************)
(* The theorems                                                            *)
(***************************************************************************)
LEMMA PubInitOK == PubInit => IInv
<1> SUFFICES ASSUME PubInit PROVE IInv
  OBVIOUS
<1>1. GroupsOK
  <2>1. \A h \in Hosts : ann[h] = NoAnnouncers(h)
    BY DEF PubInit, NoAnnouncers
  <2> QED
    BY <2>1, NoGroupOK DEF PubInit, GroupsOK
<1>2. ClientOK /\ LinkOK
  BY CountAssumption DEF PubInit, ClientOK, LinkOK
<1>3. NetOK
  BY DEF PubInit, NetOK
<1> QED
  BY <1>1, <1>2, <1>3 DEF IInv, PubInv

LEMMA PubStep == IInv /\ [PubNext]_vars => IInv'
<1> SUFFICES ASSUME IInv, [PubNext]_vars PROVE IInv'
  OBVIOUS
<1>1. PubInv /\ NetOK
  BY DEF IInv
<1>2. ASSUME NEW h \in Hosts, Timers(h) PROVE IInv'
  BY <1>1, <1>2, TimersNet, SendProbesStep, SendOrLoseStep, ProbeStep, ProbedStep, AnnounceStep DEF Timers, IInv
<1>3. ASSUME NEW h \in Hosts, Client(h) PROVE IInv'
  BY <1>1, <1>3, OtherNet, ServerRunningStep, StartStep, StopStep DEF Client, IInv
<1>4. ASSUME NEW h \in Hosts, Receive(h) PROVE IInv'
  BY <1>1, <1>4, ReceiveNet, ReceiveStep DEF IInv
<1>5. ASSUME NEW h \in Hosts, NEW l \in Links, LinkDown(h, l) \/ LinkUp(h, l) PROVE IInv'
  BY <1>1, <1>5, OtherNet, LinkDownStep, LinkUpStep DEF IInv
<1>6. CASE Lose \/ Tick \/ UNCHANGED vars
  BY <1>1, <1>6, OtherNet, SendOrLoseStep, TickStep DEF IInv
<1> QED
  BY <1>2, <1>3, <1>4, <1>5, <1>6 DEF PubNext

LEMMA PubInvSafe == IInv => PublishingSafe
<1> SUFFICES ASSUME IInv PROVE PublishingSafe
  OBVIOUS
<1>1. \A h \in Hosts : GroupOK(h, group[h], n_probing[h], ann[h], flaps)
  BY DEF IInv, PubInv, GroupsOK
<1>2. flaps \in Nat /\ MaxFlaps \in Nat /\ flaps <= MaxFlaps
  BY CountAssumption DEF IInv, PubInv, LinkOK
<1>3. \A h \in Hosts : n_probing[h] \in 0..((MaxFlaps + 1) * Cardinality(Pairs(h)))
  <2>1. SUFFICES ASSUME NEW h \in Hosts
                 PROVE  n_probing[h] \in 0..((MaxFlaps + 1) * Cardinality(Pairs(h)))
    OBVIOUS
  <2> DEFINE K == Cardinality(Pairs(h))
  <2>2. K \in Nat /\ flaps * K \in Nat /\ MaxFlaps * K \in Nat /\ (MaxFlaps + 1) * K = MaxFlaps * K + K
    BY <1>2, PairsFinite, MoreFlaps
  <2>3. flaps * K <= MaxFlaps * K
    BY <1>2, <2>2, PairsFinite
  <2>4. n_probing[h] \in Nat /\ n_probing[h] <= Count(ann[h]) + flaps * K
    BY <1>1 DEF GroupOK, Counted
  <2>5. Count(ann[h]) \in Nat /\ Count(ann[h]) <= K
    BY <1>1, CountBound DEF GroupOK
  <2> HIDE DEF K
  <2>6. n_probing[h] <= (MaxFlaps + 1) * K /\ (MaxFlaps + 1) * K \in Nat
    BY <2>2, <2>3, <2>4, <2>5
  <2> QED
    BY <2>4, <2>6 DEF K
<1>4. PubTypeOK
  BY <1>1, <1>3 DEF PubTypeOK, IInv, PubInv, ClientOK, LinkOK, GroupsOK, GroupOK
<1>5. ProbingCounted
  BY <1>1 DEF ProbingCounted, GroupOK, Counted
<1>6. AnnouncedTogether
  BY <1>1 DEF AnnouncedTogether, GroupOK, Announced
<1> QED
  BY <1>4, <1>5, <1>6 DEF PublishingSafe

(***************************************************************************)
(* For any number of hosts, records and interfaces, and however often      *)
(* packets are lost and interfaces come and go: the probing counter of a   *)
(* group never falls below the number of its announcers that probe, so the *)
(* assertion of next_state holds, and nothing of a service is announced    *)
(* before all of its records have been probed for (announce.c).            *)
(***************************************************************************)
THEOREM PublishingCorrect == PubSpec => []PublishingSafe
<1>1. PubInit => IInv
  BY PubInitOK
<1>2. IInv /\ [PubNext]_vars => IInv'
  BY PubStep
<1>3. IInv => PublishingSafe
  BY PubInvSafe
<1> QED
  BY <1>1, <1>2, <1>3, PTL DEF PubSpec

(***************************************************************************)
(* One owner of a name                                                     *)
(*                                                                         *)
(* A record that is unique is tried for until it is owned. Age counts the  *)
(* ticks since it was first probed for; a record that is due has sent the  *)
(* probe of this tick.                                                     *)
(***************************************************************************)
Trying(A, r, l) == r.unique /\ A[<<r, l>>].st \in {"PROBING", "WAITING"}
Owning(A, r, l) == r.unique /\ A[<<r, l>>].st \in {"ANNOUNCING", "ESTABLISHED"}
Age(a) == a.n - 1 - a.due

\* A group that counts announcers that are gone never ends registering.
Live(h) == group[h] = "REGISTERING" => n_probing[h] = Count(ann[h])

\* An answer with r is scheduled, was sent long enough ago, is on its way to g;
\* q is going to be, or was, asked for, and h has still to hear it.
Job(S, r, l) == \E j \in S : j.rec = r /\ j.link = l /\ ~j.bye
Said(S, r, l, k) == \A j \in S : j.rec = r /\ j.link = l /\ ~j.bye => j.left <= k
Answered(N, g, r, l) ==
    \E m \in N : m.to = g /\ m.link = l /\ m.kind = "response" /\ m.recs = {r} /\ ~m.bye
Asked(P, N, h, q, l) ==
    <<q, l>> \in P \/ \E m \in N : m.to = h /\ m.link = l /\ m.kind = "probe" /\ q \in m.recs

(* While h tries for r, what it once said of r leaves the history.         *)
SelfOK(h, r, l) ==
    LET a == ann[h][<<r, l>>] IN
    Trying(ann[h], r, l) =>
       /\ a.n \in 1..ProbeEnd /\ a.due \in {0, 1} /\ (a.due = 1 => a.n >= 2)
       /\ a.st = "WAITING" => a.n = ProbeEnd /\ a.due = 0 /\ group[h] = "REGISTERING"
       /\ Job(sched[h], r, l) => Age(a) = 0
       /\ Said(sent[h], r, l, 2 - Age(a))

OnlyUp(h) ==
    /\ MaxFlaps = 0 => \A l \in Links : up[h][l]
    /\ \A p \in Pairs(h) : /\ ann[h][p].st # "none" => up[h][p[2]]
                           /\ ann[h][p].st = "PROBING" => p[1].unique

(* The records of a group that registers are probed for together.          *)
LockStep(h) ==
    group[h] = "REGISTERING" =>
        /\ n_probing[h] >= 1
        /\ Live(h) => /\ \A l \in Links : up[h][l]
                      /\ \A p, q \in Pairs(h) :
                            Trying(ann[h], p[1], p[2]) /\ Trying(ann[h], q[1], q[2]) =>
                                Age(ann[h][p]) = Age(ann[h][q])

MailOK ==
    /\ sent = [h \in Hosts |-> sent[h]]
    /\ \A h \in Hosts : /\ \A j \in sched[h] : j.rec \in Offer[h]
                        /\ \A j \in sent[h] : j.left \in {1, 2}
    /\ \A m \in net : \A q \in m.recs : \E k \in Hosts \ {m.to} : q \in Offer[k]

(* r of h and q of g, on l: not both are owned; if r is, g will hear of it *)
(* before it has probed three times; and if r is the lesser and both are   *)
(* tried for, h will hear of q before both have been probed for.           *)
RivalsOK(h, r, g, q, l) ==
    LET a == ann[h][<<r, l>>]
        b == ann[g][<<q, l>>]
    IN  /\ ~(Owning(ann[h], r, l) /\ Owning(ann[g], q, l))
        /\ Owning(ann[h], r, l) /\ Trying(ann[g], q, l) /\ Live(g) =>
              /\ Age(b) <= 2
              /\ \/ Job(sched[h], r, l) \/ Answered(net, g, r, l)
                 \/ /\ Said(sent[h], r, l, 2 - Age(b))
                    /\ b.due = 1 /\ Age(b) = 2 => Asked(probes[g], net, h, q, l)
        /\ r.data < q.data /\ Trying(ann[h], r, l) /\ Trying(ann[g], q, l) /\ Live(h) /\ Live(g) =>
              /\ Age(b) = 0 \/ Age(a) <= 1
              /\ b.due = 1 => Asked(probes[g], net, h, q, l) \/ Age(a) = 0

AllRivals ==
    \A h, g \in Hosts, l \in Links : \A r \in Offer[h], q \in Offer[g] :
        Rivals(h, r, g, q) => RivalsOK(h, r, g, q, l)

SelvesOK == \A h \in Hosts, l \in Links : \A r \in Offer[h] : SelfOK(h, r, l)

OwnInv ==
    /\ \A h \in Hosts : OnlyUp(h) /\ LockStep(h)
    /\ MailOK /\ SelvesOK /\ lost \in Nat /\ (lost = 0 => AllRivals)

(***************************************************************************)
(* What a step of host x may do to one of its unique records               *)
(***************************************************************************)
\* What was to be said of r still is, or every other host is being told.
Says(x, r, l) == Job(sched'[x], r, l) \/ \A g \in Hosts \ {x} : Answered(net', g, r, l)

Out(x, r, l) == ~Trying(ann'[x], r, l) /\ ~Owning(ann'[x], r, l)

Fresh(x, r, l) == /\ ~Owning(ann'[x], r, l)
                  /\ ann'[x][<<r, l>>] = [st |-> "PROBING", n |-> 1, due |-> 0]

\* While r is tried for, what was asked is still asked, and nothing is said of r.
TryMail(x, r, l) ==
    /\ Job(sched'[x], r, l) => Job(sched[x], r, l)
    /\ \A k : Said(sent[x], r, l, k) => Said(sent'[x], r, l, k) \/ Job(sched[x], r, l)
    /\ \A g \in Hosts \ {x} : Asked(probes[x], net, g, r, l) => Asked(probes'[x], net', g, r, l)
    /\ \A g \in Hosts \ {x} : \A q \in Offer[g] : Rivals(x, r, g, q) =>
          /\ Answered(net, x, q, l) => Answered(net', x, q, l)
          /\ r.data < q.data /\ Asked(probes[g], net, x, q, l) => Asked(probes[g], net', x, q, l)

StillTries(x, r, l) ==
    LET a == ann[x][<<r, l>>]
        b == ann'[x][<<r, l>>]
    IN  /\ Trying(ann[x], r, l) /\ Trying(ann'[x], r, l)
        /\ b.n = a.n /\ b.due = a.due
        /\ b.st = "WAITING" => /\ group'[x] = "REGISTERING"
                               /\ a.st = "WAITING" \/ (a.n = ProbeEnd /\ a.due = 0)
        /\ Live(x)' => Live(x)
        /\ TryMail(x, r, l)

\* While r is owned, who asks is answered.
OwnMail(x, r, l) ==
    /\ Job(sched[x], r, l) => Says(x, r, l)
    /\ \A k : Said(sent[x], r, l, k) => Said(sent'[x], r, l, k) \/ Says(x, r, l)
    /\ \A g \in Hosts \ {x} : \A q \in Offer[g] :
          Rivals(x, r, g, q) /\ Asked(probes[g], net, x, q, l) =>
              Asked(probes[g], net', x, q, l) \/ Says(x, r, l) \/ ~Said(sent[x], r, l, 0)
    /\ \A g \in Hosts \ {x} : Answered(net, g, r, l) => Answered(net', g, r, l)

StillOwns(x, r, l) == Owning(ann[x], r, l) /\ Owning(ann'[x], r, l) /\ OwnMail(x, r, l)

Asks(x, r, l) ==
    LET a == ann[x][<<r, l>>]
        b == ann'[x][<<r, l>>]
    IN  /\ a.st = "PROBING" /\ b.st = "PROBING" /\ r.unique
        /\ a.due = 0 /\ b.due = 1 /\ a.n < ProbeEnd /\ b.n = a.n + 1
        /\ <<r, l>> \in probes'[x] /\ net' = net
        /\ sched'[x] = sched[x] /\ sent'[x] = sent[x]
        /\ Live(x)' => Live(x)

Wins(x, r, l) ==
    LET a == ann[x][<<r, l>>] IN
    /\ Trying(ann[x], r, l) /\ Owning(ann'[x], r, l) /\ Live(x)
    /\ a.n = ProbeEnd /\ a.due = 0 /\ Job(sched'[x], r, l)

Moves(x, r, l) == \/ Out(x, r, l) \/ Fresh(x, r, l) \/ StillTries(x, r, l) \/ StillOwns(x, r, l)
                  \/ Asks(x, r, l) \/ Wins(x, r, l)

\* The others do nothing, and what is for them stays on the link.
OthersStay(x) ==
    /\ \A g \in Hosts \ {x} : /\ ann'[g] = ann[g] /\ group'[g] = group[g] /\ n_probing'[g] = n_probing[g]
                              /\ probes'[g] = probes[g] /\ sched'[g] = sched[g] /\ sent'[g] = sent[g]
                              /\ up'[g] = up[g]
    /\ \A m \in net : m.to # x => m \in net'

LEMMA NetOfOthers ==
    ASSUME NEW x \in Hosts, OthersStay(x), NEW g \in Hosts \ {x}, NEW P, NEW q, NEW l
    PROVE  /\ Answered(net, g, q, l) => Answered(net', g, q, l)
           /\ Asked(P, net, g, q, l) => Asked(P, net', g, q, l)
  BY DEF OthersStay, Answered, Asked

LEMMA AgeType ==
    ASSUME NEW h \in Hosts, NEW r \in Offer[h], NEW l \in Links, SelfOK(h, r, l), ProtocolAssumption,
           Trying(ann[h], r, l)
    PROVE  LET a == ann[h][<<r, l>>]
           IN  a.n \in Nat /\ a.due \in {0, 1} /\ Age(a) \in Nat /\ (a.due = 0 => Age(a) = a.n - 1)
  BY DEF SelfOK, Age, ProtocolAssumption

\* x is the host of the record that may be owned, or is the lesser.
LEMMA MoverDefends ==
    ASSUME ProtocolAssumption, SelvesOK, SelvesOK', MailOK', AllRivals,
           NEW x \in Hosts, NEW g \in Hosts, NEW r \in Offer[x], NEW q \in Offer[g], NEW l \in Links,
           Rivals(x, r, g, q), OthersStay(x), Moves(x, r, l)
    PROVE  RivalsOK(x, r, g, q, l)'
<1>1. RivalsOK(x, r, g, q, l) /\ RivalsOK(g, q, x, r, l) /\ Rivals(g, q, x, r) /\ g \in Hosts \ {x}
  BY DEF AllRivals, Rivals, SameKey
<1>2. /\ ann'[g] = ann[g] /\ group'[g] = group[g] /\ n_probing'[g] = n_probing[g]
      /\ probes'[g] = probes[g] /\ Live(g)' = Live(g)
  BY <1>1 DEF OthersStay, Live
<1>3. SelfOK(x, r, l) /\ SelfOK(g, q, l) /\ SelfOK(x, r, l)'
  BY DEF SelvesOK
<1>4. \A k : Answered(net, g, k, l) => Answered(net', g, k, l)
  BY <1>1, NetOfOthers
<1> DEFINE a == ann[x][<<r, l>>]
           b == ann[g][<<q, l>>]
           c == ann'[x][<<r, l>>]
<1>5. Trying(ann[g], q, l) => Age(b) \in Nat /\ b.due \in {0, 1}
  BY <1>3, AgeType
<1>6. Trying(ann[x], r, l) => Age(a) \in Nat /\ a.due \in {0, 1} /\ (a.due = 0 => Age(a) = a.n - 1)
  BY <1>3, AgeType
<1>7. ~(Owning(ann'[x], r, l) /\ Trying(ann'[x], r, l))
  BY DEF Owning, Trying
<1>11. CASE Out(x, r, l)
  BY <1>11 DEF Out, RivalsOK
<1>12. CASE Fresh(x, r, l)
  <2>1. Age(c) = 0
    BY <1>12 DEF Fresh, Age
  <2> QED
    BY <1>12, <2>1 DEF RivalsOK, Fresh
<1>13. CASE StillTries(x, r, l)
  <2>1. Age(c) = Age(a)
    BY <1>13 DEF StillTries, TryMail, Age
  <2>2. /\ Trying(ann[x], r, l) /\ ~Owning(ann'[x], r, l) /\ (Live(x)' => Live(x))
        /\ r.data < q.data /\ Asked(probes[g], net, x, q, l) => Asked(probes[g], net', x, q, l)
    BY <1>13, <1>7, <1>1 DEF StillTries, TryMail
  <2> QED
    BY <1>1, <1>2, <2>1, <2>2 DEF RivalsOK
<1>14. CASE StillOwns(x, r, l)
  <2>1. ~Owning(ann'[g], q, l)
    BY <1>1, <1>2, <1>14 DEF StillOwns, OwnMail, RivalsOK
  <2>2. ASSUME Trying(ann[g], q, l), Live(g)
        PROVE  /\ Age(b) <= 2
               /\ \/ Job(sched'[x], r, l) \/ Answered(net', g, r, l)
                  \/ /\ Said(sent'[x], r, l, 2 - Age(b))
                     /\ b.due = 1 /\ Age(b) = 2 => Asked(probes[g], net', x, q, l)
    <3>1. /\ Age(b) <= 2
          /\ \/ Job(sched[x], r, l) \/ Answered(net, g, r, l)
             \/ /\ Said(sent[x], r, l, 2 - Age(b))
                /\ b.due = 1 /\ Age(b) = 2 => Asked(probes[g], net, x, q, l)
      BY <1>1, <1>14, <2>2 DEF RivalsOK, StillOwns, OwnMail
    <3>2. Says(x, r, l) => Job(sched'[x], r, l) \/ Answered(net', g, r, l)
      BY <1>1 DEF Says
    <3>3. CASE Job(sched[x], r, l)
      BY <1>14, <3>1, <3>2, <3>3 DEF StillOwns, OwnMail
    <3>4. CASE Answered(net, g, r, l)
      BY <1>4, <3>1, <3>4
    <3>5. CASE /\ Said(sent[x], r, l, 2 - Age(b))
               /\ b.due = 1 /\ Age(b) = 2 => Asked(probes[g], net, x, q, l)
      <4>1. Said(sent'[x], r, l, 2 - Age(b)) \/ Says(x, r, l)
        BY <1>14, <3>5 DEF StillOwns, OwnMail
      <4>2. Asked(probes[g], net, x, q, l) =>
              Asked(probes[g], net', x, q, l) \/ Says(x, r, l) \/ ~Said(sent[x], r, l, 0)
        BY <1>1, <1>14 DEF StillOwns, OwnMail
      <4>3. Age(b) = 2 => Said(sent[x], r, l, 0)
        BY <3>5
      <4> QED
        BY <3>1, <3>2, <3>5, <4>1, <4>2, <4>3
    <3> QED
      BY <3>1, <3>3, <3>4, <3>5
  <2>3. ~Trying(ann'[x], r, l)
    BY <1>7, <1>14 DEF StillOwns, OwnMail
  <2> HIDE DEF b
  <2> QED
    BY <1>2, <2>1, <2>2, <2>3 DEF RivalsOK, b
<1>15. CASE Asks(x, r, l)
  <2>1. Age(c) = Age(a) /\ Trying(ann[x], r, l) /\ ~Owning(ann'[x], r, l) /\ (Live(x)' => Live(x)) /\ net' = net
    <3>1. Trying(ann[x], r, l)
      BY <1>15 DEF Asks, Trying
    <3> QED
      BY <1>6, <1>15, <3>1, <1>3 DEF Asks, Age, Owning, SelfOK
  <2> QED
    BY <1>1, <1>2, <2>1 DEF RivalsOK
<1>16. CASE Wins(x, r, l)
  <2>1. Age(a) = ProbeEnd - 1 /\ Trying(ann[x], r, l) /\ Live(x)
    BY <1>6, <1>16 DEF Wins
  <2>2. Age(a) \in Nat /\ Age(a) >= 3
    BY <1>6, <2>1, CountAssumption DEF ProtocolAssumption
  <2>3. Owning(ann[g], q, l) => Age(a) <= 2
    BY <1>1, <2>1 DEF RivalsOK
  <2>4. /\ r.data < q.data /\ Trying(ann[g], q, l) /\ Live(g) => Age(b) = 0 \/ Age(a) <= 1
        /\ q.data < r.data /\ Trying(ann[g], q, l) /\ Live(g) => Age(a) = 0 \/ Age(b) <= 1
    BY <1>1, <2>1 DEF RivalsOK
  <2>5. r.data < q.data \/ q.data < r.data
    <3>1. r.data \in Nat /\ q.data \in Nat /\ r.data # q.data
      BY <1>1, OfferAssumption DEF ProtocolAssumption, Distinct, Record, Rivals
    <3> QED
      BY <3>1
  <2>6. Job(sched'[x], r, l) /\ ~Trying(ann'[x], r, l)
    BY <1>16, <1>7 DEF Wins
  <2> HIDE DEF a, b
  <2>7. ~Owning(ann[g], q, l) /\ (Trying(ann[g], q, l) /\ Live(g) => Age(b) <= 2)
    BY <1>5, <2>2, <2>3, <2>4, <2>5
  <2> QED
    BY <1>2, <2>6, <2>7 DEF RivalsOK, b
<1> QED
  BY <1>11, <1>12, <1>13, <1>14, <1>15, <1>16 DEF Moves

\* x is the host that is answered, or has the greater record.
LEMMA MoverAttacks ==
    ASSUME ProtocolAssumption, SelvesOK, SelvesOK', MailOK', AllRivals,
           NEW x \in Hosts, NEW g \in Hosts, NEW r \in Offer[x], NEW q \in Offer[g], NEW l \in Links,
           Rivals(x, r, g, q), OthersStay(x), Moves(x, r, l)
    PROVE  RivalsOK(g, q, x, r, l)'
<1>1. RivalsOK(g, q, x, r, l) /\ RivalsOK(x, r, g, q, l) /\ g \in Hosts \ {x}
  BY DEF AllRivals, Rivals, SameKey
<1>2. /\ ann'[g] = ann[g] /\ group'[g] = group[g] /\ n_probing'[g] = n_probing[g]
      /\ sched'[g] = sched[g] /\ sent'[g] = sent[g] /\ Live(g)' = Live(g)
  BY <1>1 DEF OthersStay, Live
<1>3. SelfOK(x, r, l) /\ SelfOK(x, r, l)'
  BY DEF SelvesOK
<1> DEFINE a == ann[g][<<q, l>>]
           b == ann[x][<<r, l>>]
           c == ann'[x][<<r, l>>]
<1>6. Trying(ann[x], r, l) => Age(b) \in Nat /\ b.due \in {0, 1} /\ (b.due = 0 => Age(b) = b.n - 1)
  BY <1>3, AgeType
<1>7. ~(Owning(ann'[x], r, l) /\ Trying(ann'[x], r, l))
  BY DEF Owning, Trying
<1>11. CASE Out(x, r, l)
  BY <1>11 DEF Out, RivalsOK
<1>12. CASE Fresh(x, r, l)
  <2>1. Age(c) = 0 /\ c.due = 0
    BY <1>12 DEF Fresh, Age
  <2>2. \A j \in sent'[g] : j.left <= 2
    BY DEF MailOK
  <2>3. Said(sent'[g], q, l, 2 - Age(c))
    BY <2>1, <2>2 DEF Said
  <2> QED
    BY <1>12, <2>1, <2>3 DEF RivalsOK, Fresh
<1>13. CASE StillTries(x, r, l)
  <2>1. Age(c) = Age(b) /\ c.due = b.due
    BY <1>13 DEF StillTries, TryMail, Age
  <2>2. /\ Trying(ann[x], r, l) /\ ~Owning(ann'[x], r, l) /\ (Live(x)' => Live(x))
        /\ Asked(probes[x], net, g, r, l) => Asked(probes'[x], net', g, r, l)
        /\ Answered(net, x, q, l) => Answered(net', x, q, l)
    BY <1>13, <1>7, <1>1 DEF StillTries, TryMail
  <2> QED
    BY <1>1, <1>2, <2>1, <2>2 DEF RivalsOK
<1>14. CASE StillOwns(x, r, l)
  BY <1>1, <1>2, <1>7, <1>14 DEF StillOwns, OwnMail, RivalsOK
<1>15. CASE Asks(x, r, l)
  <2>1. Trying(ann[x], r, l) /\ ~Owning(ann'[x], r, l)
    BY <1>15 DEF Asks, Trying, Owning
  <2>2. Age(c) = Age(b) /\ (Live(x)' => Live(x)) /\ net' = net
    BY <1>6, <1>15, <2>1, <1>3 DEF Asks, Age, SelfOK
  <2>3. Asked(probes'[x], net', g, r, l)
    BY <1>15 DEF Asks, Asked
  <2> QED
    BY <1>1, <1>2, <2>1, <2>2, <2>3 DEF RivalsOK
<1>16. CASE Wins(x, r, l)
  <2>1. Age(b) = ProbeEnd - 1 /\ Trying(ann[x], r, l) /\ Live(x)
    BY <1>6, <1>16 DEF Wins
  <2>2. Age(b) \in Nat /\ Age(b) >= 3
    BY <1>6, <2>1, CountAssumption DEF ProtocolAssumption
  <2>3. Owning(ann[g], q, l) => Age(b) <= 2
    BY <1>1, <2>1 DEF RivalsOK
  <2>4. ~Owning(ann[g], q, l) /\ ~Trying(ann'[x], r, l)
    BY <1>7, <1>16, <2>2, <2>3 DEF Wins
  <2> QED
    BY <1>2, <2>4 DEF RivalsOK
<1> QED
  BY <1>11, <1>12, <1>13, <1>14, <1>15, <1>16 DEF Moves

(* The record keeps what is true of it alone.                              *)
LEMMA MoverSelf ==
    ASSUME ProtocolAssumption, MailOK', NEW x \in Hosts, NEW r \in Offer[x], NEW l \in Links,
           SelfOK(x, r, l), Moves(x, r, l)
    PROVE  SelfOK(x, r, l)'
<1> DEFINE a == ann[x][<<r, l>>]
           c == ann'[x][<<r, l>>]
<1>7. ~(Owning(ann'[x], r, l) /\ Trying(ann'[x], r, l))
  BY DEF Owning, Trying
<1>8. ProbeEnd \in Nat /\ ProbeEnd >= 4
  BY CountAssumption DEF ProtocolAssumption
<1>11. CASE Out(x, r, l) \/ StillOwns(x, r, l) \/ Wins(x, r, l)
  BY <1>7, <1>11 DEF Out, StillOwns, OwnMail, Wins, SelfOK
<1>12. CASE Fresh(x, r, l)
  <2>1. Age(c) = 0 /\ c.due = 0 /\ c.n = 1 /\ c.st = "PROBING"
    BY <1>12 DEF Fresh, Age
  <2>2. \A j \in sent'[x] : j.left <= 2
    BY DEF MailOK
  <2>3. Said(sent'[x], r, l, 2 - Age(c))
    BY <2>1, <2>2 DEF Said
  <2> QED
    BY <1>8, <2>1, <2>3 DEF SelfOK
<1>13. CASE StillTries(x, r, l)
  <2>1. Age(c) = Age(a) /\ c.n = a.n /\ c.due = a.due /\ Trying(ann[x], r, l)
    BY <1>13 DEF StillTries, TryMail, Age
  <2>2. /\ a.n \in 1..ProbeEnd /\ a.due \in {0, 1} /\ (a.due = 1 => a.n >= 2)
        /\ a.st = "WAITING" => a.n = ProbeEnd /\ a.due = 0 /\ group[x] = "REGISTERING"
        /\ Job(sched[x], r, l) => Age(a) = 0
        /\ Said(sent[x], r, l, 2 - Age(a))
    BY <2>1 DEF SelfOK
  <2>3. /\ c.st = "WAITING" => a.st = "WAITING" \/ (a.n = ProbeEnd /\ a.due = 0)
        /\ c.st = "WAITING" => group'[x] = "REGISTERING"
        /\ Job(sched'[x], r, l) => Job(sched[x], r, l)
        /\ Said(sent'[x], r, l, 2 - Age(a)) \/ Job(sched[x], r, l)
    BY <1>13, <2>2 DEF StillTries, TryMail
  <2>4. Said(sent'[x], r, l, 2 - Age(a))
    <3>1. CASE Job(sched[x], r, l)
      <4>1. Age(a) = 0
        BY <2>2, <3>1
      <4>2. \A j \in sent'[x] : j.left <= 2
        BY DEF MailOK
      <4> QED
        BY <4>1, <4>2 DEF Said
    <3> QED
      BY <2>3, <3>1
  <2> QED
    BY <2>1, <2>2, <2>3, <2>4 DEF SelfOK
<1>15. CASE Asks(x, r, l)
  <2>1. Trying(ann[x], r, l)
    BY <1>15 DEF Asks, Trying
  <2>2. /\ a.n \in 1..ProbeEnd
        /\ Job(sched[x], r, l) => Age(a) = 0
        /\ Said(sent[x], r, l, 2 - Age(a))
    BY <2>1 DEF SelfOK
  <2>3. a.due = 0 /\ c.due = 1 /\ a.n < ProbeEnd /\ c.n = a.n + 1 /\ c.st = "PROBING"
    BY <1>15 DEF Asks
  <2>4. c.n \in 1..ProbeEnd /\ c.n >= 2 /\ Age(c) = Age(a)
    BY <1>8, <2>2, <2>3 DEF Age
  <2>5. sched'[x] = sched[x] /\ sent'[x] = sent[x]
    BY <1>15 DEF Asks
  <2> QED
    BY <2>2, <2>3, <2>4, <2>5 DEF SelfOK
<1> QED
  BY <1>11, <1>12, <1>13, <1>15 DEF Moves

\* Two hosts of which neither acts.
LEMMA BystandersOK ==
    ASSUME AllRivals, NEW x \in Hosts, OthersStay(x),
           NEW h \in Hosts \ {x}, NEW g \in Hosts \ {x}, NEW r \in Offer[h], NEW q \in Offer[g],
           NEW l \in Links, Rivals(h, r, g, q)
    PROVE  RivalsOK(h, r, g, q, l)'
<1>1. RivalsOK(h, r, g, q, l)
  BY DEF AllRivals
<1>2. /\ ann'[h] = ann[h] /\ sched'[h] = sched[h] /\ sent'[h] = sent[h] /\ Live(h)' = Live(h)
      /\ ann'[g] = ann[g] /\ probes'[g] = probes[g] /\ Live(g)' = Live(g)
  BY DEF OthersStay, Live
<1>3. /\ Answered(net, g, r, l) => Answered(net', g, r, l)
      /\ Asked(probes[g], net, h, q, l) => Asked(probes[g], net', h, q, l)
  BY NetOfOthers
<1> QED
  BY <1>1, <1>2, <1>3 DEF RivalsOK

\* Whatever host x does, it moves each of its unique records.
AllMove(x) == \A r \in Offer[x], l \in Links : r.unique => Moves(x, r, l)

LEMMA MoverStep ==
    ASSUME ProtocolAssumption, SelvesOK, MailOK', NEW x \in Hosts, OthersStay(x), AllMove(x)
    PROVE  SelvesOK' /\ (AllRivals => AllRivals')
<1>1. ASSUME NEW h \in Hosts, NEW l \in Links, NEW r \in Offer[h] PROVE SelfOK(h, r, l)'
  <2>1. SelfOK(h, r, l)
    BY DEF SelvesOK
  <2>2. CASE ~r.unique
    BY <2>2 DEF SelfOK, Trying
  <2>3. CASE h # x
    <3>1. /\ ann'[h] = ann[h] /\ group'[h] = group[h] /\ sched'[h] = sched[h] /\ sent'[h] = sent[h]
      BY <2>3 DEF OthersStay
    <3> QED
      BY <2>1, <3>1 DEF SelfOK
  <2>4. CASE h = x /\ r.unique
    BY <2>1, <2>4, MoverSelf DEF AllMove
  <2> QED
    BY <2>2, <2>3, <2>4
<1>2. SelvesOK'
  BY <1>1 DEF SelvesOK
<1>3. ASSUME AllRivals, NEW h \in Hosts, NEW g \in Hosts, NEW l \in Links,
             NEW r \in Offer[h], NEW q \in Offer[g], Rivals(h, r, g, q)
      PROVE  RivalsOK(h, r, g, q, l)'
  <2>1. CASE h = x
    <3>1. Moves(x, r, l)
      BY <1>3, <2>1 DEF AllMove, Rivals
    <3> QED
      BY <1>2, <1>3, <2>1, <3>1, MoverDefends
  <2>2. CASE g = x
    <3>1. Moves(x, q, l) /\ Rivals(g, q, h, r)
      BY <1>3, <2>2 DEF AllMove, Rivals, SameKey
    <3> QED
      BY <1>2, <1>3, <2>2, <3>1, MoverAttacks
  <2>3. CASE h # x /\ g # x
    BY <1>3, <2>3, BystandersOK
  <2> QED
    BY <2>1, <2>2, <2>3
<1>4. AllRivals => AllRivals'
  BY <1>3 DEF AllRivals, Rivals, SameKey
<1> QED
  BY <1>2, <1>4

(***************************************************************************)
(* A step of one host                                                      *)
(***************************************************************************)
\* The others keep what is theirs, and x moves each of its records, as long as
\* its group and its interfaces stay in order.
LEMMA HostStep ==
    ASSUME ProtocolAssumption, OwnInv, MailOK', lost' = lost, NEW x \in Hosts, OthersStay(x), AllMove(x),
           OnlyUp(x)', LockStep(x)'
    PROVE  OwnInv'
<1>1. SelvesOK' /\ (AllRivals => AllRivals')
  BY MoverStep DEF OwnInv
<1>2. ASSUME NEW h \in Hosts \ {x} PROVE OnlyUp(h)' /\ LockStep(h)'
  <2>1. OnlyUp(h) /\ LockStep(h)
    BY DEF OwnInv
  <2>2. /\ ann'[h] = ann[h] /\ group'[h] = group[h] /\ n_probing'[h] = n_probing[h] /\ up'[h] = up[h]
        /\ Live(h)' = Live(h)
    BY DEF OthersStay, Live
  <2> QED
    BY <2>1, <2>2 DEF OnlyUp, LockStep
<1> QED
  BY <1>1, <1>2 DEF OwnInv

\* A record that is left as it is, and that is heard of as before.
LEMMA Stays ==
    ASSUME NEW x \in Hosts, NEW r \in Offer[x], NEW l \in Links, r.unique,
           ann'[x][<<r, l>>] = ann[x][<<r, l>>],
           ann[x][<<r, l>>].st = "WAITING" => group'[x] = "REGISTERING",
           Live(x)' => Live(x),
           Trying(ann[x], r, l) => TryMail(x, r, l), Owning(ann[x], r, l) => OwnMail(x, r, l)
    PROVE  Moves(x, r, l)
<1>1. (Trying(ann'[x], r, l) <=> Trying(ann[x], r, l)) /\ (Owning(ann'[x], r, l) <=> Owning(ann[x], r, l))
  BY DEF Trying, Owning
<1>2. CASE Trying(ann[x], r, l)
  BY <1>1, <1>2 DEF Moves, StillTries
<1>3. CASE Owning(ann[x], r, l)
  BY <1>1, <1>3 DEF Moves, StillOwns
<1>4. CASE ~Trying(ann[x], r, l) /\ ~Owning(ann[x], r, l)
  BY <1>1, <1>4 DEF Moves, Out
<1> QED
  BY <1>2, <1>3, <1>4

\* A host whose group stays as it is keeps in step.
LEMMA GroupStays ==
    ASSUME NEW x \in Hosts, ann'[x] = ann[x], group'[x] = group[x], n_probing'[x] = n_probing[x],
           up'[x] = up[x], OnlyUp(x), LockStep(x)
    PROVE  OnlyUp(x)' /\ LockStep(x)' /\ Live(x)' = Live(x)
<1>1. Live(x)' = Live(x)
  BY DEF Live
<1> QED
  BY <1>1 DEF OnlyUp, LockStep

\* Who tries or owns has an interface that is up, and waits in a group that registers.
LEMMA ActiveUp ==
    ASSUME NEW x \in Hosts, NEW r \in Offer[x], NEW l \in Links, OnlyUp(x), SelfOK(x, r, l),
           Trying(ann[x], r, l) \/ Owning(ann[x], r, l)
    PROVE  up[x][l] /\ (ann[x][<<r, l>>].st = "WAITING" => group[x] = "REGISTERING")
<1>1. <<r, l>> \in Pairs(x) /\ ann[x][<<r, l>>].st # "none"
  BY DEF Pairs, Trying, Owning
<1>2. up[x][<<r, l>>[2]]
  BY <1>1 DEF OnlyUp
<1>3. up[x][l]
  BY <1>2
<1>4. r.unique
  BY DEF Trying, Owning
<1> QED
  BY <1>3, <1>4 DEF SelfOK, Trying, Owning

\* Another host's record is not ours, as it says something else of the name.
LEMMA NotOurs ==
    ASSUME ProtocolAssumption, NEW x \in Hosts, NEW k \in Hosts \ {x}, NEW q \in Offer[k], q.unique
    PROVE  q \notin Offer[x]
<1> SUFFICES ASSUME q \in Offer[x] PROVE FALSE
  OBVIOUS
<1>1. Rivals(x, q, k, q)
  BY DEF Rivals, SameKey
<1> QED
  BY <1>1 DEF ProtocolAssumption, Distinct

(***************************************************************************)
(* Answers and announcements                                               *)
(***************************************************************************)
Sends == sched = [h \in Hosts |-> sched[h]] /\ sent = [h \in Hosts |-> sent[h]]

LEMMA PostJobs ==
    ASSUME Sends, NEW x \in Hosts, NEW P, \A p \in P : p = <<p[1], p[2]>>, PostResponses(x, P, FALSE),
           NEW r, NEW l
    PROVE  /\ Job(sched[x], r, l) => Job(sched'[x], r, l)
           /\ <<r, l>> \notin P /\ Job(sched'[x], r, l) => Job(sched[x], r, l)
           /\ <<r, l>> \in P /\ up[x][l] => Job(sched'[x], r, l) \/ InHistory(sent[x], r, l, FALSE)
           /\ \A k : Said(sent[x], r, l, k) => Said(sent'[x], r, l, k)
<1> DEFINE new == {p \in P : up[x][p[2]] /\ ~InHistory(sent[x], p[1], p[2], FALSE)}
           Rest(S) == {j \in S : <<j.rec, j.link>> \notin new}
           more == {[rec |-> p[1], link |-> p[2], bye |-> FALSE] : p \in new}
<1>1. sched'[x] = Rest(sched[x]) \cup more /\ sent'[x] = Rest(sent[x])
  BY DEF PostResponses, Sends
<1>2. <<r, l>> \in new => Job(more, r, l)
  <2> SUFFICES ASSUME <<r, l>> \in new PROVE Job(more, r, l)
    OBVIOUS
  <2>1. [rec |-> r, link |-> l, bye |-> FALSE] \in more
    OBVIOUS
  <2> HIDE DEF more
  <2> QED
    BY <2>1 DEF Job
<1>3. Job(more, r, l) => <<r, l>> \in P
  <2> SUFFICES ASSUME Job(more, r, l) PROVE <<r, l>> \in P
    OBVIOUS
  <2>1. PICK j \in more : j.rec = r /\ j.link = l
    BY DEF Job
  <2>2. PICK p \in new : j = [rec |-> p[1], link |-> p[2], bye |-> FALSE]
    OBVIOUS
  <2>3. p[1] = r /\ p[2] = l
    BY <2>1, <2>2
  <2>4. p \in P /\ p = <<p[1], p[2]>>
    OBVIOUS
  <2> QED
    BY <2>3, <2>4
<1>4. Job(sched[x], r, l) => Job(Rest(sched[x]), r, l) \/ <<r, l>> \in new
  BY DEF Job
<1>5. Job(Rest(sched[x]), r, l) => Job(sched[x], r, l)
  BY DEF Job
<1>6. Job(sched'[x], r, l) <=> Job(Rest(sched[x]), r, l) \/ Job(more, r, l)
  <2> HIDE DEF Rest, more
  <2> QED
    BY <1>1 DEF Job
<1>7. <<r, l>> \in P /\ up[x][l] /\ ~InHistory(sent[x], r, l, FALSE) => <<r, l>> \in new
  OBVIOUS
<1>8. \A k : Said(sent[x], r, l, k) => Said(sent'[x], r, l, k)
  BY <1>1 DEF Said
<1> HIDE DEF Rest, more, new
<1> QED
  BY <1>2, <1>3, <1>4, <1>5, <1>6, <1>7, <1>8

\* What posting leaves in place of the others.
LEMMA PostSets ==
    ASSUME Sends, NEW x \in Hosts, NEW P, \A p \in P : p = <<p[1], p[2]>>, NEW bye, PostResponses(x, P, bye)
    PROVE  /\ \A g \in Hosts \ {x} : sched'[g] = sched[g] /\ sent'[g] = sent[g]
           /\ sent' = [h \in Hosts |-> sent'[h]] /\ sent'[x] \subseteq sent[x]
           /\ \A j \in sched'[x] : j \in sched[x] \/ <<j.rec, j.link>> \in P
<1> DEFINE new == {p \in P : up[x][p[2]] /\ ~InHistory(sent[x], p[1], p[2], bye)}
           Rest(S) == {j \in S : <<j.rec, j.link>> \notin new}
           more == {[rec |-> p[1], link |-> p[2], bye |-> bye] : p \in new}
<1>1. /\ sched' = [sched EXCEPT ![x] = Rest(sched[x]) \cup more]
      /\ sent' = [sent EXCEPT ![x] = Rest(sent[x])]
  BY DEF PostResponses
<1>2. \A j \in more : <<j.rec, j.link>> \in P
  OBVIOUS
<1>3. Rest(sched[x]) \subseteq sched[x] /\ Rest(sent[x]) \subseteq sent[x]
  OBVIOUS
<1> HIDE DEF Rest, more
<1> QED
  BY <1>1, <1>2, <1>3 DEF Sends

\* A host that takes nothing from the link hears of its records as before,
LEMMA QuietMail ==
    ASSUME NEW x \in Hosts, net \subseteq net', probes[x] \subseteq probes'[x],
           sched'[x] = sched[x], sent'[x] = sent[x], NEW r \in Offer[x], NEW l \in Links
    PROVE  TryMail(x, r, l) /\ OwnMail(x, r, l)
<1>1. \A g, q : Answered(net, g, q, l) => Answered(net', g, q, l)
  BY DEF Answered
<1>2. \A P, g, q : Asked(P, net, g, q, l) => Asked(P, net', g, q, l)
  BY DEF Asked
<1>3. \A N, g, q : Asked(probes[x], N, g, q, l) => Asked(probes'[x], N, g, q, l)
  BY DEF Asked
<1> QED
  BY <1>1, <1>2, <1>3 DEF TryMail, OwnMail, Says

\* and also one that says of others.
LEMMA PostMail ==
    ASSUME Sends, NEW x \in Hosts, net \subseteq net', probes[x] \subseteq probes'[x],
           NEW P, \A p \in P : p = <<p[1], p[2]>>, PostResponses(x, P, FALSE),
           NEW r \in Offer[x], NEW l \in Links
    PROVE  (<<r, l>> \notin P => TryMail(x, r, l)) /\ OwnMail(x, r, l)
<1>1. \A g, q : Answered(net, g, q, l) => Answered(net', g, q, l)
  BY DEF Answered
<1>2. \A Q, g, q : Asked(Q, net, g, q, l) => Asked(Q, net', g, q, l)
  BY DEF Asked
<1>3. \A N, g, q : Asked(probes[x], N, g, q, l) => Asked(probes'[x], N, g, q, l)
  BY DEF Asked
<1>4. /\ Job(sched[x], r, l) => Job(sched'[x], r, l)
      /\ <<r, l>> \notin P /\ Job(sched'[x], r, l) => Job(sched[x], r, l)
      /\ \A k : Said(sent[x], r, l, k) => Said(sent'[x], r, l, k)
  BY PostJobs
<1>5. <<r, l>> \notin P => TryMail(x, r, l)
  BY <1>1, <1>2, <1>3, <1>4 DEF TryMail
<1>6. OwnMail(x, r, l)
  BY <1>1, <1>2, <1>4 DEF OwnMail, Says
<1> QED
  BY <1>5, <1>6

\* The parts of the invariants about functions.
LEMMA Functions ==
    ASSUME IInv, OwnInv
    PROVE  /\ Sends /\ probes = [h \in Hosts |-> probes[h]] /\ up \in [Hosts -> [Links -> BOOLEAN]]
           /\ group = [h \in Hosts |-> group[h]] /\ n_probing = [h \in Hosts |-> n_probing[h]]
           /\ ann = [h \in Hosts |-> ann[h]]
  BY DEF IInv, PubInv, NetOK, GroupsOK, LinkOK, OwnInv, MailOK, Sends

\* What x holds of its records, while it is in order.
LEMMA HostFacts ==
    ASSUME OwnInv, NEW x \in Hosts
    PROVE  /\ OnlyUp(x) /\ LockStep(x) /\ MailOK
           /\ \A r \in Offer[x], l \in Links : SelfOK(x, r, l)
           /\ \A r \in Offer[x], l \in Links : Trying(ann[x], r, l) \/ Owning(ann[x], r, l) =>
                 up[x][l] /\ (ann[x][<<r, l>>].st = "WAITING" => group[x] = "REGISTERING")
<1>1. /\ OnlyUp(x) /\ LockStep(x) /\ MailOK
      /\ \A r \in Offer[x], l \in Links : SelfOK(x, r, l)
  BY DEF OwnInv, SelvesOK
<1> QED
  BY <1>1, ActiveUp

\* Every announcer stays as it is: what is left to show is what is heard of it.
LEMMA SameGroup ==
    ASSUME ProtocolAssumption, OwnInv, MailOK', lost' = lost, NEW x \in Hosts, OthersStay(x),
           ann'[x] = ann[x], group'[x] = group[x], n_probing'[x] = n_probing[x], up'[x] = up[x],
           \A r \in Offer[x], l \in Links :
              /\ Trying(ann[x], r, l) => TryMail(x, r, l)
              /\ Owning(ann[x], r, l) => OwnMail(x, r, l)
    PROVE  OwnInv'
<1>1. OnlyUp(x)' /\ LockStep(x)' /\ Live(x)' = Live(x)
  BY HostFacts, GroupStays
<1>2. ASSUME NEW r \in Offer[x], NEW l \in Links, r.unique PROVE Moves(x, r, l)
  <2>1. Trying(ann[x], r, l) => (ann[x][<<r, l>>].st = "WAITING" => group'[x] = "REGISTERING")
    BY HostFacts
  <2>2. ann[x][<<r, l>>].st = "WAITING" => Trying(ann[x], r, l)
    BY <1>2 DEF Trying
  <2> QED
    BY <1>1, <1>2, <2>1, <2>2, Stays
<1> QED
  BY <1>1, <1>2, HostStep DEF AllMove

(***************************************************************************)
(* The timers                                                              *)
(***************************************************************************)
\* What a host sends is its own, and is for the others.
LEMMA PacketOf ==
    ASSUME NEW x \in Hosts, NEW l, NEW kind, NEW recs, recs \subseteq Offer[x], NEW bye
    PROVE  \A m \in Packet(x, l, kind, recs, bye) : \A q \in m.recs : \E k \in Hosts \ {m.to} : q \in Offer[k]
<1> SUFFICES ASSUME NEW g \in Hosts \ {x}, NEW q \in recs PROVE \E k \in Hosts \ {g} : q \in Offer[k]
  BY DEF Packet
<1> QED
  OBVIOUS

LEMMA SendProbesOwn ==
    ASSUME ProtocolAssumption, IInv, OwnInv, NEW x \in Hosts, SendProbes(x)
    PROVE  OwnInv'
<1>1. PICK l \in Links, S \in SUBSET Offer[x] :
        /\ probes' = [probes EXCEPT ![x] = @ \ (S \X {l})]
        /\ net' = IF up[x][l] THEN net \cup Packet(x, l, "probe", S, FALSE) ELSE net
  BY DEF SendProbes
<1>2. UNCHANGED <<grpVars, up, sched, sent, lost>>
  BY DEF SendProbes, bounds
<1>3. net \subseteq net' /\ net' \subseteq net \cup Packet(x, l, "probe", S, FALSE)
  BY <1>1
<1>4. MailOK'
  <2>1. \A m \in Packet(x, l, "probe", S, FALSE) : \A q \in m.recs : \E k \in Hosts \ {m.to} : q \in Offer[k]
    BY PacketOf
  <2> QED
    BY <1>2, <1>3, <2>1 DEF OwnInv, MailOK
<1>5. OthersStay(x)
  BY <1>1, <1>2, <1>3, Functions DEF OthersStay, grpVars
<1>6. ASSUME NEW r \in Offer[x], NEW k \in Links
      PROVE  OwnMail(x, r, k) /\ (Trying(ann[x], r, k) => TryMail(x, r, k))
  <2>1. \A g, q : Answered(net, g, q, k) => Answered(net', g, q, k)
    BY <1>3 DEF Answered
  <2>2. \A P, g, q : Asked(P, net, g, q, k) => Asked(P, net', g, q, k)
    BY <1>3 DEF Asked
  <2>3. OwnMail(x, r, k)
    BY <1>2, <2>1, <2>2 DEF OwnMail, Says
  <2>4. ASSUME Trying(ann[x], r, k), NEW g \in Hosts \ {x}, Asked(probes[x], net, g, r, k)
        PROVE  Asked(probes'[x], net', g, r, k)
    <3>1. CASE r \in S /\ k = l
      <4>1. up[x][l]
        BY <2>4, <3>1, HostFacts
      <4>2. [to |-> g, link |-> l, kind |-> "probe", recs |-> S, bye |-> FALSE] \in net'
        BY <1>1, <4>1 DEF Packet
      <4> QED
        BY <3>1, <4>2 DEF Asked
    <3>2. CASE ~(r \in S /\ k = l)
      <4>1. probes'[x] = probes[x] \ (S \X {l})
        BY <1>1, Functions
      <4>2. <<r, k>> \in probes[x] => <<r, k>> \in probes'[x]
        BY <3>2, <4>1
      <4>3. Asked(probes[x], net', g, r, k)
        BY <2>2, <2>4
      <4> QED
        BY <4>2, <4>3 DEF Asked
    <3> QED
      BY <3>1, <3>2
  <2> QED
    BY <1>2, <2>1, <2>2, <2>3, <2>4 DEF TryMail
<1> QED
  BY <1>2, <1>4, <1>5, <1>6, SameGroup DEF grpVars

LEMMA SendResponseOwn ==
    ASSUME ProtocolAssumption, IInv, OwnInv, NEW x \in Hosts, SendResponse(x)
    PROVE  OwnInv'
<1> DEFINE new(j) == [rec |-> j.rec, link |-> j.link, bye |-> j.bye, left |-> 2]
<1>1. PICK j \in sched[x] :
        /\ sched' = [sched EXCEPT ![x] = @ \ {j}]
        /\ sent' = [sent EXCEPT ![x] = Others(@, j.rec, j.link) \cup {new(j)}]
        /\ net' = IF up[x][j.link] THEN net \cup Packet(x, j.link, "response", {j.rec}, j.bye) ELSE net
  BY DEF SendResponse
<1>2. UNCHANGED <<grpVars, up, probes, lost>>
  BY DEF SendResponse, bounds
<1>3. net \subseteq net' /\ net' \subseteq net \cup Packet(x, j.link, "response", {j.rec}, j.bye)
  BY <1>1
<1>4. j.rec \in Offer[x] /\ sched'[x] = sched[x] \ {j} /\ sent'[x] = Others(sent[x], j.rec, j.link) \cup {new(j)}
  BY <1>1, Functions DEF OwnInv, MailOK, Sends
<1>5. MailOK'
  <2>1. \A m \in Packet(x, j.link, "response", {j.rec}, j.bye) :
           \A q \in m.recs : \E k \in Hosts \ {m.to} : q \in Offer[k]
    BY <1>4, PacketOf
  <2>2. \A m \in net' : \A q \in m.recs : \E k \in Hosts \ {m.to} : q \in Offer[k]
    BY <1>3, <2>1 DEF OwnInv, MailOK
  <2>3. \A i \in sent'[x] : i.left \in {1, 2}
    BY <1>4 DEF OwnInv, MailOK, Others
  <2>4. sent' = [h \in Hosts |-> sent'[h]] /\ \A h \in Hosts \ {x} : sent'[h] = sent[h] /\ sched'[h] = sched[h]
    BY <1>1, Functions DEF Sends
  <2> QED
    BY <1>4, <2>2, <2>3, <2>4 DEF OwnInv, MailOK
<1>6. OthersStay(x)
  BY <1>1, <1>2, <1>3, Functions DEF OthersStay, grpVars, Sends
<1>7. ASSUME NEW r \in Offer[x], NEW k \in Links
      PROVE  /\ Owning(ann[x], r, k) => OwnMail(x, r, k)
             /\ Trying(ann[x], r, k) => TryMail(x, r, k)
  <2>1. \A g, q : Answered(net, g, q, k) => Answered(net', g, q, k)
    BY <1>3 DEF Answered
  <2>2. \A P, g, q : Asked(P, net, g, q, k) => Asked(P, net', g, q, k)
    BY <1>3 DEF Asked
  <2>3. Job(sched'[x], r, k) => Job(sched[x], r, k)
    BY <1>4 DEF Job
  <2>4. CASE j.rec = r /\ j.link = k /\ ~j.bye
    <3>1. Job(sched[x], r, k)
      BY <2>4 DEF Job
    <3>2. TryMail(x, r, k)
      BY <1>2, <2>1, <2>2, <2>3, <3>1 DEF TryMail
    <3>3. Owning(ann[x], r, k) => Says(x, r, k)
      <4> SUFFICES ASSUME Owning(ann[x], r, k), NEW g \in Hosts \ {x} PROVE Answered(net', g, r, k)
        BY DEF Says
      <4>1. up[x][k]
        BY HostFacts
      <4>2. [to |-> g, link |-> k, kind |-> "response", recs |-> {r}, bye |-> j.bye] \in net'
        BY <1>1, <2>4, <4>1 DEF Packet
      <4> QED
        BY <2>4, <4>2 DEF Answered
    <3>4. Owning(ann[x], r, k) => OwnMail(x, r, k)
      BY <2>1, <2>2, <3>3 DEF OwnMail
    <3> QED
      BY <3>2, <3>4
  <2>5. CASE ~(j.rec = r /\ j.link = k /\ ~j.bye)
    <3>1. Job(sched[x], r, k) => Job(sched'[x], r, k)
      BY <1>4, <2>5 DEF Job
    <3>2. \A n : Said(sent[x], r, k, n) => Said(sent'[x], r, k, n)
      BY <1>4, <2>5 DEF Said, Others
    <3>3. TryMail(x, r, k)
      BY <1>2, <2>1, <2>2, <2>3, <3>2 DEF TryMail
    <3>4. OwnMail(x, r, k)
      BY <2>1, <2>2, <3>1, <3>2 DEF OwnMail, Says
    <3> QED
      BY <3>3, <3>4
  <2> QED
    BY <2>4, <2>5
<1> QED
  BY <1>2, <1>5, <1>6, <1>7, SameGroup DEF grpVars

LEMMA ProbeOwn ==
    ASSUME ProtocolAssumption, IInv, OwnInv, NEW x \in Hosts, NEW r0 \in Offer[x], NEW l0 \in Links,
           Probe(x, r0, l0)
    PROVE  OwnInv'
<1> DEFINE p0 == <<r0, l0>>
           a0 == ann[x][p0]
           A == [ann[x] EXCEPT ![p0] = [st |-> "PROBING", n |-> a0.n + 1, due |-> 1]]
<1>1. p0 \in Pairs(x) /\ a0.st = "PROBING" /\ a0.due = 0 /\ a0.n < ProbeEnd
  BY DEF Probe, Pairs
<1>2. UNCHANGED <<group, n_probing, up, sched, sent, net, lost>> /\ PostProbe(x, r0, l0)
  BY DEF Probe, bounds
<1>3. ann[x] \in Announcers(x) /\ a0.n \in Nat
  BY <1>1, GroupOfAnnouncer DEF IInv, PubInv
<1>4. ann'[x] = A /\ \A g \in Hosts \ {x} : ann'[g] = ann[g]
  BY Functions DEF Probe
<1>5. A[p0] = [st |-> "PROBING", n |-> a0.n + 1, due |-> 1] /\ \A p \in Pairs(x) : p # p0 => A[p] = ann[x][p]
  BY <1>1, <1>3 DEF Announcers
<1>6. r0.unique /\ up[x][l0] /\ Trying(ann[x], r0, l0) /\ Trying(A, r0, l0)
  <2>1. p0[1] = r0 /\ p0[2] = l0
    OBVIOUS
  <2>2. r0.unique /\ up[x][l0]
    BY <1>1, <2>1, HostFacts DEF OnlyUp
  <2> QED
    BY <1>1, <1>5, <2>2 DEF Trying
<1>7. /\ probes'[x] = probes[x] \cup {p0} /\ \A g \in Hosts \ {x} : probes'[g] = probes[g]
  BY <1>2, <1>6, Functions DEF PostProbe
<1>8. Age(A[p0]) = Age(a0)
  BY <1>1, <1>3, <1>5 DEF Age
<1>9. Live(x)' = Live(x)
  <2>1. A \in Announcers(x) /\ ProbingIn(A) = ProbingIn(ann[x])
    <3>1. a0.n + 1 \in Nat
      BY <1>3
    <3>2. A \in Announcers(x)
      BY <1>1, <1>3, <3>1 DEF Announcers, AnnStates
    <3>3. \A p \in Pairs(x) : A[p].st = ann[x][p].st
      BY <1>1, <1>5
    <3> QED
      BY <1>3, <3>2, <3>3 DEF Announcers, ProbingIn
  <2>2. Count(A) = Count(ann[x])
    BY <1>3, <2>1, CountSame
  <2> QED
    BY <1>2, <1>4, <2>2 DEF Live
<1> HIDE DEF A
<1>10. MailOK'
  BY <1>2 DEF OwnInv, MailOK
<1>11. OthersStay(x)
  BY <1>2, <1>4, <1>7 DEF OthersStay
<1>12. OnlyUp(x)'
  BY <1>1, <1>2, <1>4, <1>5, <1>6, HostFacts DEF OnlyUp
<1>13. LockStep(x)'
  <2>1. \A p \in Pairs(x) : Age(A[p]) = Age(ann[x][p]) /\ (Trying(A, p[1], p[2]) => Trying(ann[x], p[1], p[2]))
    <3>1. SUFFICES ASSUME NEW p \in Pairs(x)
                   PROVE  /\ Age(A[p]) = Age(ann[x][p])
                          /\ Trying(A, p[1], p[2]) => Trying(ann[x], p[1], p[2])
      OBVIOUS
    <3>2. p = <<p[1], p[2]>>
      BY DEF Pairs
    <3> QED
      BY <1>1, <1>5, <1>8, <3>2 DEF Trying
  <2> QED
    BY <1>2, <1>4, <1>9, <2>1, HostFacts DEF LockStep
<1>14. ASSUME NEW r \in Offer[x], NEW l \in Links, r.unique PROVE Moves(x, r, l)
  <2>1. CASE <<r, l>> = p0
    <3>1. Asks(x, r0, l0)
      BY <1>1, <1>2, <1>4, <1>5, <1>6, <1>7, <1>9 DEF Asks
    <3> QED
      BY <2>1, <3>1 DEF Moves
  <2>2. CASE <<r, l>> # p0
    <3>1. <<r, l>> \in Pairs(x)
      BY DEF Pairs
    <3>2. ann'[x][<<r, l>>] = ann[x][<<r, l>>]
      BY <1>4, <1>5, <2>2, <3>1
    <3>3. TryMail(x, r, l) /\ OwnMail(x, r, l)
      BY <1>2, <1>7, QuietMail
    <3>4. ann[x][<<r, l>>].st = "WAITING" => group'[x] = "REGISTERING"
      BY <1>2, <1>14, HostFacts DEF Trying
    <3> QED
      BY <1>9, <1>14, <3>2, <3>3, <3>4, Stays
  <2> QED
    BY <2>1, <2>2
<1> QED
  BY <1>2, <1>10, <1>11, <1>12, <1>13, <1>14, HostStep DEF AllMove

\* A packet announces what is owned: nothing that is tried for.
LEMMA AnnouncesOwned ==
    ASSUME NEW x \in Hosts, NEW A \in Announcers(x), NEW p \in Pairs(x), Announced(A, p)
    PROVE  /\ \A q \in Announcement(x, A, p) : q \in Pairs(x) /\ q = <<q[1], q[2]>> /\ ~Trying(A, q[1], q[2])
           /\ p[1].unique => p \in Announcement(x, A, p)
<1>1. p[1] \in Offer[x] /\ p[2] \in Links /\ p = <<p[1], p[2]>> /\ ~Trying(A, p[1], p[2]) /\ IsRegistered(A, p[1], p[2])
  BY DEF Pairs, Announced, Trying, IsRegistered
<1>2. \A q \in Offer[x] : IsRegistered(A, q, p[2]) => ~Trying(A, q, p[2])
  BY DEF IsRegistered, Trying
<1>3. \A q \in Matching(x, A, p[1], p[2]) : q \in Pairs(x) /\ q = <<q[1], q[2]>> /\ ~Trying(A, q[1], q[2])
  BY <1>1, <1>2 DEF Matching, Pairs
<1>4. p \in Matching(x, A, p[1], p[2])
  BY <1>1 DEF Matching, SameKey
<1> QED
  BY <1>1, <1>3, <1>4 DEF Announcement

LEMMA PostMailOK ==
    ASSUME IInv, OwnInv, NEW x \in Hosts, NEW P, P \subseteq Pairs(x), NEW bye, PostResponses(x, P, bye),
           net' \subseteq net
    PROVE  MailOK' /\ \A g \in Hosts \ {x} : sched'[g] = sched[g] /\ sent'[g] = sent[g]
<1>1. \A p \in P : p = <<p[1], p[2]>> /\ p[1] \in Offer[x]
  BY DEF Pairs
<1>2. /\ \A g \in Hosts \ {x} : sched'[g] = sched[g] /\ sent'[g] = sent[g]
      /\ sent' = [h \in Hosts |-> sent'[h]] /\ sent'[x] \subseteq sent[x]
      /\ \A j \in sched'[x] : j \in sched[x] \/ <<j.rec, j.link>> \in P
  BY <1>1, Functions, PostSets
<1>3. \A j \in sched'[x] : j.rec \in Offer[x]
  <2>1. SUFFICES ASSUME NEW j \in sched'[x], <<j.rec, j.link>> \in P PROVE j.rec \in Offer[x]
    BY <1>2 DEF OwnInv, MailOK
  <2>2. <<j.rec, j.link>>[1] \in Offer[x]
    BY <1>1, <2>1
  <2> QED
    BY <2>2
<1> QED
  BY <1>2, <1>3 DEF OwnInv, MailOK

LEMMA AnnounceOwn ==
    ASSUME ProtocolAssumption, IInv, OwnInv, NEW x \in Hosts, NEW r0 \in Offer[x], NEW l0 \in Links,
           Announce(x, r0, l0)
    PROVE  OwnInv'
<1> DEFINE p0 == <<r0, l0>>
           A == [ann[x] EXCEPT ![p0] = NextAnnouncing(@.n)]
           P == Announcement(x, ann[x], p0)
<1>1. p0 \in Pairs(x) /\ ann[x][p0].st = "ANNOUNCING" /\ PostResponses(x, P, FALSE)
  BY DEF Announce, Pairs
<1>2. UNCHANGED <<group, n_probing, up, probes, net, lost>>
  BY DEF Announce, bounds
<1>3. ann[x] \in Announcers(x) /\ group[x] # "REGISTERING" /\ Announced(ann[x], p0)
  BY <1>1, GroupOfAnnouncer DEF IInv, PubInv, Announced
<1>4. ann'[x] = A /\ \A g \in Hosts \ {x} : ann'[g] = ann[g]
  BY Functions DEF Announce
<1>5. /\ A[p0].st \in {"ANNOUNCING", "ESTABLISHED"}
      /\ \A p \in Pairs(x) : p # p0 => A[p] = ann[x][p]
  BY <1>1, <1>3 DEF Announcers, NextAnnouncing
<1>6. /\ P \subseteq Pairs(x)
      /\ \A q \in P : q = <<q[1], q[2]>> /\ ~Trying(ann[x], q[1], q[2])
  BY <1>1, <1>3, AnnouncesOwned
<1> HIDE DEF A, P
<1>7. MailOK' /\ \A g \in Hosts \ {x} : sched'[g] = sched[g] /\ sent'[g] = sent[g]
  BY <1>1, <1>2, <1>6, PostMailOK
<1>8. OthersStay(x)
  BY <1>2, <1>4, <1>7 DEF OthersStay
<1>9. OnlyUp(x)'
  BY <1>1, <1>2, <1>4, <1>5, HostFacts DEF OnlyUp
<1>10. LockStep(x)' /\ Live(x)' = Live(x)
  BY <1>2, <1>3 DEF LockStep, Live
<1>11. ASSUME NEW r \in Offer[x], NEW l \in Links, r.unique PROVE Moves(x, r, l)
  <2>1. OwnMail(x, r, l) /\ (<<r, l>> \notin P => TryMail(x, r, l))
    BY <1>1, <1>2, <1>6, Functions, PostMail
  <2>2. CASE <<r, l>> = p0
    <3>1. Owning(ann[x], r, l) /\ Owning(ann'[x], r, l)
      BY <1>1, <1>4, <1>5, <1>11, <2>2 DEF Owning
    <3> QED
      BY <2>1, <3>1 DEF Moves, StillOwns
  <2>3. CASE <<r, l>> # p0
    <3>1. <<r, l>> \in Pairs(x)
      BY DEF Pairs
    <3>2. ann'[x][<<r, l>>] = ann[x][<<r, l>>]
      BY <1>4, <1>5, <2>3, <3>1
    <3>3. Trying(ann[x], r, l) => <<r, l>> \notin P
      BY <1>6
    <3>4. ann[x][<<r, l>>].st = "WAITING" => group'[x] = "REGISTERING"
      BY <1>2, <1>11, HostFacts DEF Trying
    <3> QED
      BY <1>10, <1>11, <2>1, <3>2, <3>3, <3>4, Stays
  <2> QED
    BY <2>2, <2>3
<1> QED
  BY <1>2, <1>7, <1>8, <1>9, <1>10, <1>11, HostStep DEF AllMove

\* What a group has probed for long enough is not in the history.
LEMMA SaysNow ==
    ASSUME ProtocolAssumption, IInv, OwnInv, NEW x \in Hosts, NEW r \in Offer[x], NEW l \in Links,
           Trying(ann[x], r, l), ann[x][<<r, l>>].n = ProbeEnd, ann[x][<<r, l>>].due = 0,
           NEW P, P \subseteq Pairs(x), <<r, l>> \in P, PostResponses(x, P, FALSE)
    PROVE  Job(sched'[x], r, l)
<1>1. Age(ann[x][<<r, l>>]) = ProbeEnd - 1 /\ ProbeEnd \in Nat /\ ProbeEnd >= 4
  BY AgeType, HostFacts, CountAssumption DEF ProtocolAssumption
<1>2. Said(sent[x], r, l, 2 - (ProbeEnd - 1))
  BY <1>1, HostFacts DEF SelfOK
<1>3. \A j \in sent[x] : j.left >= 1 /\ j.left \in Nat
  BY HostFacts DEF MailOK
<1>4. ~InHistory(sent[x], r, l, FALSE)
  BY <1>1, <1>2, <1>3 DEF Said, InHistory
<1>5. \A p \in P : p = <<p[1], p[2]>>
  BY DEF Pairs
<1>6. up[x][l]
  BY HostFacts
<1> QED
  BY <1>4, <1>5, <1>6, Functions, PostJobs

\* The last of a group that has been probed for lets all of it announce.
LEMMA ProbedOwn ==
    ASSUME ProtocolAssumption, IInv, OwnInv, NEW x \in Hosts, NEW r0 \in Offer[x], NEW l0 \in Links,
           Probed(x, r0, l0)
    PROVE  OwnInv'
<1> DEFINE p0 == <<r0, l0>>
           left == n_probing[x] - 1
           done == group[x] = "REGISTERING" /\ left = 0
           A == [ann[x] EXCEPT ![p0] =
                   [@ EXCEPT !.st = IF group[x] = "REGISTERING" THEN "WAITING" ELSE "ANNOUNCING"]]
           go == IF done THEN {p \in Pairs(x) : A[p].st = "WAITING"}
                 ELSE {p0} \ {p \in Pairs(x) : A[p].st = "WAITING"}
           B == [p \in Pairs(x) |-> IF p \in go THEN [st |-> "ANNOUNCING", n |-> 1, due |-> 0] ELSE A[p]]
           C == [p \in Pairs(x) |-> IF p \in go THEN NextAnnouncing(1) ELSE B[p]]
           P == UNION {Announcement(x, B, p) : p \in go}
<1>1. p0 \in Pairs(x) /\ ann[x][p0].st = "PROBING" /\ ann[x][p0].due = 0 /\ ann[x][p0].n >= ProbeEnd
  BY DEF Probed, Pairs
<1>2. /\ ann[x] \in Announcers(x) /\ group[x] # "none"
      /\ GroupOK(x, group[x], n_probing[x], ann[x], flaps)
  BY <1>1, GroupOfAnnouncer, Kept DEF IInv, PubInv
<1>3. UNCHANGED <<up, probes, net, lost>> /\ PostResponses(x, P, FALSE)
  BY DEF Probed, bounds
<1>4. /\ ann'[x] = C /\ \A g \in Hosts \ {x} : ann'[g] = ann[g]
      /\ n_probing'[x] = left /\ \A g \in Hosts \ {x} : n_probing'[g] = n_probing[g]
      /\ group'[x] = (IF done THEN "ESTABLISHED" ELSE group[x])
      /\ \A g \in Hosts \ {x} : group'[g] = group[g]
  <2>1. ann' = [ann EXCEPT ![x] = C] /\ n_probing' = [n_probing EXCEPT ![x] = left]
    BY DEF Probed
  <2>2. group' = IF done THEN [group EXCEPT ![x] = "ESTABLISHED"] ELSE group
    BY DEF Probed
  <2> HIDE DEF C, done
  <2> QED
    BY <2>1, <2>2, Functions
<1>5. /\ A \in Announcers(x) /\ A[p0].n = ann[x][p0].n /\ A[p0].due = ann[x][p0].due
      /\ A[p0].st = (IF group[x] = "REGISTERING" THEN "WAITING" ELSE "ANNOUNCING")
      /\ \A p \in Pairs(x) : p # p0 => A[p] = ann[x][p]
  BY <1>1, <1>2 DEF Announcers, AnnStates
<1>6. r0.unique /\ Trying(ann[x], r0, l0) /\ ann[x][p0].n = ProbeEnd
  <2>1. p0[1] = r0
    OBVIOUS
  <2>2. Trying(ann[x], r0, l0)
    BY <1>1, <2>1, HostFacts DEF OnlyUp, Trying
  <2>3. ann[x][p0].n \in 1..ProbeEnd
    BY <2>2, HostFacts DEF SelfOK
  <2> QED
    BY <1>1, <2>2, <2>3, CountAssumption DEF Trying, ProtocolAssumption
<1>7. /\ go \subseteq Pairs(x)
      /\ \A p \in go : (done /\ A[p].st = "WAITING") \/ (group[x] # "REGISTERING" /\ p = p0)
      /\ \A p \in Pairs(x) \ go : /\ done => A[p].st # "WAITING"
                                  /\ p = p0 => ~done /\ group[x] = "REGISTERING"
  <2> HIDE DEF A, left
  <2> QED
    BY <1>1, <1>5
<1>8. /\ \A p \in go : C[p].st \in {"ANNOUNCING", "ESTABLISHED"} /\ Announced(B, p)
      /\ \A p \in Pairs(x) \ go : C[p] = A[p] /\ B[p] = A[p]
      /\ B \in Announcers(x) /\ C \in Announcers(x)
  <2> HIDE DEF A, go
  <2> QED
    BY <1>5, <1>7 DEF NextAnnouncing, Announced, Announcers, AnnStates
<1> HIDE DEF A, B, C, go
<1>9. P \subseteq Pairs(x) /\ \A q \in P : q = <<q[1], q[2]>> /\ ~Trying(B, q[1], q[2])
  BY <1>7, <1>8, AnnouncesOwned
<1>10. \A p \in go : p[1].unique => p \in P
  BY <1>7, <1>8, AnnouncesOwned
<1> HIDE DEF P
<1>11. MailOK' /\ \A g \in Hosts \ {x} : sched'[g] = sched[g] /\ sent'[g] = sent[g]
  BY <1>3, <1>9, PostMailOK
<1>12. OthersStay(x)
  BY <1>3, <1>4, <1>11 DEF OthersStay
<1>13. ProbingIn(C) = ProbingIn(ann[x]) \ {p0}
  <2>1. \A p \in Pairs(x) : p # p0 => (C[p].st = "PROBING" <=> ann[x][p].st = "PROBING")
    <3>1. SUFFICES ASSUME NEW p \in Pairs(x), p # p0 PROVE C[p].st = "PROBING" <=> ann[x][p].st = "PROBING"
      OBVIOUS
    <3>2. A[p] = ann[x][p]
      BY <1>5, <3>1
    <3> QED
      BY <1>7, <1>8, <3>1, <3>2
  <2>2. C[p0].st # "PROBING"
    BY <1>1, <1>5, <1>8
  <2>3. DOMAIN C = Pairs(x) /\ DOMAIN ann[x] = Pairs(x)
    BY <1>2, <1>8 DEF Announcers
  <2> QED
    BY <2>1, <2>2, <2>3 DEF ProbingIn
<1>14. Count(ann[x]) \in Nat /\ Count(ann[x]) >= 1 /\ Count(C) = Count(ann[x]) - 1
  <2>1. p0 \in ProbingIn(ann[x])
    BY <1>1, <1>2 DEF ProbingIn, Announcers
  <2> QED
    BY <1>2, <1>8, <1>13, <2>1, CountOneLess, CountBound
<1>15. n_probing[x] \in Nat /\ Count(ann[x]) <= n_probing[x]
  BY <1>2 DEF GroupOK, Counted
<1>16. done \/ group[x] # "REGISTERING" => Live(x)
  BY <1>14, <1>15 DEF Live
<1>17. Live(x)' => Live(x)
  <2>1. CASE ~done /\ group[x] = "REGISTERING"
    <3>1. Live(x)' => left = Count(C)
      BY <1>4, <2>1 DEF Live
    <3> QED
      BY <1>14, <1>15, <3>1 DEF Live
  <2> QED
    BY <1>16, <2>1
<1>18. OnlyUp(x)'
  <2>1. \A p \in Pairs(x) : /\ C[p].st # "none" => ann[x][p].st # "none"
                            /\ C[p].st = "PROBING" => ann[x][p].st = "PROBING"
    BY <1>1, <1>5, <1>7, <1>8
  <2> QED
    BY <1>3, <1>4, <2>1, HostFacts DEF OnlyUp
<1>19. LockStep(x)'
  <2> SUFFICES ASSUME group'[x] = "REGISTERING"
               PROVE  /\ n_probing'[x] >= 1
                      /\ Live(x)' => /\ \A l \in Links : up'[x][l]
                                     /\ \A p, q \in Pairs(x) :
                                           Trying(ann'[x], p[1], p[2]) /\ Trying(ann'[x], q[1], q[2]) =>
                                               Age(ann'[x][p]) = Age(ann'[x][q])
    BY DEF LockStep
  <2>1. ~done /\ group[x] = "REGISTERING" /\ left # 0
    BY <1>4
  <2>2. n_probing[x] >= 1
    BY <2>1, HostFacts DEF LockStep
  <2>3. n_probing'[x] >= 1
    BY <1>4, <1>15, <2>1, <2>2
  <2>4. \A p \in Pairs(x) : C[p] = A[p]
    BY <1>7, <1>8, <2>1
  <2>5. ASSUME NEW p \in Pairs(x)
        PROVE  Age(C[p]) = Age(ann[x][p]) /\ (Trying(C, p[1], p[2]) => Trying(ann[x], p[1], p[2]))
    <3>1. p = <<p[1], p[2]>>
      BY DEF Pairs
    <3>2. Age(C[p]) = Age(ann[x][p])
      BY <1>5, <2>4 DEF Age
    <3>3. p # p0 => C[p] = ann[x][p]
      BY <1>5, <2>4
    <3> QED
      BY <1>6, <3>1, <3>2, <3>3 DEF Trying
  <2> QED
    BY <1>3, <1>4, <1>17, <2>1, <2>3, <2>5, HostFacts DEF LockStep
<1>20. ASSUME NEW r \in Offer[x], NEW l \in Links, r.unique PROVE Moves(x, r, l)
  <2>1. <<r, l>> \in Pairs(x) /\ <<r, l>>[1].unique
    BY <1>20 DEF Pairs
  <2>2. OwnMail(x, r, l) /\ (<<r, l>> \notin P => TryMail(x, r, l))
    BY <1>3, <1>9, Functions, PostMail
  <2>3. CASE <<r, l>> \in go
    <3>1. Trying(ann[x], r, l) /\ ann[x][<<r, l>>].n = ProbeEnd /\ ann[x][<<r, l>>].due = 0
      <4>1. CASE <<r, l>> = p0
        BY <1>1, <1>6, <4>1
      <4>2. CASE <<r, l>> # p0
        <5>1. ann[x][<<r, l>>].st = "WAITING"
          BY <1>5, <1>7, <2>1, <2>3, <4>2
        <5> QED
          BY <1>20, <5>1, HostFacts DEF Trying, SelfOK
      <4> QED
        BY <4>1, <4>2
    <3>2. Job(sched'[x], r, l)
      BY <1>3, <1>9, <1>10, <2>1, <2>3, <3>1, SaysNow
    <3>3. Owning(ann'[x], r, l)
      BY <1>4, <1>8, <1>20, <2>3 DEF Owning
    <3>4. Live(x)
      BY <1>7, <1>16, <2>3
    <3> QED
      BY <3>1, <3>2, <3>3, <3>4 DEF Moves, Wins
  <2>4. CASE <<r, l>> \notin go
    <3>1. ann'[x][<<r, l>>] = A[<<r, l>>] /\ B[<<r, l>>] = A[<<r, l>>]
      BY <1>4, <1>8, <2>1, <2>4
    <3>2. Trying(A, r, l) => TryMail(x, r, l)
      <4>1. Trying(A, r, l) => Trying(B, r, l)
        BY <3>1 DEF Trying
      <4>2. <<r, l>> \in P => ~Trying(B, r, l)
        BY <1>9
      <4> QED
        BY <2>2, <4>1, <4>2
    <3>3. CASE <<r, l>> = p0
      <4>1. ~done /\ group[x] = "REGISTERING" /\ A[p0].st = "WAITING"
        BY <1>5, <1>7, <2>1, <2>4, <3>3
      <4>2. Trying(A, r, l) /\ Trying(ann'[x], r, l) /\ Trying(ann[x], r, l)
        BY <1>6, <1>20, <3>1, <3>3, <4>1 DEF Trying
      <4>3. StillTries(x, r, l)
        BY <1>1, <1>4, <1>5, <1>6, <1>17, <3>1, <3>2, <3>3, <4>1, <4>2 DEF StillTries
      <4> QED
        BY <4>3 DEF Moves
    <3>4. CASE <<r, l>> # p0
      <4>1. A[<<r, l>>] = ann[x][<<r, l>>]
        BY <1>5, <2>1, <3>4
      <4>2. Trying(A, r, l) <=> Trying(ann[x], r, l)
        BY <4>1 DEF Trying
      <4>3. ann[x][<<r, l>>].st = "WAITING" => group'[x] = "REGISTERING"
        <5> SUFFICES ASSUME ann[x][<<r, l>>].st = "WAITING" PROVE group'[x] = "REGISTERING"
          OBVIOUS
        <5>1. ~done
          BY <1>7, <2>1, <2>4, <4>1
        <5>2. group[x] = "REGISTERING"
          BY <1>20, HostFacts DEF Trying
        <5> QED
          BY <1>4, <5>1, <5>2
      <4>4. ann'[x][<<r, l>>] = ann[x][<<r, l>>]
        BY <3>1, <4>1
      <4> QED
        BY <1>17, <1>20, <2>2, <3>2, <4>2, <4>3, <4>4, Stays
    <3> QED
      BY <3>3, <3>4
  <2> QED
    BY <2>3, <2>4
<1> QED
  BY <1>3, <1>11, <1>12, <1>18, <1>19, <1>20, HostStep DEF AllMove

(***************************************************************************)
(* The user and the interface                                              *)
(***************************************************************************)
LEMMA RegisterOwn ==
    ASSUME ProtocolAssumption, IInv, OwnInv, NEW x \in Hosts, group[x] = "none", RegisterService(x),
           UNCHANGED <<up, probes, sched, sent, net, lost>>
    PROVE  OwnInv'
<1> DEFINE L == {l \in Links : up[x][l]}
           A == NewAnnouncers(x, ann[x], L, "REGISTERING")
           n == Count(A)
           B == IF n = 0 THEN Released(A) ELSE A
           new == [st |-> "PROBING", n |-> 1, due |-> 0]
<1>1. ann[x] = NoAnnouncers(x) /\ ann[x] \in Announcers(x)
  BY Kept DEF IInv, PubInv, GroupOK
<1>2. A \in Announcers(x) /\ n \in Nat /\ n = Cardinality(ProbingIn(A))
  BY <1>1, NewAnnouncersOK, CountBound
<1>3. \A p \in Pairs(x) : A[p] = IF p[2] \in L THEN InitialState(p[1], "REGISTERING") ELSE Absent
  BY <1>1 DEF NewAnnouncers, NoAnnouncers
<1>4. /\ ann'[x] = B /\ n_probing'[x] = n /\ group'[x] = (IF n = 0 THEN "ESTABLISHED" ELSE "REGISTERING")
      /\ \A g \in Hosts \ {x} : ann'[g] = ann[g] /\ group'[g] = group[g] /\ n_probing'[g] = n_probing[g]
  BY Functions DEF RegisterService
<1>5. /\ DOMAIN A = Pairs(x)
      /\ \A p \in Pairs(x) : B[p] = A[p] \/ (A[p].st = "WAITING" /\ B[p] = [st |-> "ANNOUNCING", n |-> 0, due |-> 0])
  BY <1>2 DEF Announcers, Released
<1> HIDE DEF A, B
<1>6. ASSUME NEW p \in Pairs(x)
      PROVE  /\ A[p].st = "WAITING" => ~p[1].unique
             /\ B[p].st # "none" => p[2] \in L
             /\ B[p].st = "PROBING" => p[1].unique
             /\ p[1].unique /\ p[2] \in L => B[p] = new
             /\ p[1].unique /\ p[2] \notin L => B[p].st = "none"
  BY <1>3, <1>5 DEF InitialState, Absent
<1>7. OnlyUp(x)'
  BY <1>4, <1>6, HostFacts DEF OnlyUp
<1>8. LockStep(x)'
  <2> SUFFICES ASSUME n # 0
               PROVE  /\ n >= 1 /\ \A l \in Links : up[x][l]
                      /\ \A p, q \in Pairs(x) : Trying(B, p[1], p[2]) /\ Trying(B, q[1], q[2]) =>
                            Age(B[p]) = Age(B[q])
    BY <1>4 DEF LockStep
  <2>1. n >= 1
    BY <1>2
  <2>2. PICK p \in ProbingIn(A) : TRUE
    BY <1>2, FS_EmptySet
  <2>3. p \in Pairs(x) /\ A[p].st = "PROBING"
    BY <1>2, <2>2 DEF ProbingIn, Announcers
  <2>4. B[p].st = "PROBING"
    BY <1>5, <2>3
  <2>5. p[2] \in Links /\ up[x][p[2]]
    BY <1>6, <2>3, <2>4
  <2>6. \A l \in Links : up[x][l]
    BY <2>5, HostFacts DEF ProtocolAssumption, OneLink, OnlyUp
  <2>7. ASSUME NEW q \in Pairs(x), Trying(B, q[1], q[2]) PROVE Age(B[q]) = Age(new)
    <3>1. q = <<q[1], q[2]>> /\ q[1].unique /\ B[q].st # "none"
      BY <2>7 DEF Pairs, Trying
    <3> QED
      BY <1>6, <3>1
  <2> QED
    BY <2>1, <2>6, <2>7
<1>9. ASSUME NEW r \in Offer[x], NEW l \in Links, r.unique PROVE Moves(x, r, l)
  <2>1. <<r, l>> \in Pairs(x) /\ <<r, l>>[1] = r /\ <<r, l>>[2] = l
    BY DEF Pairs
  <2>2. CASE l \in L
    <3>1. ann'[x][<<r, l>>] = new
      BY <1>4, <1>6, <1>9, <2>1, <2>2
    <3> QED
      BY <3>1 DEF Moves, Fresh, Owning
  <2>3. CASE l \notin L
    <3>1. ann'[x][<<r, l>>].st = "none"
      BY <1>4, <1>6, <1>9, <2>1, <2>3
    <3> QED
      BY <3>1 DEF Moves, Out, Trying, Owning
  <2> QED
    BY <2>2, <2>3
<1>10. MailOK' /\ OthersStay(x)
  BY <1>4 DEF OwnInv, MailOK, OthersStay
<1> QED
  BY <1>7, <1>8, <1>9, <1>10, HostStep DEF AllMove

\* A host that gives its group up neither tries nor owns.
LEMMA GivesUp ==
    ASSUME ProtocolAssumption, OwnInv, MailOK', lost' = lost, NEW x \in Hosts, OthersStay(x),
           ann'[x] = NoAnnouncers(x), group'[x] = "none", up'[x] = up[x]
    PROVE  OwnInv'
<1>1. \A p \in Pairs(x) : ann'[x][p].st = "none"
  BY DEF NoAnnouncers, Absent
<1>2. OnlyUp(x)' /\ LockStep(x)'
  BY <1>1, HostFacts DEF OnlyUp, LockStep
<1>3. AllMove(x)
  <2> SUFFICES ASSUME NEW r \in Offer[x], NEW l \in Links PROVE Out(x, r, l)
    BY DEF AllMove, Moves
  <2>1. <<r, l>> \in Pairs(x)
    BY DEF Pairs
  <2> QED
    BY <1>1, <2>1 DEF Out, Trying, Owning
<1> QED
  BY <1>2, <1>3, HostStep

\* Nothing that the invariant speaks of changes.
LEMMA NothingOwn ==
    ASSUME OwnInv, UNCHANGED <<grpVars, up, outVars, net, lost>>
    PROVE  OwnInv'
<1>1. UNCHANGED <<group, n_probing, ann, up, probes, sched, sent, net, lost>>
  BY DEF grpVars, outVars
<1>2. \A h \in Hosts : Live(h)' = Live(h)
  BY <1>1 DEF Live
<1>3. \A h \in Hosts : OnlyUp(h)' = OnlyUp(h) /\ LockStep(h)' = LockStep(h)
  BY <1>1, <1>2 DEF OnlyUp, LockStep
<1>4. MailOK' = MailOK
  BY <1>1 DEF MailOK
<1>5. SelvesOK' = SelvesOK
  BY <1>1 DEF SelvesOK, SelfOK
<1>6. ASSUME NEW h \in Hosts, NEW g \in Hosts, NEW l \in Links, NEW r \in Offer[h], NEW q \in Offer[g]
      PROVE  RivalsOK(h, r, g, q, l)' = RivalsOK(h, r, g, q, l)
  BY <1>1, <1>2 DEF RivalsOK
<1>7. AllRivals => AllRivals'
  BY <1>6 DEF AllRivals, Rivals
<1> QED
  BY <1>1, <1>3, <1>4, <1>5, <1>7 DEF OwnInv

LEMMA ClientOwn ==
    ASSUME ProtocolAssumption, IInv, OwnInv, NEW x \in Hosts, Client(x)
    PROVE  OwnInv'
<1>1. CASE ServerRunning(x)
  <2>1. group[x] = "none" /\ UNCHANGED <<up, probes, sched, sent, net, lost>>
    BY <1>1 DEF ServerRunning, bounds, outVars, IInv, PubInv, ClientOK
  <2> QED
    BY <1>1, <2>1, RegisterOwn, NothingOwn DEF ServerRunning, outVars
<1>2. CASE startServicePublish(x)
  <2>1. group[x] = "none" /\ UNCHANGED <<up, probes, sched, sent, net, lost>>
    BY <1>2 DEF startServicePublish, outVars
  <2> QED
    BY <1>2, <2>1, RegisterOwn, NothingOwn DEF startServicePublish, outVars
<1>3. CASE stopServicePublish(x)
  <2> DEFINE P == {p \in Pairs(x) : IsRegistered(ann[x], p[1], p[2])}
  <2>1. UNCHANGED <<up, probes, net, lost>> /\ PostResponses(x, P, TRUE)
    BY <1>3 DEF stopServicePublish, bounds
  <2>2. MailOK' /\ \A g \in Hosts \ {x} : sched'[g] = sched[g] /\ sent'[g] = sent[g]
    BY <2>1, PostMailOK
  <2>3. /\ ann'[x] = NoAnnouncers(x) /\ group'[x] = "none"
        /\ \A g \in Hosts \ {x} : ann'[g] = ann[g] /\ group'[g] = group[g] /\ n_probing'[g] = n_probing[g]
    BY <1>3, Functions DEF stopServicePublish
  <2>4. OthersStay(x)
    BY <2>1, <2>2, <2>3 DEF OthersStay
  <2> QED
    BY <2>1, <2>2, <2>3, <2>4, GivesUp
<1> QED
  BY <1>1, <1>2, <1>3 DEF Client

LEMMA LinkDownOwn ==
    ASSUME ProtocolAssumption, IInv, OwnInv, NEW x \in Hosts, NEW l0 \in Links, LinkDown(x, l0)
    PROVE  OwnInv'
<1> DEFINE A == [p \in Pairs(x) |-> IF p[2] = l0 THEN Absent ELSE ann[x][p]]
<1>1. MaxFlaps # 0 /\ \A l \in Links : l = l0
  BY DEF LinkDown, IInv, PubInv, LinkOK, ProtocolAssumption, OneLink
<1>2. /\ ann' = [ann EXCEPT ![x] = A] /\ up' = [up EXCEPT ![x][l0] = FALSE]
      /\ probes' = [probes EXCEPT ![x] = {p \in @ : p[2] # l0}]
      /\ sched' = [sched EXCEPT ![x] = {j \in @ : j.link # l0}]
      /\ sent' = [sent EXCEPT ![x] = {j \in @ : j.link # l0}]
      /\ UNCHANGED <<group, n_probing, net, lost>>
  BY DEF LinkDown
<1>3. A = NoAnnouncers(x)
  BY <1>1 DEF NoAnnouncers, Pairs
<1>4. /\ ann'[x] = NoAnnouncers(x) /\ ~up'[x][l0] /\ sched'[x] \subseteq sched[x] /\ sent'[x] \subseteq sent[x]
      /\ \A g \in Hosts \ {x} : /\ ann'[g] = ann[g] /\ up'[g] = up[g] /\ probes'[g] = probes[g]
                                /\ sched'[g] = sched[g] /\ sent'[g] = sent[g]
  BY <1>2, <1>3, Functions DEF Sends
<1>5. MailOK' /\ OthersStay(x)
  BY <1>2, <1>4 DEF OwnInv, MailOK, OthersStay
<1>6. \A p \in Pairs(x) : ann'[x][p].st = "none"
  BY <1>4 DEF NoAnnouncers, Absent
<1>7. OnlyUp(x)'
  BY <1>1, <1>6 DEF OnlyUp
<1>8. LockStep(x)'
  <2> SUFFICES ASSUME group[x] = "REGISTERING" PROVE n_probing[x] >= 1 /\ ~Live(x)'
    BY <1>2 DEF LockStep
  <2>1. n_probing[x] >= 1
    BY HostFacts DEF LockStep
  <2>2. Count(ann'[x]) = 0
    BY <1>4, AbsentType
  <2> QED
    BY <1>2, <2>1, <2>2 DEF Live
<1>9. AllMove(x)
  <2> SUFFICES ASSUME NEW r \in Offer[x], NEW l \in Links PROVE Out(x, r, l)
    BY DEF AllMove, Moves
  <2>1. <<r, l>> \in Pairs(x)
    BY DEF Pairs
  <2> QED
    BY <1>6, <2>1 DEF Out, Trying, Owning
<1> QED
  BY <1>2, <1>5, <1>7, <1>8, <1>9, HostStep

LEMMA LinkUpOwn ==
    ASSUME ProtocolAssumption, IInv, OwnInv, NEW x \in Hosts, NEW l0 \in Links, LinkUp(x, l0)
    PROVE  OwnInv'
<1> DEFINE A == NewAnnouncers(x, ann[x], {l0}, group[x])
<1>1. ~up[x][l0] /\ up' = [up EXCEPT ![x][l0] = TRUE] /\ UNCHANGED <<group, probes, sched, sent, net, lost>>
  BY DEF LinkUp, outVars, bounds
<1>2. MaxFlaps # 0 /\ \A l \in Links : l = l0
  BY <1>1, HostFacts DEF OnlyUp, ProtocolAssumption, OneLink
<1>3. \A p \in Pairs(x) : ann[x][p].st = "none"
  <2> SUFFICES ASSUME NEW p \in Pairs(x), ann[x][p].st # "none" PROVE FALSE
    OBVIOUS
  <2>1. p[2] \in Links /\ up[x][p[2]]
    BY HostFacts DEF OnlyUp, Pairs
  <2> QED
    BY <1>1, <1>2, <2>1
<1>4. up'[x][l0] /\ \A g \in Hosts \ {x} : up'[g] = up[g]
  BY <1>1, Functions
<1>5. ann[x] \in Announcers(x) /\ GroupOK(x, group[x], n_probing[x], ann[x], flaps)
  BY Kept DEF IInv, PubInv, GroupOK
<1>6. /\ \A g \in Hosts \ {x} : ann'[g] = ann[g] /\ n_probing'[g] = n_probing[g]
      /\ \/ group[x] = "none" /\ ann'[x] = ann[x]
         \/ /\ group[x] # "none" /\ ann'[x] = A
            /\ n_probing'[x] = n_probing[x] + (Count(A) - Count(ann[x]))
  <2>1. CASE group[x] = "none"
    BY <2>1 DEF LinkUp
  <2>2. CASE group[x] # "none"
    <3>1. /\ ann' = [ann EXCEPT ![x] = A]
          /\ n_probing' = [n_probing EXCEPT ![x] = @ + NewProbing(ann[x], A)]
      BY <2>2 DEF LinkUp
    <3> HIDE DEF A
    <3> QED
      BY <2>2, <3>1, Functions DEF NewProbing
  <2> QED
    BY <2>1, <2>2
<1>7. ASSUME NEW p \in Pairs(x)
      PROVE  /\ ann'[x][p].st = "PROBING" => p[1].unique
             /\ p[1].unique => ann'[x][p].st = "none" \/ ann'[x][p] = [st |-> "PROBING", n |-> 1, due |-> 0]
  <2>1. A[p] = InitialState(p[1], group[x]) \/ A[p] = ann[x][p]
    BY <1>5 DEF NewAnnouncers, Announcers
  <2>2. ann'[x][p] = InitialState(p[1], group[x]) \/ ann'[x][p].st = "none"
    BY <1>3, <1>6, <2>1
  <2> QED
    BY <2>2 DEF InitialState
<1>8. OnlyUp(x)'
  BY <1>2, <1>4, <1>7 DEF OnlyUp, Pairs
<1>9. LockStep(x)'
  <2> SUFFICES ASSUME group[x] = "REGISTERING" PROVE n_probing'[x] >= 1 /\ ~Live(x)'
    BY <1>1 DEF LockStep
  <2>1. n_probing[x] >= 1 /\ n_probing[x] # Count(ann[x])
    BY <1>1, HostFacts DEF LockStep, Live
  <2>2. A \in Announcers(x) /\ ProbingIn(ann[x]) \subseteq ProbingIn(A)
    BY <1>5, NewAnnouncersOK
  <2>3. Count(A) \in Nat /\ Count(ann[x]) \in Nat /\ Count(ann[x]) <= Count(A) /\ n_probing[x] \in Nat
    BY <1>5, <2>2, CountBound, CountMonotone DEF GroupOK, Counted
  <2>4. n_probing'[x] = n_probing[x] + (Count(A) - Count(ann[x])) /\ ann'[x] = A
    BY <1>6
  <2> HIDE DEF A
  <2>5. n_probing'[x] >= 1 /\ n_probing'[x] # Count(A)
    BY <2>1, <2>3, <2>4
  <2> QED
    BY <1>1, <2>4, <2>5 DEF Live
<1>10. AllMove(x)
  <2> SUFFICES ASSUME NEW r \in Offer[x], NEW l \in Links, r.unique PROVE Out(x, r, l) \/ Fresh(x, r, l)
    BY DEF AllMove, Moves
  <2>1. <<r, l>> \in Pairs(x) /\ <<r, l>>[1] = r
    BY DEF Pairs
  <2>2. ann'[x][<<r, l>>].st = "none" \/ ann'[x][<<r, l>>] = [st |-> "PROBING", n |-> 1, due |-> 0]
    BY <1>7, <2>1
  <2> QED
    BY <2>2 DEF Out, Fresh, Trying, Owning
<1>11. MailOK' /\ OthersStay(x)
  BY <1>1, <1>4, <1>6 DEF OwnInv, MailOK, OthersStay
<1> QED
  BY <1>1, <1>8, <1>9, <1>10, <1>11, HostStep

\* After a packet has been lost, the rivals may both be owned.
LEMMA LoseOwn ==
    ASSUME OwnInv, Lose
    PROVE  OwnInv'
<1>1. UNCHANGED <<group, n_probing, ann, up, probes, sched, sent>> /\ lost' = lost + 1 /\ net' \subseteq net
  BY DEF Lose, grpVars, outVars
<1>2. \A h \in Hosts : Live(h)' = Live(h)
  BY <1>1 DEF Live
<1>3. \A h \in Hosts : OnlyUp(h)' = OnlyUp(h) /\ LockStep(h)' = LockStep(h)
  BY <1>1, <1>2 DEF OnlyUp, LockStep
<1>4. MailOK'
  BY <1>1 DEF OwnInv, MailOK
<1>5. SelvesOK' = SelvesOK
  BY <1>1 DEF SelvesOK, SelfOK
<1> QED
  BY <1>1, <1>3, <1>4, <1>5 DEF OwnInv

(***************************************************************************)
(* Packets that come                                                       *)
(***************************************************************************)
Takes(x, m) == m \in net /\ m.to = x /\ net' = net \ {m} /\ up' = up /\ lost' = lost

\* What x no longer has to hear of is in the packet it takes.
LEMMA NetLess ==
    ASSUME NEW x, NEW m, Takes(x, m), NEW q, NEW l
    PROVE  /\ \A g : g # x /\ Answered(net, g, q, l) => Answered(net', g, q, l)
           /\ \A P, g : g # x /\ Asked(P, net, g, q, l) => Asked(P, net', g, q, l)
           /\ Answered(net, x, q, l) /\ ~Answered(net', x, q, l) =>
                 m.link = l /\ m.kind = "response" /\ m.recs = {q} /\ ~m.bye
           /\ \A P : Asked(P, net, x, q, l) /\ ~Asked(P, net', x, q, l) =>
                 m.link = l /\ m.kind = "probe" /\ q \in m.recs
  BY DEF Takes, Answered, Asked

\* Of a record that is not in the packet, as much is said as before.
LEMMA TakesMail ==
    ASSUME ProtocolAssumption, NEW x \in Hosts, NEW m, Takes(x, m), probes'[x] = probes[x],
           NEW r \in Offer[x], NEW l \in Links
    PROVE  /\ /\ Job(sched'[x], r, l) => Job(sched[x], r, l)
              /\ \A k : Said(sent[x], r, l, k) => Said(sent'[x], r, l, k)
              /\ \A g \in Hosts \ {x} : \A q \in Offer[g] : Rivals(x, r, g, q) /\ m.link = l =>
                    /\ ~(m.kind = "response" /\ m.recs = {q} /\ ~m.bye)
                    /\ ~(m.kind = "probe" /\ q \in m.recs /\ r.data < q.data)
              => TryMail(x, r, l)
           /\ /\ Job(sched[x], r, l) => Job(sched'[x], r, l)
              /\ \A k : Said(sent[x], r, l, k) => Said(sent'[x], r, l, k)
              /\ \A g \in Hosts \ {x} : \A q \in Offer[g] :
                    Rivals(x, r, g, q) /\ m.link = l /\ m.kind = "probe" /\ q \in m.recs =>
                       Job(sched'[x], r, l) \/ ~Said(sent[x], r, l, 0)
              => OwnMail(x, r, l)
<1>1. \A g \in Hosts \ {x} : /\ Asked(probes[x], net, g, r, l) => Asked(probes'[x], net', g, r, l)
                             /\ Answered(net, g, r, l) => Answered(net', g, r, l)
  BY NetLess
<1>2. \A q : /\ Answered(net, x, q, l) /\ ~Answered(net', x, q, l) =>
                  m.link = l /\ m.kind = "response" /\ m.recs = {q} /\ ~m.bye
             /\ \A P : Asked(P, net, x, q, l) /\ ~Asked(P, net', x, q, l) =>
                  m.link = l /\ m.kind = "probe" /\ q \in m.recs
  BY NetLess
<1>3. ASSUME Job(sched'[x], r, l) => Job(sched[x], r, l),
             \A k : Said(sent[x], r, l, k) => Said(sent'[x], r, l, k),
             \A g \in Hosts \ {x} : \A q \in Offer[g] : Rivals(x, r, g, q) /\ m.link = l =>
                    /\ ~(m.kind = "response" /\ m.recs = {q} /\ ~m.bye)
                    /\ ~(m.kind = "probe" /\ q \in m.recs /\ r.data < q.data)
      PROVE  TryMail(x, r, l)
  BY <1>1, <1>2, <1>3 DEF TryMail
<1>4. ASSUME Job(sched[x], r, l) => Job(sched'[x], r, l),
             \A k : Said(sent[x], r, l, k) => Said(sent'[x], r, l, k),
             \A g \in Hosts \ {x} : \A q \in Offer[g] :
                    Rivals(x, r, g, q) /\ m.link = l /\ m.kind = "probe" /\ q \in m.recs =>
                       Job(sched'[x], r, l) \/ ~Said(sent[x], r, l, 0)
      PROVE  OwnMail(x, r, l)
  BY <1>1, <1>2, <1>4 DEF OwnMail, Says
<1> QED
  BY <1>3, <1>4

LEMMA TakesOthers ==
    ASSUME IInv, OwnInv, NEW x \in Hosts, NEW m, Takes(x, m),
           \A g \in Hosts \ {x} : /\ ann'[g] = ann[g] /\ group'[g] = group[g] /\ n_probing'[g] = n_probing[g]
                                  /\ sched'[g] = sched[g] /\ sent'[g] = sent[g],
           UNCHANGED probes
    PROVE  OthersStay(x)
  BY DEF OthersStay, Takes

\* dispatch_packet: a packet of an interface that has gone is nothing to a
\* record that is tried for or owned.
LEMMA DropOwn ==
    ASSUME ProtocolAssumption, IInv, OwnInv, NEW x \in Hosts, NEW m, Takes(x, m), ~up[x][m.link],
           UNCHANGED <<grpVars, outVars>>
    PROVE  OwnInv'
<1>1. UNCHANGED <<group, n_probing, ann, up, probes, sched, sent, lost>> /\ net' \subseteq net
  BY DEF grpVars, outVars, Takes
<1>2. MailOK' /\ OthersStay(x)
  BY <1>1, TakesOthers DEF OwnInv, MailOK
<1>3. ASSUME NEW r \in Offer[x], NEW l \in Links, Trying(ann[x], r, l) \/ Owning(ann[x], r, l)
      PROVE  TryMail(x, r, l) /\ OwnMail(x, r, l)
  <2>1. m.link # l
    BY <1>3, HostFacts
  <2> QED
    BY <1>1, <2>1, TakesMail
<1> QED
  BY <1>1, <1>2, <1>3, SameGroup

\* A rival record is not ours, and is of our name.
LEMMA RivalOf ==
    ASSUME ProtocolAssumption, NEW x \in Hosts, NEW g \in Hosts \ {x}, NEW r \in Offer[x], NEW q \in Offer[g],
           Rivals(x, r, g, q)
    PROVE  q \notin Offer[x] /\ SameKey(r, q) /\ r.unique /\ q.unique
  BY NotOurs DEF Rivals

\* A probe is answered by the owner, and obeyed by the lesser that tries.
LEMMA ReceiveProbeOwn ==
    ASSUME ProtocolAssumption, IInv, OwnInv, NEW x \in Hosts, NEW m, Takes(x, m), m.kind = "probe",
           ReceiveProbe(x, m)
    PROVE  OwnInv'
<1> DEFINE P == UNION {Matching(x, ann[x], q, m.link) : q \in m.recs}
<1>1. net' \subseteq net /\ up' = up /\ lost' = lost /\ m.link \in Links /\ UNCHANGED probes
  BY DEF Takes, ReceiveProbe, IInv, NetOK
<1>2. PostResponses(x, P, FALSE)
  BY DEF ReceiveProbe
<1>3. P \subseteq Pairs(x) /\ \A p \in P : p = <<p[1], p[2]>> /\ ~Trying(ann[x], p[1], p[2])
  BY <1>1 DEF Matching, Pairs, IsRegistered, Trying
<1>4. MailOK' /\ \A g \in Hosts \ {x} : sched'[g] = sched[g] /\ sent'[g] = sent[g]
  BY <1>1, <1>2, <1>3, PostMailOK
<1>5. CASE Withdraw(x)
  <2>1. /\ ann'[x] = NoAnnouncers(x) /\ group'[x] = "none"
        /\ \A g \in Hosts \ {x} : ann'[g] = ann[g] /\ group'[g] = group[g] /\ n_probing'[g] = n_probing[g]
    BY <1>5, Functions DEF Withdraw
  <2>2. OthersStay(x)
    BY <1>1, <1>4, <2>1, TakesOthers
  <2> QED
    BY <1>1, <1>4, <2>1, <2>2, GivesUp
<1>6. CASE UNCHANGED grpVars /\ ~\E q \in m.recs : Loses(x, q, m.link)
  <2>1. UNCHANGED <<group, n_probing, ann>>
    BY <1>6 DEF grpVars
  <2>2. OthersStay(x)
    BY <1>1, <1>4, <2>1, TakesOthers
  <2>3. ASSUME NEW r \in Offer[x], NEW l \in Links
        PROVE  /\ Trying(ann[x], r, l) => TryMail(x, r, l)
               /\ Owning(ann[x], r, l) => OwnMail(x, r, l)
    <3>1. /\ Job(sched[x], r, l) => Job(sched'[x], r, l)
          /\ <<r, l>> \notin P /\ Job(sched'[x], r, l) => Job(sched[x], r, l)
          /\ <<r, l>> \in P /\ up[x][l] => Job(sched'[x], r, l) \/ InHistory(sent[x], r, l, FALSE)
          /\ \A k : Said(sent[x], r, l, k) => Said(sent'[x], r, l, k)
      BY <1>2, <1>3, Functions, PostJobs
    <3>2. ASSUME Trying(ann[x], r, l) PROVE TryMail(x, r, l)
      <4>1. <<r, l>> \notin P
        BY <1>3, <3>2
      <4>2. ASSUME NEW g \in Hosts \ {x}, NEW q \in Offer[g], Rivals(x, r, g, q), m.link = l, q \in m.recs
            PROVE  ~(r.data < q.data)
        <5>1. q \notin Offer[x] /\ SameKey(r, q)
          BY <4>2, RivalOf
        <5>2. IsProbing(ann[x], r, l)
          BY <3>2 DEF Trying, IsProbing
        <5> QED
          BY <1>6, <4>2, <5>1, <5>2 DEF Loses
      <4> QED
        BY <1>1, <3>1, <4>1, <4>2, TakesMail
    <3>3. ASSUME Owning(ann[x], r, l) PROVE OwnMail(x, r, l)
      <4>1. up[x][l]
        BY <3>3, HostFacts
      <4>2. ASSUME NEW g \in Hosts \ {x}, NEW q \in Offer[g], Rivals(x, r, g, q), m.link = l, q \in m.recs
            PROVE  Job(sched'[x], r, l) \/ ~Said(sent[x], r, l, 0)
        <5>1. SameKey(r, q) /\ IsRegistered(ann[x], r, l)
          BY <3>3, <4>2, RivalOf DEF Owning, IsRegistered
        <5>2. <<r, l>> \in Matching(x, ann[x], q, m.link)
          BY <4>2, <5>1 DEF Matching
        <5>3. <<r, l>> \in P
          BY <4>2, <5>2
        <5>4. InHistory(sent[x], r, l, FALSE) => ~Said(sent[x], r, l, 0)
          BY HostFacts DEF MailOK, InHistory, Said
        <5> QED
          BY <3>1, <4>1, <5>3, <5>4
      <4> QED
        BY <1>1, <3>1, <4>2, TakesMail
    <3> QED
      BY <3>2, <3>3
  <2> QED
    BY <1>1, <1>4, <2>1, <2>2, <2>3, SameGroup
<1> QED
  BY <1>5, <1>6 DEF ReceiveProbe

\* A goodbye for a record of ours is answered.
LEMMA RefreshOwn ==
    ASSUME ProtocolAssumption, IInv, OwnInv, NEW x \in Hosts, NEW m, Takes(x, m), m.kind = "response", m.bye,
           NEW q, Refresh(x, q, m.link), UNCHANGED probes
    PROVE  OwnInv'
<1> DEFINE P == Matching(x, ann[x], q, m.link)
<1>1. /\ net' \subseteq net /\ up' = up /\ lost' = lost /\ m.link \in Links
      /\ UNCHANGED <<group, n_probing, ann>> /\ PostResponses(x, P, FALSE)
  BY DEF Takes, Refresh, grpVars, IInv, NetOK
<1>2. P \subseteq Pairs(x) /\ \A p \in P : p = <<p[1], p[2]>> /\ ~Trying(ann[x], p[1], p[2])
  BY <1>1 DEF Matching, Pairs, IsRegistered, Trying
<1>3. MailOK' /\ \A g \in Hosts \ {x} : sched'[g] = sched[g] /\ sent'[g] = sent[g]
  BY <1>1, <1>2, PostMailOK
<1>4. OthersStay(x)
  BY <1>1, <1>3, TakesOthers
<1> HIDE DEF P
<1>5. ASSUME NEW r \in Offer[x], NEW l \in Links
      PROVE  OwnMail(x, r, l) /\ (Trying(ann[x], r, l) => TryMail(x, r, l))
  <2>1. /\ Job(sched[x], r, l) => Job(sched'[x], r, l)
        /\ <<r, l>> \notin P /\ Job(sched'[x], r, l) => Job(sched[x], r, l)
        /\ \A k : Said(sent[x], r, l, k) => Said(sent'[x], r, l, k)
    BY <1>1, <1>2, Functions, PostJobs
  <2>2. Trying(ann[x], r, l) => <<r, l>> \notin P
    BY <1>2
  <2> QED
    BY <2>1, <2>2, TakesMail
<1> QED
  BY <1>1, <1>3, <1>4, <1>5, SameGroup

\* The owner who answers is believed by whoever tries; two that own start again.
LEMMA ContestOwn ==
    ASSUME ProtocolAssumption, IInv, OwnInv, NEW x \in Hosts, NEW m, Takes(x, m), m.kind = "response",
           NEW q \in m.recs, Contest(x, Disputed(x, q, m.link), m.link), UNCHANGED probes
    PROVE  OwnInv'
<1> DEFINE D == Disputed(x, q, m.link)
<1>1. /\ net' \subseteq net /\ up' = up /\ lost' = lost /\ m.link \in Links
      /\ UNCHANGED <<sched, sent>>
  BY DEF Takes, Contest, IInv, NetOK
<1>2. MailOK'
  BY <1>1 DEF OwnInv, MailOK
<1>3. CASE Withdraw(x)
  <2>1. /\ ann'[x] = NoAnnouncers(x) /\ group'[x] = "none"
        /\ \A g \in Hosts \ {x} : ann'[g] = ann[g] /\ group'[g] = group[g] /\ n_probing'[g] = n_probing[g]
    BY <1>3, Functions DEF Withdraw
  <2>2. OthersStay(x)
    BY <1>1, <2>1, TakesOthers
  <2> QED
    BY <1>1, <1>2, <2>1, <2>2, GivesUp
<1>4. CASE ~\E r \in D : IsProbing(ann[x], r, m.link)
  <2>1. PICK r0 \in D : ReturnToInitial(x, r0, m.link)
    BY <1>4 DEF Contest
  <2> DEFINE p0 == <<r0, m.link>>
             A == [ann[x] EXCEPT ![p0] = InitialState(r0, group[x])]
  <2>2. r0 \in Offer[x] /\ IsRegistered(ann[x], r0, m.link)
    BY <1>4 DEF Disputed
  <2>3. p0 \in Pairs(x) /\ ann[x][p0].st \notin {"none", "PROBING"}
    BY <1>1, <2>2 DEF Pairs, IsRegistered
  <2>4. /\ ann[x] \in Announcers(x) /\ n_probing[x] \in Nat
        /\ group[x] = "REGISTERING" => ~Announced(ann[x], p0)
    BY <2>3, GroupOfAnnouncer, Kept DEF IInv, PubInv, GroupOK, Counted
  <2>5. /\ ann'[x] = A /\ group' = group /\ \A g \in Hosts \ {x} : ann'[g] = ann[g] /\ n_probing'[g] = n_probing[g]
        /\ n_probing'[x] = n_probing[x] + (Count(A) - Count(ann[x]))
    <3>1. /\ ann' = [ann EXCEPT ![x] = A] /\ group' = group
          /\ n_probing' = [n_probing EXCEPT ![x] = @ + NewProbing(ann[x], A)]
      BY <2>1 DEF ReturnToInitial
    <3> HIDE DEF A
    <3> QED
      BY <3>1, Functions DEF NewProbing
  <2>6. A[p0] = InitialState(r0, group[x]) /\ \A p \in Pairs(x) : p # p0 => A[p] = ann[x][p]
    BY <2>3, <2>4 DEF Announcers
  <2>7. A \in Announcers(x) /\ ProbingIn(ann[x]) \subseteq ProbingIn(A)
    BY <2>3, <2>4, InitialType DEF Announcers, ProbingIn
  <2>8. Count(A) \in Nat /\ Count(ann[x]) \in Nat /\ Count(ann[x]) <= Count(A)
    BY <2>4, <2>7, CountBound, CountMonotone
  <2> HIDE DEF A
  <2>9. (Live(x)' => Live(x)) /\ n_probing'[x] >= n_probing[x]
    <3>1. n_probing'[x] = Count(A) => n_probing[x] = Count(ann[x])
      BY <2>4, <2>5, <2>8
    <3>2. n_probing'[x] >= n_probing[x]
      BY <2>4, <2>5, <2>8
    <3> QED
      BY <2>5, <3>1, <3>2 DEF Live
  <2>10. OthersStay(x)
    BY <1>1, <2>5, TakesOthers
  <2>11. OnlyUp(x)'
    <3>1. A[p0].st = "PROBING" => r0.unique
      BY <2>6 DEF InitialState
    <3>2. \A p \in Pairs(x) : A[p].st # "none" => ann[x][p].st # "none"
      BY <2>3, <2>6
    <3>3. p0[1] = r0
      OBVIOUS
    <3> QED
      BY <1>1, <2>5, <2>6, <3>1, <3>2, <3>3, HostFacts DEF OnlyUp
  <2>12. LockStep(x)'
    <3>1. ASSUME group[x] = "REGISTERING", NEW p \in Pairs(x), Trying(A, p[1], p[2])
          PROVE  A[p] = ann[x][p] /\ Trying(ann[x], p[1], p[2])
      <4>1. p = <<p[1], p[2]>>
        BY DEF Pairs
      <4>2. ~r0.unique
        BY <2>2, <2>4, <3>1 DEF IsRegistered, Announced
      <4>3. p # p0
        BY <3>1, <4>1, <4>2 DEF Trying
      <4> QED
        BY <2>6, <3>1, <4>1, <4>3 DEF Trying
    <3>2. group[x] = "REGISTERING" => n_probing'[x] >= 1
      <4>1. group[x] = "REGISTERING" => n_probing[x] >= 1
        BY HostFacts DEF LockStep
      <4>2. n_probing'[x] \in Int
        BY <2>4, <2>5, <2>8
      <4> QED
        BY <2>4, <2>9, <4>1, <4>2
    <3> QED
      BY <1>1, <2>5, <2>9, <3>1, <3>2, HostFacts DEF LockStep
  <2>13. ASSUME NEW r \in Offer[x], NEW l \in Links, r.unique PROVE Moves(x, r, l)
    <3>1. <<r, l>> \in Pairs(x)
      BY DEF Pairs
    <3>2. CASE <<r, l>> = p0
      <4>1. ann'[x][<<r, l>>] = [st |-> "PROBING", n |-> 1, due |-> 0]
        BY <2>5, <2>6, <2>13, <3>2 DEF InitialState
      <4> QED
        BY <4>1 DEF Moves, Fresh, Owning
    <3>3. CASE <<r, l>> # p0
      <4>1. ann'[x][<<r, l>>] = ann[x][<<r, l>>]
        BY <2>5, <2>6, <3>1, <3>3
      <4>2. Trying(ann[x], r, l) => TryMail(x, r, l)
        <5> SUFFICES ASSUME Trying(ann[x], r, l) PROVE TryMail(x, r, l)
          OBVIOUS
        <5>1. ASSUME NEW g \in Hosts \ {x}, NEW s \in Offer[g], Rivals(x, r, g, s), m.link = l, m.recs = {s}
              PROVE  FALSE
          <6>1. s = q /\ q \notin Offer[x] /\ SameKey(r, q)
            BY <5>1, RivalOf
          <6>2. IsProbing(ann[x], r, m.link)
            BY <5>1 DEF Trying, IsProbing
          <6>3. r \in D
            BY <2>13, <6>1, <6>2 DEF Disputed
          <6> QED
            BY <1>4, <6>2, <6>3
        <5> QED
          BY <1>1, <5>1, TakesMail
      <4>3. OwnMail(x, r, l)
        BY <1>1, TakesMail
      <4>4. ann[x][<<r, l>>].st = "WAITING" => group'[x] = "REGISTERING"
        BY <2>5, <2>13, HostFacts DEF Trying
      <4> QED
        BY <2>9, <2>13, <4>1, <4>2, <4>3, <4>4, Stays
    <3> QED
      BY <3>2, <3>3
  <2> QED
    BY <1>1, <1>2, <2>10, <2>11, <2>12, <2>13, HostStep DEF AllMove
<1> QED
  BY <1>3, <1>4 DEF Contest

\* What another host says of a record none of ours disputes.
LEMMA AcceptOwn ==
    ASSUME ProtocolAssumption, IInv, OwnInv, NEW x \in Hosts, NEW m, Takes(x, m), m.kind = "response",
           NEW q \in m.recs, ~m.bye => Disputed(x, q, m.link) = {}, Accept(x, q, m.link, m.bye), UNCHANGED probes
    PROVE  OwnInv'
<1>1. net' \subseteq net /\ up' = up /\ lost' = lost /\ UNCHANGED <<group, n_probing, ann>>
  BY DEF Takes, Accept, grpVars
<1>2. PICK S \in SUBSET {j \in sched[x] : j.rec = q /\ j.link = m.link} : sched' = [sched EXCEPT ![x] = @ \ S]
  <2> DEFINE S == {j \in {i \in sched[x] : i.rec = q /\ i.link = m.link} : j.bye = m.bye}
  <2>1. sched' = [sched EXCEPT ![x] = @ \ S]
    BY DEF Accept
  <2> QED
    BY <2>1
<1>3. PICK T : /\ sent' = [sent EXCEPT ![x] = T]
               /\ \/ T = sent[x]
                  \/ T = Others(sent[x], q, m.link)
                         \cup {[rec |-> q, link |-> m.link, bye |-> m.bye, left |-> 2]}
  BY DEF Accept
<1>4. /\ sched'[x] = sched[x] \ S /\ sent'[x] = T
      /\ \A g \in Hosts \ {x} : sched'[g] = sched[g] /\ sent'[g] = sent[g]
      /\ sent' = [h \in Hosts |-> sent'[h]]
  BY <1>2, <1>3, Functions DEF Sends
<1>5. MailOK'
  <2>1. \A j \in T : j.left \in {1, 2}
    BY <1>3 DEF OwnInv, MailOK, Others
  <2>2. \A h \in Hosts : \A j \in sent'[h] : j.left \in {1, 2}
    BY <1>4, <2>1 DEF OwnInv, MailOK
  <2>3. \A h \in Hosts : \A j \in sched'[h] : j.rec \in Offer[h]
    BY <1>4 DEF OwnInv, MailOK
  <2>4. \A n \in net' : \A s \in n.recs : \E k \in Hosts \ {n.to} : s \in Offer[k]
    BY <1>1 DEF OwnInv, MailOK
  <2> QED
    BY <1>4, <2>2, <2>3, <2>4 DEF MailOK
<1>6. OthersStay(x)
  BY <1>1, <1>4, TakesOthers
<1>7. ASSUME NEW r \in Offer[x], NEW l \in Links, r.unique
      PROVE  OwnMail(x, r, l) /\ (Trying(ann[x], r, l) => TryMail(x, r, l))
  <2>1. r # q
    <3>1. PICK k \in Hosts \ {x} : q \in Offer[k]
      BY DEF OwnInv, MailOK, Takes
    <3> QED
      BY <1>7, <3>1, NotOurs
  <2>2. Job(sched'[x], r, l) <=> Job(sched[x], r, l)
    BY <1>4, <2>1 DEF Job
  <2>3. \A k : Said(sent[x], r, l, k) => Said(sent'[x], r, l, k)
    BY <1>3, <1>4, <2>1 DEF Said, Others
  <2>4. ASSUME Trying(ann[x], r, l), NEW g \in Hosts \ {x}, NEW s \in Offer[g], Rivals(x, r, g, s), m.link = l,
               m.recs = {s}, ~m.bye
        PROVE  FALSE
    <3>1. s = q /\ q \notin Offer[x] /\ SameKey(r, q)
      BY <2>4, RivalOf
    <3>2. IsProbing(ann[x], r, m.link)
      BY <2>4 DEF Trying, IsProbing
    <3> QED
      BY <1>7, <2>4, <3>1, <3>2 DEF Disputed
  <2>5. Trying(ann[x], r, l) => TryMail(x, r, l)
    BY <1>1, <2>2, <2>3, <2>4, TakesMail
  <2> QED
    BY <1>1, <2>2, <2>3, <2>5, TakesMail
<1>8. \A r \in Offer[x], l \in Links :
         /\ Trying(ann[x], r, l) => TryMail(x, r, l)
         /\ Owning(ann[x], r, l) => OwnMail(x, r, l)
  BY <1>7 DEF Trying, Owning
<1> QED
  BY <1>1, <1>5, <1>6, <1>8, SameGroup

LEMMA ReceiveOwn ==
    ASSUME ProtocolAssumption, IInv, OwnInv, NEW x \in Hosts, Receive(x)
    PROVE  OwnInv'
<1>1. PICK m \in net : /\ m.to = x /\ net' = net \ {m} /\ UNCHANGED <<qzVars, up, bounds>>
                       /\ IF ~up[x][m.link] THEN UNCHANGED <<grpVars, outVars>>
                          ELSE \/ m.kind = "probe" /\ ReceiveProbe(x, m)
                               \/ m.kind = "response" /\ ReceiveResponse(x, m) /\ UNCHANGED probes
  BY DEF Receive
<1>2. Takes(x, m)
  BY <1>1 DEF Takes, bounds
<1>3. CASE ~up[x][m.link]
  BY <1>1, <1>2, <1>3, DropOwn
<1>4. CASE m.kind = "probe" /\ ReceiveProbe(x, m)
  BY <1>2, <1>4, ReceiveProbeOwn
<1>5. CASE m.kind = "response" /\ ReceiveResponse(x, m) /\ UNCHANGED probes
  <2>1. PICK q \in m.recs :
          \/ m.bye /\ Refresh(x, q, m.link)
          \/ Contest(x, Disputed(x, q, m.link), m.link)
          \/ (~m.bye => Disputed(x, q, m.link) = {}) /\ Accept(x, q, m.link, m.bye)
    <3>1. PICK q \in m.recs :
            LET D == IF m.bye THEN {} ELSE Disputed(x, q, m.link)
            IN  \/ m.bye /\ Refresh(x, q, m.link)
                \/ D # {} /\ Contest(x, D, m.link)
                \/ D = {} /\ Accept(x, q, m.link, m.bye)
      BY <1>5 DEF ReceiveResponse
    <3>2. (IF m.bye THEN {} ELSE Disputed(x, q, m.link)) # {} =>
             (IF m.bye THEN {} ELSE Disputed(x, q, m.link)) = Disputed(x, q, m.link)
      OBVIOUS
    <3> QED
      BY <3>1, <3>2
  <2> QED
    BY <1>2, <1>5, <2>1, RefreshOwn, ContestOwn, AcceptOwn
<1> QED
  BY <1>1, <1>3, <1>4, <1>5

(***************************************************************************)
(* Time passes                                                             *)
(***************************************************************************)
\* What a tick does to an announcer and to the history.
LEMMA TickShape ==
    ASSUME IInv, OwnInv, Tick, NEW h \in Hosts
    PROVE  /\ \A p \in Pairs(h) :
                 LET a == ann[h][p]
                     c == ann'[h][p]
                 IN  /\ c.st = a.st /\ c.n = a.n
                     /\ a.st = "PROBING" => a.due = 1 /\ c.due = 0
                     /\ a.st # "PROBING" => c.due = a.due
           /\ Live(h)' = Live(h)
           /\ \A i \in sent'[h] : i.left = 1 /\
                \E j \in sent[h] : j.left = 2 /\ i.rec = j.rec /\ i.link = j.link /\ i.bye = j.bye
           /\ sent' = [g \in Hosts |-> sent'[g]]
           /\ sched[h] = {} /\ probes[h] = {} /\ net = {}
<1> DEFINE A == [p \in Pairs(h) |-> IF ann[h][p].st = "PROBING" THEN [ann[h][p] EXCEPT !.due = 0]
                                    ELSE ann[h][p]]
<1>1. ann[h] \in Announcers(h)
  BY Kept DEF IInv, PubInv, GroupOK
<1>2. ann'[h] = A
  BY DEF Tick
<1>3. \A p \in Pairs(h) : ann[h][p].st = "PROBING" => ann[h][p].due = 1
  BY DEF Tick
<1>4. ASSUME NEW p \in Pairs(h)
      PROVE  /\ A[p] \in [st : AnnStates, n : Nat, due : {0, 1}]
             /\ A[p].st = ann[h][p].st /\ A[p].n = ann[h][p].n
             /\ ann[h][p].st = "PROBING" => A[p].due = 0
             /\ ann[h][p].st # "PROBING" => A[p].due = ann[h][p].due
  <2> DEFINE a == ann[h][p]
  <2>1. a \in [st : AnnStates, n : Nat, due : {0, 1}]
    BY <1>1 DEF Announcers
  <2>2. A[p] = IF a.st = "PROBING" THEN [a EXCEPT !.due = 0] ELSE a
    OBVIOUS
  <2> HIDE DEF a, A
  <2> QED
    BY <2>1, <2>2 DEF a
<1>5. A \in Announcers(h) /\ ProbingIn(A) = ProbingIn(ann[h])
  BY <1>1, <1>4 DEF Announcers, ProbingIn
<1> HIDE DEF A
<1>6. Count(A) = Count(ann[h])
  BY <1>1, <1>5, CountSame
<1>7. Live(h)' = Live(h)
  BY <1>2, <1>6 DEF Live, Tick
<1>8. \A i \in sent'[h] : i.left = 1 /\
        \E j \in sent[h] : j.left = 2 /\ i.rec = j.rec /\ i.link = j.link /\ i.bye = j.bye
  <2> SUFFICES ASSUME NEW i \in sent'[h]
               PROVE  i.left = 1 /\ \E j \in sent[h] : j.left = 2 /\ i.rec = j.rec /\ i.link = j.link /\ i.bye = j.bye
    OBVIOUS
  <2>1. PICK j \in sent[h] : j.left = 2 /\ i = [j EXCEPT !.left = 1]
    BY DEF Tick
  <2> QED
    BY <2>1
<1>9. sched[h] = {} /\ probes[h] = {} /\ net = {} /\ sent' = [g \in Hosts |-> sent'[g]]
  BY DEF Tick
<1> QED
  BY <1>2, <1>3, <1>4, <1>7, <1>8, <1>9

\* Of a record that is tried for, by a group that will come to an end.
LEMMA NoneWaits ==
    ASSUME ProtocolAssumption, IInv, OwnInv, Tick, NEW h \in Hosts, Live(h), NEW r \in Offer[h], NEW l \in Links,
           Trying(ann[h], r, l)
    PROVE  ann[h][<<r, l>>].st = "PROBING"
<1> DEFINE a == ann[h][<<r, l>>]
<1> SUFFICES ASSUME a.st = "WAITING" PROVE FALSE
  BY DEF Trying
<1>1. group[h] = "REGISTERING" /\ Age(a) = ProbeEnd - 1 /\ ProbeEnd \in Nat
  BY HostFacts, AgeType, CountAssumption DEF SelfOK, ProtocolAssumption
<1>2. n_probing[h] = Count(ann[h]) /\ n_probing[h] >= 1
  BY <1>1, HostFacts DEF LockStep, Live
<1>3. ann[h] \in Announcers(h)
  BY Kept DEF IInv, PubInv, GroupOK
<1>4. Count(ann[h]) = Cardinality(ProbingIn(ann[h])) /\ Cardinality({}) = 0
  BY <1>3, CountBound, FS_EmptySet
<1>5. PICK p \in ProbingIn(ann[h]) : TRUE
  BY <1>2, <1>4
<1>6. p \in Pairs(h) /\ ann[h][p].st = "PROBING" /\ p = <<p[1], p[2]>> /\ p[1] \in Offer[h] /\ p[2] \in Links
  BY <1>3 DEF ProbingIn, Announcers, Pairs
<1>7. Trying(ann[h], p[1], p[2])
  BY <1>6, HostFacts DEF OnlyUp, Trying
<1>8. ann[h][p].due = 1
  BY <1>6, TickShape
<1>9. ann[h][p].n \in 1..ProbeEnd
  BY <1>6, <1>7, HostFacts DEF SelfOK
<1>10. Age(ann[h][p]) = ann[h][p].n - 2
  BY <1>8, <1>9 DEF Age
<1>11. <<r, l>> \in Pairs(h) /\ <<r, l>>[1] = r /\ <<r, l>>[2] = l
  BY DEF Pairs
<1>12. Age(ann[h][p]) = Age(a)
  BY <1>1, <1>6, <1>7, <1>11, HostFacts DEF LockStep
<1> HIDE DEF a
<1> QED
  BY <1>1, <1>9, <1>10, <1>12

\* A tick makes one that probes older, and leaves one that waits.
LEMMA TickAge ==
    ASSUME ProtocolAssumption, IInv, OwnInv, Tick, NEW h \in Hosts, NEW r \in Offer[h], NEW l \in Links,
           Trying(ann[h], r, l)
    PROVE  LET a == ann[h][<<r, l>>]
               c == ann'[h][<<r, l>>]
           IN  /\ Age(a) \in Nat /\ Trying(ann'[h], r, l) /\ c.due = 0 /\ c.st = a.st /\ c.n = a.n
               /\ a.st = "PROBING" => Age(c) = Age(a) + 1 /\ a.due = 1
               /\ a.st = "WAITING" => Age(c) = Age(a) /\ Age(a) >= 3
<1> DEFINE a == ann[h][<<r, l>>]
           c == ann'[h][<<r, l>>]
<1>1. <<r, l>> \in Pairs(h)
  BY DEF Pairs
<1>2. /\ c.st = a.st /\ c.n = a.n /\ (a.st = "PROBING" => a.due = 1 /\ c.due = 0)
      /\ a.st # "PROBING" => c.due = a.due
  BY <1>1, TickShape
<1>3. /\ a.n \in Nat /\ a.due \in {0, 1} /\ Age(a) \in Nat
      /\ a.st = "WAITING" => a.n = ProbeEnd /\ a.due = 0
  BY HostFacts, AgeType DEF SelfOK
<1>4. Trying(ann'[h], r, l) /\ a.st \in {"PROBING", "WAITING"}
  BY <1>2 DEF Trying
<1>5. ProbeEnd \in Nat /\ ProbeEnd >= 4
  BY CountAssumption DEF ProtocolAssumption
<1> HIDE DEF a, c
<1>6. c.due = 0
  BY <1>2, <1>3, <1>4
<1>7. a.st = "PROBING" => Age(c) = Age(a) + 1
  BY <1>2, <1>3 DEF Age
<1>8. a.st = "WAITING" => Age(c) = Age(a) /\ Age(a) >= 3
  BY <1>2, <1>3, <1>5, <1>6 DEF Age
<1> QED
  BY <1>2, <1>3, <1>4, <1>6, <1>7, <1>8 DEF a, c

\* What is in the history of a record is one tick older.
LEMMA TickSaid ==
    ASSUME IInv, OwnInv, Tick, NEW h \in Hosts, NEW r \in Offer[h], NEW l \in Links, NEW k \in Nat
    PROVE  /\ Said(sent[h], r, l, 2 - k) => Said(sent'[h], r, l, 2 - (k + 1))
           /\ k >= 1 /\ Said(sent[h], r, l, 2 - k) => Said(sent'[h], r, l, 2 - k)
<1> SUFFICES ASSUME Said(sent[h], r, l, 2 - k), NEW i \in sent'[h], i.rec = r, i.link = l, ~i.bye
             PROVE  i.left <= 2 - (k + 1) /\ (k >= 1 => i.left <= 2 - k)
  BY DEF Said
<1>1. i.left = 1 /\ \E j \in sent[h] : j.left = 2 /\ i.rec = j.rec /\ i.link = j.link /\ i.bye = j.bye
  BY TickShape
<1>2. 2 <= 2 - k
  BY <1>1 DEF Said
<1> QED
  BY <1>1, <1>2

LEMMA TickSelf ==
    ASSUME ProtocolAssumption, IInv, OwnInv, Tick, NEW h \in Hosts, NEW r \in Offer[h], NEW l \in Links
    PROVE  SelfOK(h, r, l)'
<1> DEFINE a == ann[h][<<r, l>>]
           c == ann'[h][<<r, l>>]
<1>1. <<r, l>> \in Pairs(h)
  BY DEF Pairs
<1> SUFFICES ASSUME Trying(ann'[h], r, l)
             PROVE  /\ c.n \in 1..ProbeEnd /\ c.due \in {0, 1} /\ (c.due = 1 => c.n >= 2)
                    /\ c.st = "WAITING" => c.n = ProbeEnd /\ c.due = 0 /\ group'[h] = "REGISTERING"
                    /\ Job(sched'[h], r, l) => Age(c) = 0
                    /\ Said(sent'[h], r, l, 2 - Age(c))
  BY DEF SelfOK
<1>2. Trying(ann[h], r, l)
  BY <1>1, TickShape DEF Trying
<1>3. /\ Age(a) \in Nat /\ c.due = 0 /\ c.st = a.st /\ c.n = a.n
      /\ a.st = "PROBING" => Age(c) = Age(a) + 1
      /\ a.st = "WAITING" => Age(c) = Age(a) /\ Age(a) >= 3
  BY <1>2, TickAge
<1>4. /\ a.n \in 1..ProbeEnd /\ (a.st = "WAITING" => a.n = ProbeEnd /\ group[h] = "REGISTERING")
      /\ Said(sent[h], r, l, 2 - Age(a))
  BY <1>2, HostFacts DEF SelfOK
<1>5. ~Job(sched'[h], r, l) /\ group'[h] = group[h]
  BY TickShape DEF Job, Tick
<1>6. Said(sent'[h], r, l, 2 - Age(c))
  <2>1. a.st = "PROBING" => Said(sent'[h], r, l, 2 - Age(c))
    BY <1>3, <1>4, TickSaid
  <2>2. a.st = "WAITING" => Said(sent'[h], r, l, 2 - Age(c))
    BY <1>3, <1>4, TickSaid
  <2> QED
    BY <1>2, <2>1, <2>2 DEF Trying
<1> HIDE DEF a, c
<1> QED
  BY <1>3, <1>4, <1>5, <1>6

LEMMA TickRivals ==
    ASSUME ProtocolAssumption, IInv, OwnInv, AllRivals, Tick,
           NEW h \in Hosts, NEW g \in Hosts, NEW r \in Offer[h], NEW q \in Offer[g], NEW l \in Links,
           Rivals(h, r, g, q)
    PROVE  RivalsOK(h, r, g, q, l)'
<1> DEFINE a == ann[h][<<r, l>>]
           b == ann[g][<<q, l>>]
           c == ann'[h][<<r, l>>]
           d == ann'[g][<<q, l>>]
<1>1. RivalsOK(h, r, g, q, l)
  BY DEF AllRivals
<1>2. <<r, l>> \in Pairs(h) /\ <<q, l>> \in Pairs(g)
  BY DEF Pairs
<1>3. /\ Owning(ann'[h], r, l) <=> Owning(ann[h], r, l)
      /\ Owning(ann'[g], q, l) <=> Owning(ann[g], q, l)
      /\ Trying(ann'[h], r, l) <=> Trying(ann[h], r, l)
      /\ Trying(ann'[g], q, l) <=> Trying(ann[g], q, l)
  BY <1>2, TickShape DEF Owning, Trying
<1>4. Live(h)' = Live(h) /\ Live(g)' = Live(g)
  BY TickShape
<1>5. /\ ~Job(sched[h], r, l) /\ ~Answered(net, g, r, l) /\ ~Asked(probes[g], net, h, q, l)
  BY TickShape DEF Job, Answered, Asked
<1>6. ~(Owning(ann'[h], r, l) /\ Owning(ann'[g], q, l))
  BY <1>1, <1>3 DEF RivalsOK
<1>7. ASSUME Trying(ann[g], q, l), Live(g)
      PROVE  Age(b) \in Nat /\ d.due = 0 /\ Age(d) = Age(b) + 1 /\ b.due = 1
  BY <1>7, NoneWaits, TickAge
<1>8. ASSUME Owning(ann'[h], r, l), Trying(ann'[g], q, l), Live(g)'
      PROVE  Age(d) <= 2 /\ Said(sent'[h], r, l, 2 - Age(d)) /\ d.due = 0
  <2>1. Age(b) <= 2 /\ Said(sent[h], r, l, 2 - Age(b)) /\ (b.due = 1 => Age(b) # 2)
    BY <1>1, <1>3, <1>4, <1>5, <1>8 DEF RivalsOK
  <2>2. Age(b) \in Nat /\ d.due = 0 /\ Age(d) = Age(b) + 1 /\ b.due = 1
    BY <1>3, <1>4, <1>7, <1>8
  <2>3. Said(sent'[h], r, l, 2 - (Age(b) + 1))
    BY <2>1, <2>2, TickSaid
  <2> HIDE DEF b, d
  <2> QED
    BY <2>1, <2>2, <2>3
<1>9. ASSUME r.data < q.data, Trying(ann'[h], r, l), Trying(ann'[g], q, l), Live(h)', Live(g)'
      PROVE  Age(c) <= 1 /\ d.due = 0
  <2>1. b.due = 1 => Age(a) = 0
    BY <1>1, <1>3, <1>4, <1>5, <1>9 DEF RivalsOK
  <2>2. d.due = 0 /\ b.due = 1
    BY <1>3, <1>4, <1>7, <1>9
  <2>3. Age(c) = Age(a) + 1
    BY <1>3, <1>4, <1>9, NoneWaits, TickAge
  <2> HIDE DEF a, b, c, d
  <2> QED
    BY <2>1, <2>2, <2>3
<1> QED
  BY <1>6, <1>8, <1>9 DEF RivalsOK

LEMMA TickOwn ==
    ASSUME ProtocolAssumption, IInv, OwnInv, Tick
    PROVE  OwnInv'
<1>1. UNCHANGED <<group, n_probing, up, sched, net, lost>>
  BY DEF Tick, bounds
<1>2. SelvesOK'
  BY TickSelf DEF SelvesOK
<1>3. AllRivals => AllRivals'
  BY TickRivals DEF AllRivals, Rivals
<1>4. MailOK'
  <2>1. \A h \in Hosts : \A i \in sent'[h] : i.left = 1
    BY TickShape
  <2>2. sent' = [h \in Hosts |-> sent'[h]]
    BY DEF Tick
  <2> QED
    BY <1>1, <2>1, <2>2 DEF OwnInv, MailOK
<1>5. ASSUME NEW h \in Hosts PROVE OnlyUp(h)' /\ LockStep(h)'
  <2>1. \A p \in Pairs(h) : ann'[h][p].st = ann[h][p].st
    BY TickShape
  <2>2. Live(h)' = Live(h)
    BY TickShape
  <2>3. OnlyUp(h)'
    BY <1>1, <2>1, HostFacts DEF OnlyUp
  <2>4. ASSUME Live(h), NEW p \in Pairs(h), Trying(ann'[h], p[1], p[2])
        PROVE  Trying(ann[h], p[1], p[2]) /\ Age(ann'[h][p]) = Age(ann[h][p]) + 1
    <3>1. p = <<p[1], p[2]>> /\ p[1] \in Offer[h] /\ p[2] \in Links
      BY DEF Pairs
    <3>2. Trying(ann[h], p[1], p[2])
      BY <2>1, <2>4, <3>1 DEF Trying
    <3> QED
      BY <2>4, <3>1, <3>2, NoneWaits, TickAge
  <2>5. LockStep(h)'
    BY <1>1, <2>2, <2>4, HostFacts DEF LockStep
  <2> QED
    BY <2>3, <2>5
<1> QED
  BY <1>1, <1>2, <1>3, <1>4, <1>5 DEF OwnInv

(***************************************************************************)
(* One owner                                                               *)
(***************************************************************************)
LEMMA OwnInit == PubInit => OwnInv
<1> SUFFICES ASSUME PubInit PROVE OwnInv
  OBVIOUS
<1>1. \A h \in Hosts : \A p \in Pairs(h) : ann[h][p].st = "none"
  BY DEF PubInit, Absent
<1>2. \A h \in Hosts, l \in Links : \A r \in Offer[h] : ~Trying(ann[h], r, l) /\ ~Owning(ann[h], r, l)
  BY <1>1 DEF Pairs, Trying, Owning
<1>3. SelvesOK /\ AllRivals
  BY <1>2 DEF SelvesOK, SelfOK, AllRivals, RivalsOK
<1>4. MailOK
  BY DEF PubInit, MailOK
<1>5. \A h \in Hosts : OnlyUp(h) /\ LockStep(h)
  BY <1>1 DEF PubInit, OnlyUp, LockStep
<1> QED
  BY <1>3, <1>4, <1>5 DEF PubInit, OwnInv

LEMMA OwnStep == ProtocolAssumption /\ IInv /\ OwnInv /\ [PubNext]_vars => OwnInv'
<1> SUFFICES ASSUME ProtocolAssumption, IInv, OwnInv, [PubNext]_vars PROVE OwnInv'
  OBVIOUS
<1>1. ASSUME NEW h \in Hosts, Timers(h) PROVE OwnInv'
  BY <1>1, SendProbesOwn, SendResponseOwn, ProbeOwn, ProbedOwn, AnnounceOwn DEF Timers
<1>2. ASSUME NEW h \in Hosts, Client(h) \/ Receive(h) PROVE OwnInv'
  BY <1>2, ClientOwn, ReceiveOwn
<1>3. ASSUME NEW h \in Hosts, NEW l \in Links, LinkDown(h, l) \/ LinkUp(h, l) PROVE OwnInv'
  BY <1>3, LinkDownOwn, LinkUpOwn
<1>4. CASE Lose \/ Tick
  BY <1>4, LoseOwn, TickOwn
<1>5. CASE UNCHANGED vars
  BY <1>5, NothingOwn DEF vars, bounds
<1> QED
  BY <1>1, <1>2, <1>3, <1>4, <1>5 DEF PubNext

LEMMA OwnInvOneOwner == OwnInv => OneOwner
<1> SUFFICES ASSUME OwnInv, lost = 0, NEW h \in Hosts, NEW g \in Hosts, h # g, NEW k, NEW l \in Links,
                    Owns(h, k, l), Owns(g, k, l)
             PROVE  FALSE
  BY DEF OneOwner, TwoOwners
<1>1. PICK r \in Offer[h] : r.key = k /\ Owning(ann[h], r, l)
  BY DEF Owns, Owning
<1>2. PICK q \in Offer[g] : q.key = k /\ Owning(ann[g], q, l)
  BY DEF Owns, Owning
<1>3. Rivals(h, r, g, q)
  BY <1>1, <1>2 DEF Rivals, SameKey, Owning
<1>4. RivalsOK(h, r, g, q, l)
  BY <1>3 DEF OwnInv, AllRivals
<1> QED
  BY <1>1, <1>2, <1>4 DEF RivalsOK

(***************************************************************************)
(* For any number of hosts and records, as long as the link loses nothing, *)
(* no two hosts own one unique name on an interface: the three probes      *)
(* outlast the second for which an answer is suppressed, and of two that   *)
(* try at once the lesser gives way (announce.c, server.c,                 *)
(* response-sched.c). It takes at least the four iterations of the code,   *)
(* records of different hosts that say different things of the name, as    *)
(* those of a service do (an SRV record names its host), and either one    *)
(* interface, which may come and go, or interfaces that stay: what waits   *)
(* for an interface that has come late is not defended meanwhile.          *)
(***************************************************************************)
THEOREM OneOwnerCorrect == ASSUME ProtocolAssumption PROVE PubSpec => []OneOwner
<1>1. PubInit => IInv /\ OwnInv
  BY PubInitOK, OwnInit
<1>2. (IInv /\ OwnInv) /\ [PubNext]_vars => (IInv /\ OwnInv)'
  BY PubStep, OwnStep
<1>3. IInv /\ OwnInv => OneOwner
  BY OwnInvOneOwner
<1> QED
  BY <1>1, <1>2, <1>3, PTL DEF PubSpec

=============================================================================
