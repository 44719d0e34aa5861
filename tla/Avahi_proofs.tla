---------------------------- MODULE Avahi_proofs ----------------------------
(***************************************************************************)
(* Proofs about the avahi server as a program, for any values of the       *)
(* constants. EventLoop: whatever the two threads and the callbacks        *)
(* change, poll() looks at what is current and what was freed is silent.   *)
(* HostRecords: however the updates of the addresses' groups call each     *)
(* other, the groups that are pending are counted right. Interfaces:       *)
(* however the links and addresses change while they are dumped, in the    *)
(* end the server knows what there is. TimeEvents: whatever is put, freed  *)
(* and set again, the queue stays a heap, its timer is in time, and the    *)
(* earliest runs.                                                          *)
(***************************************************************************)
EXTENDS EventLoop, HostRecords, Interfaces, TimeEvents, FiniteSetTheorems, WellFoundedInduction, TLAPS

(***************************************************************************)
(* Induction, and functions defined by recursion over a sequence           *)
(***************************************************************************)
LEMMA LeastNatural ==
    ASSUME NEW T, T \subseteq Nat, T # {}
    PROVE  \E n \in T : \A m \in T : n <= m
<1> DEFINE R == OpToRel(<, Nat)
<1>1. PICK n \in T : \A m \in T : ~ (<<m, n>> \in R)
  BY WFMin, NatLessThanWellFounded
<1>2. \A m \in T : ~ (m < n)
  BY <1>1 DEF OpToRel
<1> QED
  BY <1>2

\* What holds of 0 and goes on from each number to the next holds of all up to n.
LEMMA UpTo ==
    ASSUME NEW n \in Nat, NEW G, 0 \in G, \A i \in 1..n : i - 1 \in G => i \in G
    PROVE  \A i \in 0..n : i \in G
<1> SUFFICES ASSUME \E i \in 0..n : i \notin G PROVE FALSE
  OBVIOUS
<1> DEFINE Wrong == {i \in 0..n : i \notin G}
<1>1. PICK i \in Wrong : \A j \in Wrong : i <= j
  <2>1. Wrong \subseteq Nat /\ Wrong # {}
    OBVIOUS
  <2> QED
    BY <2>1, LeastNatural
<1>2. i \in 1..n /\ i - 1 \in 0..n /\ ~(i <= i - 1)
  BY <1>1
<1>3. i - 1 \in G
  BY <1>1, <1>2
<1> QED
  BY <1>1, <1>2, <1>3

(***************************************************************************)
(* A function that is given at 0, and at i by what step makes of its value *)
(* at i - 1, exists, however far it goes.                                  *)
(***************************************************************************)
Folded(f, S, c, step, n) ==
    /\ f \in [0..n -> S] /\ f[0] = c
    /\ \A i \in 1..n : f[i] = step[<<f[i - 1], i>>]

LEMMA FoldExists ==
    ASSUME NEW S, NEW c \in S, NEW n \in Nat, NEW step \in [S \X (1..n) -> S]
    PROVE  \E f : Folded(f, S, c, step, n)
<1> DEFINE G == {i \in 0..n : \E f : Folded(f, S, c, step, i)}
<1>1. 0 \in G
  <2>1. PICK f : f = [i \in {0} |-> c]
    OBVIOUS
  <2>2. 0..0 = {0} /\ 1..0 = {}
    OBVIOUS
  <2>3. Folded(f, S, c, step, 0)
    BY <2>1, <2>2 DEF Folded
  <2> QED
    BY <2>3
<1>2. ASSUME NEW i \in 1..n, i - 1 \in G PROVE i \in G
  <2>1. PICK f : Folded(f, S, c, step, i - 1)
    BY <1>2
  <2>2. /\ f \in [0..(i - 1) -> S] /\ f[0] = c /\ i - 1 \in 0..(i - 1) /\ i \in 0..n
        /\ \A j \in 1..(i - 1) : f[j] = step[<<f[j - 1], j>>]
    BY <2>1 DEF Folded
  <2>3. PICK x : x = step[<<f[i - 1], i>>]
    OBVIOUS
  <2>4. x \in S
    <3>1. f[i - 1] \in S
      BY <2>2
    <3>2. <<f[i - 1], i>> \in S \X (1..n)
      BY <3>1
    <3> QED
      BY <2>3, <3>2
  <2>5. PICK g : g = [j \in 0..i |-> IF j = i THEN x ELSE f[j]]
    OBVIOUS
  <2>6. g[i] = x /\ g \in [0..i -> S] /\ g[0] = c
    <3>1. \A j \in 0..i : j = i \/ j \in 0..(i - 1)
      OBVIOUS
    <3>2. \A j \in 0..i : (IF j = i THEN x ELSE f[j]) \in S
      BY <2>2, <2>4, <3>1
    <3>3. 0 \in 0..i /\ i \in 0..i /\ 0 # i
      OBVIOUS
    <3> QED
      BY <2>2, <2>5, <3>2, <3>3
  <2>7. ASSUME NEW j \in 1..i PROVE g[j] = step[<<g[j - 1], j>>]
    <3>1. j \in 0..i /\ j - 1 \in 0..i /\ j - 1 # i
      OBVIOUS
    <3>2. g[j - 1] = f[j - 1] /\ (j # i => g[j] = f[j])
      BY <2>5, <3>1
    <3>3. CASE j = i
      BY <2>3, <2>6, <3>2, <3>3
    <3>4. CASE j # i
      <4>1. j \in 1..(i - 1)
        BY <3>4
      <4> QED
        BY <2>2, <3>2, <3>4, <4>1
    <3> QED
      BY <3>3, <3>4
  <2>8. Folded(g, S, c, step, i)
    BY <2>6, <2>7 DEF Folded
  <2> QED
    BY <2>2, <2>8
<1>3. \A i \in 0..n : i \in G
  BY <1>1, <1>2, UpTo
<1>4. n \in 0..n
  OBVIOUS
<1> QED
  BY <1>3, <1>4

-----------------------------------------------------------------------------
(***************************************************************************)
(* EventLoop                                                               *)
(***************************************************************************)
\* No watch is twice in the list.
Unique(q) == \A i, j \in 1..Len(q) : q[i] = q[j] => i = j

\* Keep's function.
KeepRec(f, q, D) ==
    [i \in 0..Len(q) |-> IF i = 0 THEN <<>>
                         ELSE IF q[i] \in D THEN f[i - 1] ELSE Append(f[i - 1], q[i])]

LEMMA KeepRecs ==
    ASSUME NEW S, NEW q \in Seq(S), NEW D
    PROVE  \E f : f = KeepRec(f, q, D)
<1> PICK n \in Nat : n = Len(q)
  OBVIOUS
<1> DEFINE step == [p \in Seq(S) \X (1..n) |-> IF q[p[2]] \in D THEN p[1] ELSE Append(p[1], q[p[2]])]
<1>1. step \in [Seq(S) \X (1..n) -> Seq(S)]
  <2>1. ASSUME NEW p \in Seq(S) \X (1..n)
        PROVE  (IF q[p[2]] \in D THEN p[1] ELSE Append(p[1], q[p[2]])) \in Seq(S)
    <3>1. p[1] \in Seq(S) /\ q[p[2]] \in S
      OBVIOUS
    <3> QED
      BY <3>1
  <2> QED
    BY <2>1
<1>2. <<>> \in Seq(S)
  OBVIOUS
<1>3. \A p \in Seq(S), i \in 1..n : step[<<p, i>>] = IF q[i] \in D THEN p ELSE Append(p, q[i])
  OBVIOUS
<1> HIDE DEF step
<1>4. PICK f : Folded(f, Seq(S), <<>>, step, n)
  BY <1>1, <1>2, FoldExists
<1>5. f \in [0..n -> Seq(S)] /\ f[0] = <<>> /\ \A i \in 1..n : f[i] = step[<<f[i - 1], i>>]
  BY <1>4 DEF Folded
<1>6. ASSUME NEW i \in 1..n PROVE f[i] = IF q[i] \in D THEN f[i - 1] ELSE Append(f[i - 1], q[i])
  <2>1. f[i - 1] \in Seq(S)
    BY <1>5
  <2> QED
    BY <1>3, <1>5, <2>1
<1>7. ASSUME NEW i \in 0..n
      PROVE  f[i] = IF i = 0 THEN <<>> ELSE IF q[i] \in D THEN f[i - 1] ELSE Append(f[i - 1], q[i])
  <2>1. i # 0 => i \in 1..n
    OBVIOUS
  <2> QED
    BY <1>5, <1>6, <2>1
<1>8. f = [i \in 0..n |-> f[i]]
  BY <1>5
<1>9. f = KeepRec(f, q, D)
  BY <1>7, <1>8 DEF KeepRec
<1> QED
  BY <1>9

\* Nothing but what is in D is lost, and nothing comes twice.
KeptFacts(l, q, D) ==
    /\ \A i \in 1..Len(l) : \E j \in 1..Len(q) : q[j] = l[i] /\ q[j] \notin D
    /\ \A j \in 1..Len(q) : q[j] \notin D => \E i \in 1..Len(l) : l[i] = q[j]
    /\ Unique(l)

LEMMA KeepFacts ==
    ASSUME NEW S, NEW q \in Seq(S), NEW D, Unique(q)
    PROVE  Keep(q, D) \in Seq(S) /\ KeptFacts(Keep(q, D), q, D)
<1> DEFINE f == CHOOSE g : g = KeepRec(g, q, D)
<1>1. f = KeepRec(f, q, D)
  BY KeepRecs
<1>2. Keep(q, D) = f[Len(q)]
  BY DEF Keep, KeepRec
<1> HIDE DEF f
<1> PICK n \in Nat : n = Len(q)
  OBVIOUS
<1>3. f[0] = <<>> /\ \A i \in 1..n : f[i] = IF q[i] \in D THEN f[i - 1] ELSE Append(f[i - 1], q[i])
  <2>1. f = [i \in 0..n |-> IF i = 0 THEN <<>> ELSE IF q[i] \in D THEN f[i - 1] ELSE Append(f[i - 1], q[i])]
    BY <1>1 DEF KeepRec
  <2>2. 0 \in 0..n /\ \A i \in 1..n : i \in 0..n /\ i # 0
    OBVIOUS
  <2> QED
    BY <2>1, <2>2
<1> DEFINE Good(i, l) ==
      /\ l \in Seq(S)
      /\ \A k \in 1..Len(l) : \E j \in 1..i : q[j] = l[k] /\ q[j] \notin D
      /\ \A j \in 1..i : q[j] \notin D => \E k \in 1..Len(l) : l[k] = q[j]
      /\ Unique(l)
   G == {i \in 0..n : Good(i, f[i])}
<1>g. ASSUME NEW i \in 0..n, NEW l, f[i] = l, Good(i, l) PROVE i \in G
  BY <1>g
<1>4. 0 \in G
  <2>1. Len(<<>>) = 0 /\ <<>> \in Seq(S) /\ 1..0 = {}
    OBVIOUS
  <2> QED
    <3>1. Good(0, <<>>)
      BY <2>1 DEF Unique
    <3> QED
      BY <1>3, <1>g, <3>1, 0 \in 0..n
<1>5. ASSUME NEW i \in 1..n, i - 1 \in G PROVE i \in G
  <2> PICK l : l = f[i - 1]
    OBVIOUS
  <2>1. Good(i - 1, l) /\ Len(l) \in Nat /\ i \in 0..n /\ q[i] \in S
    <3>1. Good(i - 1, l)
      BY <1>5
    <3>2. Len(l) \in Nat
      BY <3>1
    <3>3. i \in 0..n /\ i \in 1..Len(q)
      BY <1>5
    <3>4. q[i] \in S
      BY <3>3
    <3> QED
      BY <3>1, <3>2, <3>3, <3>4
  <2>2. \A j \in 1..(i - 1) : j \in 1..i
    OBVIOUS
  <2>3. \A j \in 1..i : j = i \/ j \in 1..(i - 1)
    OBVIOUS
  <2>4. CASE q[i] \in D
    <3>1. f[i] = l
      BY <1>3, <2>4
    <3>2. Good(i, l)
      BY <2>1, <2>2, <2>3, <2>4
    <3> QED
      BY <1>g, <2>1, <3>1, <3>2
  <2>5. CASE q[i] \notin D
    <3>1. PICK m : m = Append(l, q[i])
      OBVIOUS
    <3>2. /\ m \in Seq(S) /\ Len(m) = Len(l) + 1 /\ m[Len(l) + 1] = q[i]
          /\ \A k \in 1..Len(l) : m[k] = l[k]
      BY <2>1, <3>1
    <3>3. \A k \in 1..Len(m) : k \in 1..Len(l) \/ k = Len(l) + 1
      BY <2>1, <3>2
    <3>4. \A k \in 1..Len(m) : \E j \in 1..i : q[j] = m[k] /\ q[j] \notin D
      BY <2>1, <2>2, <2>5, <3>2, <3>3
    <3>5. \A j \in 1..i : q[j] \notin D => \E k \in 1..Len(m) : m[k] = q[j]
      <4>1. Len(l) + 1 \in 1..Len(m) /\ \A k \in 1..Len(l) : k \in 1..Len(m)
        BY <2>1, <3>2
      <4>2. ASSUME NEW j \in 1..(i - 1), q[j] \notin D PROVE \E k \in 1..Len(m) : m[k] = q[j]
        <5>1. PICK k \in 1..Len(l) : l[k] = q[j]
          BY <2>1, <4>2
        <5> QED
          BY <3>2, <4>1, <5>1
      <4>3. \E k \in 1..Len(m) : m[k] = q[i]
        BY <3>2, <4>1
      <4> QED
        BY <2>3, <4>2, <4>3
    <3>6. Unique(m)
      <4>1. \A k \in 1..Len(l) : l[k] # q[i]
        <5> SUFFICES ASSUME NEW k \in 1..Len(l), l[k] = q[i] PROVE FALSE
          OBVIOUS
        <5>1. PICK j \in 1..(i - 1) : q[j] = q[i]
          BY <2>1
        <5>2. j \in 1..Len(q) /\ i \in 1..Len(q) /\ j # i
          OBVIOUS
        <5> QED
          BY <5>1, <5>2 DEF Unique
      <4> SUFFICES ASSUME NEW a \in 1..Len(m), NEW b \in 1..Len(m), m[a] = m[b] PROVE a = b
        BY DEF Unique
      <4>2. (a \in 1..Len(l) /\ m[a] = l[a]) \/ (a = Len(l) + 1 /\ m[a] = q[i])
        BY <3>2, <3>3
      <4>3. (b \in 1..Len(l) /\ m[b] = l[b]) \/ (b = Len(l) + 1 /\ m[b] = q[i])
        BY <3>2, <3>3
      <4> QED
        BY <2>1, <4>1, <4>2, <4>3 DEF Unique
    <3>7. f[i] = m
      BY <1>3, <2>5, <3>1
    <3>8. Good(i, m)
      BY <3>2, <3>4, <3>5, <3>6
    <3> QED
      BY <2>1, <3>7, <3>8
  <2> QED
    BY <2>4, <2>5
<1>6. \A i \in 0..n : i \in G
  BY <1>4, <1>5, UpTo
<1>7. n \in 0..n
  OBVIOUS
<1>8. Good(n, f[n])
  BY <1>6, <1>7
<1> QED
  BY <1>2, <1>8 DEF KeptFacts

(***************************************************************************)
(* LoopInv: the list holds no watch twice, what is dead is going to be     *)
(* cleaned up, and unless pollfds is to be rebuilt the watches that live   *)
(* and its places are each other's, with the events there are.  While the  *)
(* loop polls and nobody has written to the pipe, it is not to be rebuilt, *)
(* and poll() ends in time.                                                *)
(***************************************************************************)
DeadAreCleaned == dead \cap Watches # {} => "watches" \in flags

FdsCurrent == "rebuild" \notin flags =>
    /\ \A w \in LiveWatches : idx[w] # 0 /\ fds[idx[w]].on = (w \in events)
    /\ \A i \in DOMAIN fds : fds[i].w \in LiveWatches /\ idx[fds[i].w] = i

SleepCurrent == (loop = "poll" /\ ~pipe) =>
    /\ "rebuild" \notin flags
    /\ \A t \in LiveTimeouts : timeout[t] \in {"later", "due"} => sleep # "forever"

LoopInv == LoopTypeOK /\ Unique(list) /\ DeadAreCleaned /\ FdsCurrent /\ SleepCurrent

Pollfd == [w : Watches, on : BOOLEAN, re : BOOLEAN]

ThreadOK ==
    /\ loop \in {"init", "ready", "again", "poll", "woken", "ran", "callback", "quit", "aborted"}
    /\ mutex \in {"none", "main", "loop"} /\ (mutex = "main" <=> main = "locked")
    /\ main \in {"idle", "locked", "stopping", "joining"} /\ running \in BOOLEAN
    /\ called \in {"none"} \cup Watches \cup Timeouts
    /\ (loop \in {"ran", "callback"} => mutex = "loop") /\ (mutex = "loop" => loop \in {"ran", "callback", "ready", "aborted"})
    /\ pipe \in BOOLEAN /\ sleep \in {"now", "soon", "forever"}

ListOK ==
    /\ list \in Seq(Watches) /\ dead \subseteq Range(list) \cup Timeouts /\ events \subseteq Range(list)
    /\ timeout \in [Timeouts -> {"none"} \cup Waits]
    /\ flags \subseteq {"rebuild", "watches", "timeouts", "quit"}
    /\ Unique(list) /\ DeadAreCleaned

FdsOK ==
    /\ fds \in Seq(Pollfd) /\ idx \in [Watches -> 0..Len(fds)]
    /\ \A w \in LiveWatches : idx[w] # 0 => fds[idx[w]].w = w

LEMMA LoopParts == LoopInv <=> ThreadOK /\ ListOK /\ FdsOK /\ FdsCurrent /\ SleepCurrent
  BY DEF LoopInv, LoopTypeOK, ThreadOK, ListOK, FdsOK, Pollfd, Waits

LEMMA LoopPartsNext == ASSUME ThreadOK', ListOK', FdsOK', FdsCurrent', SleepCurrent' PROVE LoopInv'
  BY DEF LoopInv, LoopTypeOK, ThreadOK, ListOK, FdsOK, Pollfd, Waits

\* What only the thread does leaves the watches alone.
LEMMA ObjectsRest ==
    ASSUME ListOK, FdsOK, FdsCurrent, UNCHANGED objVars PROVE ListOK' /\ FdsOK' /\ FdsCurrent'
<1>1. /\ list' = list /\ dead' = dead /\ events' = events /\ fds' = fds /\ idx' = idx
      /\ timeout' = timeout /\ flags' = flags
  BY DEF objVars
<1>2. LiveWatches' = LiveWatches
  BY <1>1 DEF LiveWatches
<1>3. ListOK'
  BY <1>1 DEF ListOK, DeadAreCleaned, Unique
<1> QED
  BY <1>1, <1>2, <1>3 DEF FdsOK, FdsCurrent

LEMMA RangeOf == ASSUME NEW q PROVE \A x : x \in Range(q) <=> \E i \in DOMAIN q : q[i] = x
  BY DEF Range

LEMMA WatchNewInv == ASSUME LoopInv, NEW w \in Watches, WatchNew(w) PROVE LoopInv'
<1>1. /\ ThreadOK /\ ListOK /\ FdsOK /\ FdsCurrent /\ SleepCurrent
  BY LoopParts
<1>2. /\ pipe' = TRUE /\ loop' = loop /\ mutex' = mutex /\ main' = main /\ running' = running
      /\ sleep' = sleep /\ called' = called
      /\ dead' = dead /\ fds' = fds /\ timeout' = timeout
      /\ w \notin Range(list) /\ list' = <<w>> \o list /\ events' = events \cup {w}
      /\ idx' = [idx EXCEPT ![w] = 0] /\ flags' = flags \cup {"rebuild"}
  BY DEF WatchNew, Call, threadVars
<1>3. ThreadOK' /\ SleepCurrent' /\ FdsCurrent'
  BY <1>1, <1>2 DEF ThreadOK, SleepCurrent, FdsCurrent
<1>4. PICK q : q = <<w>> \o list
  OBVIOUS
<1>5. /\ list \in Seq(Watches) /\ Len(list) \in Nat /\ q \in Seq(Watches) /\ Len(q) = Len(list) + 1
      /\ q[1] = w /\ \A i \in 1..Len(list) : q[i + 1] = list[i]
  BY <1>1, <1>4 DEF ListOK
<1>6. \A i \in 1..Len(q) : i = 1 \/ (i - 1 \in 1..Len(list) /\ q[i] = list[i - 1])
  <2> SUFFICES ASSUME NEW i \in 1..Len(q), i # 1 PROVE i - 1 \in 1..Len(list) /\ q[i] = list[i - 1]
    OBVIOUS
  <2>1. PICK j \in 1..Len(list) : i = j + 1 /\ j = i - 1
    BY <1>5
  <2> QED
    BY <1>5, <2>1
<1>7. Range(q) = Range(list) \cup {w}
  <2>1. \A x \in Range(q) : x \in Range(list) \cup {w}
    BY <1>5, <1>6, RangeOf
  <2>2. \A x \in Range(list) \cup {w} : x \in Range(q)
    <3>1. 1 \in 1..Len(q) /\ \A i \in 1..Len(list) : i + 1 \in 1..Len(q)
      BY <1>5
    <3>2. DOMAIN q = 1..Len(q) /\ DOMAIN list = 1..Len(list)
      BY <1>5
    <3>3. w \in Range(q)
      BY <1>5, <3>1, <3>2, RangeOf
    <3>4. ASSUME NEW x \in Range(list) PROVE x \in Range(q)
      <4>1. PICK i \in 1..Len(list) : list[i] = x
        BY <3>2, RangeOf
      <4>2. i + 1 \in DOMAIN q /\ q[i + 1] = x
        BY <1>5, <3>1, <3>2, <4>1
      <4> QED
        BY <4>2, RangeOf
    <3> QED
      BY <3>3, <3>4
  <2> QED
    BY <2>1, <2>2
<1>8. Unique(q)
  <2> SUFFICES ASSUME NEW i \in 1..Len(q), NEW j \in 1..Len(q), q[i] = q[j] PROVE i = j
    BY DEF Unique
  <2>1. \A k \in 1..Len(list) : list[k] # w
    BY <1>2, <1>5, RangeOf
  <2>2. (i = 1 /\ q[i] = w) \/ (i - 1 \in 1..Len(list) /\ q[i] = list[i - 1])
    BY <1>5, <1>6
  <2>3. (j = 1 /\ q[j] = w) \/ (j - 1 \in 1..Len(list) /\ q[j] = list[j - 1])
    BY <1>5, <1>6
  <2>4. \A a, b \in 1..Len(list) : list[a] = list[b] => a = b
    BY <1>1 DEF ListOK, Unique
  <2> QED
    BY <2>1, <2>2, <2>3, <2>4
<1>a. list' = q
  BY <1>2, <1>4
<1>9. ListOK'
  BY <1>1, <1>2, <1>5, <1>7, <1>8, <1>a DEF ListOK, DeadAreCleaned
<1>10. FdsOK'
  <2>1. \A v \in LiveWatches' : v = w \/ v \in LiveWatches
    BY <1>2, <1>7, <1>a DEF LiveWatches
  <2>2. \A v \in Watches : idx'[v] = IF v = w THEN 0 ELSE idx[v]
    BY <1>1, <1>2 DEF FdsOK
  <2>3. idx' \in [Watches -> 0..Len(fds)]
    BY <1>1, <1>2, 0 \in 0..Len(fds) DEF FdsOK
  <2> QED
    BY <1>1, <1>2, <2>1, <2>2, <2>3 DEF FdsOK, LiveWatches
<1> QED
  BY <1>3, <1>9, <1>10, LoopPartsNext

LEMMA WatchUpdateInv ==
    ASSUME LoopInv, NEW w \in Watches, NEW on \in BOOLEAN, WatchUpdate(w, on) PROVE LoopInv'
<1>1. /\ ThreadOK /\ ListOK /\ FdsOK /\ FdsCurrent /\ SleepCurrent
  BY LoopParts
<1>2. /\ pipe' = TRUE /\ loop' = loop /\ mutex' = mutex /\ main' = main /\ running' = running
      /\ sleep' = sleep /\ called' = called
      /\ list' = list /\ dead' = dead /\ idx' = idx /\ timeout' = timeout
      /\ w \in LiveWatches /\ w \in Range(list)
      /\ events' = IF on THEN events \cup {w} ELSE events \ {w}
  BY DEF WatchUpdate, Call, threadVars, LiveWatches
<1>3. ThreadOK' /\ SleepCurrent'
  BY <1>1, <1>2 DEF ThreadOK, SleepCurrent
<1>4. LiveWatches' = LiveWatches
  BY <1>2 DEF LiveWatches
<1>5. /\ events' \subseteq Range(list) /\ (w \in events' <=> on)
      /\ \A v \in Watches : v # w => (v \in events' <=> v \in events)
  BY <1>1, <1>2 DEF ListOK
<1>6. CASE idx[w] # 0
  <2>1. PICK r : r = [w |-> w, on |-> on, re |-> FALSE]
    OBVIOUS
  <2>2. r \in Pollfd /\ r.w = w /\ r.on = on
    BY <2>1 DEF Pollfd
  <2>3. PICK k : k = idx[w]
    OBVIOUS
  <2>4. k \in 1..Len(fds) /\ fds \in Seq(Pollfd) /\ idx \in [Watches -> 0..Len(fds)]
    BY <1>1, <1>6, <2>3 DEF FdsOK
  <2>5. PICK f : f = [fds EXCEPT ![k] = r]
    OBVIOUS
  <2>6. fds' = f /\ flags' = flags
    BY <1>6, <2>1, <2>3, <2>5 DEF WatchUpdate
  <2>7. /\ f \in Seq(Pollfd) /\ Len(f) = Len(fds) /\ DOMAIN f = DOMAIN fds /\ f[k] = r
        /\ \A i \in DOMAIN fds : i # k => f[i] = fds[i]
    BY <2>2, <2>4, <2>5
  <2>8. DOMAIN fds = 1..Len(fds)
    BY <2>4
  <2>9. ListOK'
    BY <1>1, <1>2, <1>5, <2>6 DEF ListOK, DeadAreCleaned, Unique
  <2>10. fds[k].w = w
    BY <1>1, <1>2, <1>6, <2>3 DEF FdsOK
  <2>11. FdsOK'
    <3>1. ASSUME NEW v \in LiveWatches, idx[v] # 0 PROVE f[idx[v]].w = v
      <4>1. v \in Watches /\ idx[v] \in DOMAIN fds /\ fds[idx[v]].w = v
        BY <1>1, <2>4, <2>8, <3>1 DEF FdsOK, LiveWatches
      <4> QED
        BY <2>2, <2>7, <2>10, <4>1
    <3> QED
      BY <1>2, <1>4, <2>4, <2>6, <2>7, <3>1 DEF FdsOK
  <2>12. FdsCurrent'
    <3> SUFFICES ASSUME "rebuild" \notin flags PROVE FdsCurrent'
      BY <2>6 DEF FdsCurrent
    <3>1. /\ \A v \in LiveWatches : idx[v] # 0 /\ fds[idx[v]].on = (v \in events)
          /\ \A i \in DOMAIN fds : fds[i].w \in LiveWatches /\ idx[fds[i].w] = i
      BY <1>1 DEF FdsCurrent
    <3>2. ASSUME NEW v \in LiveWatches PROVE idx[v] # 0 /\ f[idx[v]].on = (v \in events')
      <4>1. v \in Watches /\ idx[v] # 0 /\ idx[v] \in DOMAIN fds /\ fds[idx[v]].w = v
        BY <1>1, <2>4, <2>8, <3>1 DEF FdsOK, LiveWatches
      <4>2. CASE v = w
        BY <1>5, <2>2, <2>3, <2>7, <4>1, <4>2
      <4>3. CASE v # w
        <5>1. idx[v] # k
          BY <2>10, <4>1, <4>3
        <5>2. f[idx[v]] = fds[idx[v]]
          BY <2>7, <4>1, <5>1
        <5> QED
          BY <1>5, <3>1, <4>1, <4>3, <5>2
      <4> QED
        BY <4>2, <4>3
    <3>3. ASSUME NEW i \in DOMAIN fds PROVE f[i].w \in LiveWatches /\ idx[f[i].w] = i
      BY <1>2, <2>2, <2>3, <2>7, <3>1
    <3> QED
      BY <1>2, <1>4, <2>6, <2>7, <3>2, <3>3 DEF FdsCurrent
  <2> QED
    BY <1>3, <2>9, <2>11, <2>12, LoopPartsNext
<1>7. CASE idx[w] = 0
  <2>1. fds' = fds /\ flags' = flags \cup {"rebuild"}
    BY <1>7 DEF WatchUpdate
  <2>2. ListOK' /\ FdsOK' /\ FdsCurrent'
    <3>1. ListOK'
      BY <1>1, <1>2, <1>5, <2>1 DEF ListOK, DeadAreCleaned, Unique
    <3> QED
      BY <1>1, <1>2, <1>4, <2>1, <3>1 DEF FdsOK, FdsCurrent
  <2> QED
    BY <1>3, <2>2, LoopPartsNext
<1> QED
  BY <1>6, <1>7

LEMMA WatchFreeInv == ASSUME LoopInv, NEW w \in Watches, WatchFree(w) PROVE LoopInv'
<1>1. /\ ThreadOK /\ ListOK /\ FdsOK /\ FdsCurrent /\ SleepCurrent
  BY LoopParts
<1>2. /\ pipe' = TRUE /\ loop' = loop /\ mutex' = mutex /\ main' = main /\ running' = running
      /\ sleep' = sleep /\ called' = called
      /\ list' = list /\ events' = events /\ fds' = fds /\ idx' = idx /\ timeout' = timeout
      /\ w \in LiveWatches /\ w \in Range(list) /\ dead' = dead \cup {w}
      /\ flags' = flags \cup {"watches"} \cup (IF idx[w] # 0 THEN {"rebuild"} ELSE {})
  BY DEF WatchFree, Call, threadVars, LiveWatches
<1>3. ThreadOK' /\ SleepCurrent'
  BY <1>1, <1>2 DEF ThreadOK, SleepCurrent
<1>4. LiveWatches' \subseteq LiveWatches
  BY <1>2 DEF LiveWatches
<1>5. ListOK'
  BY <1>1, <1>2 DEF ListOK, DeadAreCleaned, Unique
<1>6. FdsOK'
  BY <1>1, <1>2, <1>4 DEF FdsOK
<1>7. "rebuild" \in flags'
  BY <1>1, <1>2 DEF FdsCurrent
<1>8. FdsCurrent'
  BY <1>7 DEF FdsCurrent
<1> QED
  BY <1>3, <1>5, <1>6, <1>8, LoopPartsNext

\* What is done with timeouts leaves the watches alone.
LEMMA TimeoutCalled ==
    ASSUME LoopInv, Call, UNCHANGED <<list, events, fds, idx>>,
           dead' \cap Watches = dead \cap Watches, dead' \subseteq dead \cup Timeouts,
           timeout' \in [Timeouts -> {"none"} \cup Waits],
           NEW F \in SUBSET {"timeouts", "quit"}, flags' = flags \cup F
    PROVE  LoopInv'
<1>1. /\ ThreadOK /\ ListOK /\ FdsOK /\ FdsCurrent /\ SleepCurrent
  BY LoopParts
<1>2. /\ pipe' = TRUE /\ loop' = loop /\ mutex' = mutex /\ main' = main /\ running' = running
      /\ sleep' = sleep /\ called' = called
  BY DEF Call, threadVars
<1>3. ThreadOK' /\ SleepCurrent'
  BY <1>1, <1>2 DEF ThreadOK, SleepCurrent
<1>4. LiveWatches' = LiveWatches
  BY DEF LiveWatches
<1>5. ListOK'
  BY <1>1, <1>2 DEF ListOK, DeadAreCleaned, Unique
<1>6. FdsOK' /\ FdsCurrent'
  BY <1>1, <1>4 DEF FdsOK, FdsCurrent
<1> QED
  BY <1>3, <1>5, <1>6, LoopPartsNext

LEMMA TimeoutsInv ==
    ASSUME LoopInv, NEW t \in Timeouts,
           \/ TimeoutFree(t)
           \/ \E when \in Waits : TimeoutNew(t, when) \/ TimeoutUpdate(t, when)
    PROVE  LoopInv'
<1>1. timeout \in [Timeouts -> {"none"} \cup Waits] /\ t \notin Watches
  BY LoopAssumption DEF LoopInv, LoopTypeOK, Waits
<1>2. CASE TimeoutFree(t)
  <2>1. Call /\ UNCHANGED <<list, events, fds, idx>> /\ timeout' = timeout /\ dead' = dead \cup {t}
        /\ flags' = flags \cup {"timeouts"}
    BY <1>2 DEF TimeoutFree
  <2>2. dead' \cap Watches = dead \cap Watches /\ dead' \subseteq dead \cup Timeouts
    BY <1>1, <2>1
  <2> QED
    BY <1>1, <2>1, <2>2, TimeoutCalled, {"timeouts"} \in SUBSET {"timeouts", "quit"}
<1>3. CASE \E when \in Waits : TimeoutNew(t, when) \/ TimeoutUpdate(t, when)
  <2>1. PICK when \in Waits : Call /\ UNCHANGED <<list, events, fds, idx>> /\ dead' = dead /\ flags' = flags
                              /\ timeout' = [timeout EXCEPT ![t] = when]
    BY <1>3 DEF TimeoutNew, TimeoutUpdate
  <2>2. timeout' \in [Timeouts -> {"none"} \cup Waits]
    BY <1>1, <2>1
  <2>3. flags' = flags \cup {} /\ {} \in SUBSET {"timeouts", "quit"}
    BY <2>1
  <2> QED
    BY <2>1, <2>2, <2>3, TimeoutCalled
<1> QED
  BY <1>2, <1>3

LEMMA QuitInv == ASSUME LoopInv, Quit PROVE LoopInv'
<1>1. Call /\ UNCHANGED <<list, events, fds, idx>> /\ timeout' = timeout /\ dead' = dead
      /\ flags' = flags \cup {"quit"}
  BY DEF Quit
<1>2. timeout' \in [Timeouts -> {"none"} \cup Waits]
  BY <1>1 DEF LoopInv, LoopTypeOK, Waits
<1> QED
  BY <1>1, <1>2, TimeoutCalled, {"quit"} \in SUBSET {"timeouts", "quit"}

LEMMA ThreadInv ==
    ASSUME LoopInv, LoopStart \/ Lock \/ Unlock \/ LoopStop \/ JoinThread \/ PrepareAgain \/ Relock \/ Return
    PROVE  LoopInv'
<1>1. /\ ThreadOK /\ ListOK /\ FdsOK /\ FdsCurrent /\ SleepCurrent
  BY LoopParts
<1>2. UNCHANGED objVars /\ sleep' = sleep
  BY DEF LoopStart, Lock, Unlock, LoopStop, JoinThread, PrepareAgain, Relock, Return
<1>3. ListOK' /\ FdsOK' /\ FdsCurrent'
  BY <1>1, <1>2, ObjectsRest
<1>4. loop' = "poll" => loop = "poll"
  BY DEF LoopStart, Lock, Unlock, LoopStop, JoinThread, PrepareAgain, Relock, Return
<1>5. SleepCurrent'
  BY <1>1, <1>2, <1>4 DEF SleepCurrent, LiveTimeouts, objVars
<1>6. ThreadOK'
  BY <1>1, <1>2 DEF ThreadOK, objVars, LoopStart, Lock, Unlock, LoopStop, JoinThread, PrepareAgain, Relock, Return
<1> QED
  BY <1>3, <1>5, <1>6, LoopPartsNext

LEMMA AskToQuitInv == ASSUME LoopInv, AskToQuit PROVE LoopInv'
<1>1. /\ ThreadOK /\ ListOK /\ FdsOK /\ FdsCurrent /\ SleepCurrent
  BY LoopParts
<1>2. ThreadOK' /\ SleepCurrent'
  BY <1>1 DEF AskToQuit, ThreadOK, SleepCurrent
<1>3. LiveWatches' = LiveWatches
  BY DEF AskToQuit, LiveWatches
<1>4. ListOK'
  BY <1>1 DEF AskToQuit, ListOK, DeadAreCleaned, Unique
<1>5. FdsOK' /\ FdsCurrent'
  BY <1>1, <1>3 DEF AskToQuit, FdsOK, FdsCurrent
<1> QED
  BY <1>2, <1>4, <1>5, LoopPartsNext

LEMMA ElapseInv == ASSUME LoopInv, NEW t \in Timeouts, Elapse(t) PROVE LoopInv'
<1>1. /\ ThreadOK /\ ListOK /\ FdsOK /\ FdsCurrent /\ SleepCurrent
  BY LoopParts
<1>2. /\ loop' = loop /\ mutex' = mutex /\ main' = main /\ running' = running /\ list' = list
      /\ dead' = dead /\ events' = events /\ fds' = fds /\ idx' = idx /\ flags' = flags
      /\ pipe' = pipe /\ sleep' = sleep /\ called' = called
      /\ timeout[t] = "later" /\ timeout' = [timeout EXCEPT ![t] = "due"]
  BY DEF Elapse, threadVars
<1>3. LiveWatches' = LiveWatches
  BY <1>2 DEF LiveWatches
<1>4. /\ timeout \in [Timeouts -> {"none"} \cup Waits] /\ timeout' \in [Timeouts -> {"none"} \cup Waits]
      /\ \A u \in Timeouts : timeout'[u] = timeout[u] \/ (timeout[u] = "later" /\ timeout'[u] = "due")
  BY <1>1, <1>2 DEF ListOK, Waits
<1>5. LiveTimeouts' = LiveTimeouts
  BY <1>2, <1>4 DEF LiveTimeouts
<1>6. SleepCurrent'
  BY <1>1, <1>2, <1>4, <1>5 DEF SleepCurrent, LiveTimeouts
<1>7. ListOK'
  BY <1>1, <1>2, <1>4 DEF ListOK, DeadAreCleaned, Unique
<1>8. ThreadOK' /\ FdsOK' /\ FdsCurrent'
  BY <1>1, <1>2, <1>3 DEF ThreadOK, FdsOK, FdsCurrent
<1> QED
  BY <1>6, <1>7, <1>8, LoopPartsNext

LEMMA PollInv == ASSUME LoopInv, NEW came \in SUBSET Polled, PollReturns(came) PROVE LoopInv'
<1>1. /\ ThreadOK /\ ListOK /\ FdsOK /\ FdsCurrent /\ SleepCurrent
  BY LoopParts
<1>2. /\ loop = "poll" /\ loop' = "woken" /\ mutex' = mutex /\ main' = main /\ running' = running
      /\ list' = list /\ dead' = dead /\ events' = events /\ idx' = idx /\ flags' = flags
      /\ timeout' = timeout /\ pipe' = pipe /\ sleep' = sleep /\ called' = called
  BY DEF PollReturns
<1>3. LiveWatches' = LiveWatches
  BY <1>2 DEF LiveWatches
<1>4. fds \in Seq(Pollfd) /\ DOMAIN fds = 1..Len(fds) /\ Len(fds) \in Nat /\ \A i \in DOMAIN fds : fds[i] \in Pollfd
  BY <1>1 DEF FdsOK
<1>5. /\ DOMAIN fds' = DOMAIN fds
      /\ \A i \in DOMAIN fds : fds'[i] \in Pollfd /\ fds'[i].w = fds[i].w /\ fds'[i].on = fds[i].on
  <2> DEFINE f == [i \in DOMAIN fds |-> [fds[i] EXCEPT !.re = fds[i].w \in came]]
  <2>1. fds' = f
    BY DEF PollReturns
  <2>2. ASSUME NEW i \in DOMAIN fds
        PROVE f[i] \in Pollfd /\ f[i].w = fds[i].w /\ f[i].on = fds[i].on
    <3>1. PICK b \in BOOLEAN : b <=> fds[i].w \in came
      OBVIOUS
    <3>2. PICK r \in Pollfd : r = fds[i]
      BY <1>4
    <3>3. [r EXCEPT !.re = b] \in Pollfd /\ [r EXCEPT !.re = b].w = r.w /\ [r EXCEPT !.re = b].on = r.on
      BY <3>2 DEF Pollfd
    <3>4. f[i] = [r EXCEPT !.re = b]
      <4>1. (fds[i].w \in came) = b
        BY <3>1
      <4> QED
        BY <3>2, <4>1
    <3> QED
      BY <3>2, <3>3, <3>4
  <2>3. DOMAIN f = DOMAIN fds
    OBVIOUS
  <2> HIDE DEF f
  <2> QED
    BY <2>1, <2>2, <2>3
<1>6. fds' \in Seq(Pollfd) /\ Len(fds') = Len(fds)
  <2>1. fds' = [i \in 1..Len(fds) |-> fds'[i]]
    BY <1>4, <1>5 DEF PollReturns
  <2>2. \A i \in 1..Len(fds) : fds'[i] \in Pollfd
    BY <1>4, <1>5
  <2> QED
    BY <1>4, <2>1, <2>2
<1>7. ThreadOK' /\ SleepCurrent'
  BY <1>1, <1>2 DEF ThreadOK, SleepCurrent
<1>8. ListOK'
  BY <1>1, <1>2 DEF ListOK, DeadAreCleaned, Unique
<1>9. FdsOK'
  <2>1. \A w \in LiveWatches : idx[w] # 0 => idx[w] \in DOMAIN fds
    BY <1>1, <1>4 DEF FdsOK, LiveWatches
  <2> QED
    BY <1>1, <1>2, <1>3, <1>5, <1>6, <2>1 DEF FdsOK
<1>10. FdsCurrent'
  <2>1. \A w \in LiveWatches : idx[w] # 0 => idx[w] \in DOMAIN fds
    BY <1>1, <1>4 DEF FdsOK, LiveWatches
  <2> QED
    BY <1>1, <1>2, <1>3, <1>5, <2>1 DEF FdsCurrent
<1> QED
  BY <1>7, <1>8, <1>9, <1>10, LoopPartsNext

LEMMA DispatchInv == ASSUME LoopInv, Dispatch PROVE LoopInv' /\ (called' # "none" => called' = called \/ called' \notin dead)
<1>1. /\ ThreadOK /\ ListOK /\ FdsOK /\ FdsCurrent /\ SleepCurrent
  BY LoopParts
<1>2. /\ loop = "ran" /\ mutex' = mutex /\ main' = main /\ running' = running
      /\ list' = list /\ dead' = dead /\ events' = events /\ fds' = fds /\ idx' = idx /\ flags' = flags
      /\ pipe' = pipe /\ sleep' = sleep /\ loop' \in {"callback", "aborted", "ready"}
  BY DEF Dispatch
<1>3. LiveWatches' = LiveWatches
  BY <1>2 DEF LiveWatches
<1>4. \/ timeout' = timeout
      \/ \E t \in Timeouts : timeout' = [timeout EXCEPT ![t] = "off"]
  BY DEF Dispatch, Due, LiveTimeouts
<1>5. \/ called' = called
      \/ \E t \in Timeouts \ dead : called' = t
      \/ \E i \in DOMAIN list : list[i] \notin dead /\ called' = list[i]
  BY DEF Dispatch, Due, LiveTimeouts, Candidates
<1>6. timeout' \in [Timeouts -> {"none"} \cup Waits]
  BY <1>1, <1>4 DEF ListOK, Waits
<1>7. called' \in {"none"} \cup Watches \cup Timeouts
  BY <1>1, <1>5 DEF ThreadOK, ListOK
<1>8. ThreadOK' /\ SleepCurrent'
  BY <1>1, <1>2, <1>7 DEF ThreadOK, SleepCurrent
<1>9. ListOK'
  BY <1>1, <1>2, <1>6 DEF ListOK, DeadAreCleaned, Unique
<1>10. FdsOK' /\ FdsCurrent'
  BY <1>1, <1>2, <1>3 DEF FdsOK, FdsCurrent
<1> QED
  BY <1>5, <1>8, <1>9, <1>10, LoopPartsNext

\* What cleanup_watches and cleanup_timeouts leave.
Left(G, l) ==
    /\ G \subseteq dead /\ G \cap Watches = dead \cap Watches
    /\ list' = l /\ dead' = dead \ G /\ events' = events \ G
    /\ timeout' = [t \in Timeouts |-> IF t \in G THEN "none" ELSE timeout[t]]
    /\ l \in Seq(Watches) /\ Unique(l) /\ Range(l) = Range(list) \ G

LEMMA Cleaned ==
    ASSUME ListOK, NEW G, NEW l, Left(G, l), flags' \subseteq flags
    PROVE  ListOK' /\ LiveWatches' = LiveWatches /\ LiveTimeouts' = LiveTimeouts \ G
           /\ (\A w \in LiveWatches : w \in Range(l) /\ (w \in events' <=> w \in events))
           /\ \A w \in Range(l) : w \in LiveWatches
<1>1. \A t \in Timeouts : timeout'[t] = IF t \in G THEN "none" ELSE timeout[t]
  BY DEF Left
<1>2. timeout' \in [Timeouts -> {"none"} \cup Waits]
  BY DEF Left, ListOK, Waits
<1>3. Range(list) \subseteq Watches /\ Range(l) \subseteq Watches
  BY DEF Left, ListOK, Range
<1>4. DeadAreCleaned'
  BY DEF Left, DeadAreCleaned
<1>5. ListOK'
  <2>1. list' = l /\ dead' = dead \ G /\ events' = events \ G
    BY DEF Left
  <2>2. dead' \subseteq Range(l) \cup Timeouts
    BY <2>1 DEF Left, ListOK
  <2>3. events' \subseteq Range(l)
    BY <2>1 DEF Left, ListOK
  <2> QED
    BY <1>2, <1>4, <2>1, <2>2, <2>3 DEF Left, ListOK
<1>6. LiveWatches' = {w \in Watches : w \in Range(l)} \ (dead \ G)
  BY DEF Left, LiveWatches
<1>7. LiveWatches' = LiveWatches
  BY <1>6 DEF Left, LiveWatches
<1>8. LiveTimeouts' = {t \in Timeouts : timeout'[t] # "none"} \ (dead \ G)
  BY DEF Left, LiveTimeouts
<1>9. \A t : t \in LiveTimeouts' <=> t \in LiveTimeouts \ G
  BY <1>1, <1>8 DEF LiveTimeouts
<1>10. \A w \in LiveWatches : w \in Range(l) /\ (w \in events' <=> w \in events)
  BY DEF Left, LiveWatches
<1>11. \A w \in Range(l) : w \in LiveWatches
  BY <1>3 DEF Left, LiveWatches
<1> QED
  BY <1>5, <1>7, <1>9, <1>10, <1>11

LEMMA KeptRange ==
    ASSUME NEW S, NEW l \in Seq(S), NEW q \in Seq(S), NEW D, KeptFacts(l, q, D)
    PROVE  Range(l) = Range(q) \ D
<1>1. \A x : x \in Range(l) <=> \E i \in 1..Len(l) : l[i] = x
  BY RangeOf
<1>2. \A x : x \in Range(q) <=> \E i \in 1..Len(q) : q[i] = x
  BY RangeOf
<1>3. ASSUME NEW x \in Range(l) PROVE x \in Range(q) \ D
  <2>1. PICK i \in 1..Len(l) : l[i] = x
    BY <1>1
  <2>2. PICK j \in 1..Len(q) : q[j] = l[i] /\ q[j] \notin D
    BY DEF KeptFacts
  <2> QED
    BY <1>2, <2>1, <2>2
<1>4. ASSUME NEW x \in Range(q), x \notin D PROVE x \in Range(l)
  <2>1. PICK j \in 1..Len(q) : q[j] = x
    BY <1>2
  <2>2. PICK i \in 1..Len(l) : l[i] = q[j]
    BY <1>4, <2>1 DEF KeptFacts
  <2> QED
    BY <1>1, <2>1, <2>2
<1> QED
  BY <1>3, <1>4

LEMMA RebuildFacts ==
    ASSUME NEW l \in Seq(Watches), Unique(l), \A w \in Range(l) : w \notin dead,
           NEW f, f = Rebuild(l)
    PROVE  /\ f \in Seq(Pollfd)
           /\ \A i \in DOMAIN f : f[i].w \in Range(l) /\ f[i].on = (f[i].w \in events)
           /\ \A w \in Range(l) : \E i \in DOMAIN f : f[i].w = w
           /\ \A i, j \in DOMAIN f : f[i].w = f[j].w => i = j
<1>1. PICK v : v = Keep(l, dead)
  OBVIOUS
<1>2. v \in Seq(Watches) /\ KeptFacts(v, l, dead)
  BY <1>1, KeepFacts
<1>3. f = [i \in 1..Len(v) |-> [w |-> v[i], on |-> v[i] \in events, re |-> FALSE]]
  BY <1>1 DEF Rebuild
<1>4. DOMAIN f = 1..Len(v) /\ \A i \in 1..Len(v) : v[i] \in Watches
  BY <1>2, <1>3
<1>5. ASSUME NEW i \in 1..Len(v) PROVE f[i] \in Pollfd /\ f[i].w = v[i] /\ f[i].on = (v[i] \in events)
  <2>1. PICK b \in BOOLEAN : b <=> v[i] \in events
    OBVIOUS
  <2>2. f[i] = [w |-> v[i], on |-> b, re |-> FALSE]
    <3>1. (v[i] \in events) = b
      BY <2>1
    <3> QED
      BY <1>3, <3>1
  <2> QED
    BY <1>4, <2>1, <2>2 DEF Pollfd
<1>6. f \in Seq(Pollfd)
  <2>1. f = [i \in 1..Len(v) |-> f[i]] /\ Len(v) \in Nat
    BY <1>2, <1>3
  <2> QED
    BY <1>5, <2>1
<1>7. \A x : x \in Range(l) <=> \E i \in 1..Len(l) : l[i] = x
  BY RangeOf
<1>8. \A i \in DOMAIN f : f[i].w \in Range(l) /\ f[i].on = (f[i].w \in events)
  BY <1>2, <1>4, <1>5, <1>7 DEF KeptFacts
<1>9. \A w \in Range(l) : \E i \in DOMAIN f : f[i].w = w
  <2> SUFFICES ASSUME NEW w \in Range(l) PROVE \E i \in DOMAIN f : f[i].w = w
    OBVIOUS
  <2>1. PICK j \in 1..Len(l) : l[j] = w /\ l[j] \notin dead
    BY <1>7
  <2>2. PICK i \in 1..Len(v) : v[i] = w
    BY <1>2, <2>1 DEF KeptFacts
  <2> QED
    BY <1>4, <1>5, <2>2
<1>10. \A i, j \in DOMAIN f : f[i].w = f[j].w => i = j
  BY <1>2, <1>4, <1>5 DEF KeptFacts, Unique
<1> QED
  BY <1>6, <1>8, <1>9, <1>10

\* The watches' places in pollfds, as avahi_simple_poll_prepare leaves them.
IndexOf(x, f, l) ==
    x = [w \in Watches |-> IF \E i \in DOMAIN f : f[i].w = w
                           THEN CHOOSE i \in DOMAIN f : f[i].w = w ELSE IF w \in Range(l) THEN idx[w] ELSE 0]

Indexed(x, f, l) ==
    /\ f \in Seq(Pollfd) /\ x \in [Watches -> 0..Len(f)]
    /\ \A i \in DOMAIN f : f[i].w \in Range(l) /\ f[i].on = (f[i].w \in events) /\ x[f[i].w] = i
    /\ \A w \in Range(l) : x[w] \in DOMAIN f /\ x[w] # 0 /\ f[x[w]].w = w

LEMMA IndexFacts ==
    ASSUME NEW l \in Seq(Watches), Unique(l), \A w \in Range(l) : w \notin dead,
           NEW x, NEW f, f = Rebuild(l), IndexOf(x, f, l)
    PROVE  Indexed(x, f, l)
<1>1. /\ f \in Seq(Pollfd)
      /\ \A i \in DOMAIN f : f[i].w \in Range(l) /\ f[i].on = (f[i].w \in events)
      /\ \A w \in Range(l) : \E i \in DOMAIN f : f[i].w = w
      /\ \A i, j \in DOMAIN f : f[i].w = f[j].w => i = j
  BY RebuildFacts
<1>2. DOMAIN f = 1..Len(f) /\ Len(f) \in Nat /\ Range(l) \subseteq Watches
  BY <1>1 DEF Range
<1>3. ASSUME NEW w \in Range(l) PROVE x[w] \in DOMAIN f /\ x[w] # 0 /\ f[x[w]].w = w
  <2>1. \E i \in DOMAIN f : f[i].w = w
    BY <1>1
  <2>2. x[w] = CHOOSE i \in DOMAIN f : f[i].w = w
    BY <1>2, <2>1 DEF IndexOf
  <2>3. x[w] \in DOMAIN f /\ f[x[w]].w = w
    BY <2>1, <2>2
  <2> QED
    BY <1>2, <2>3
<1>4. ASSUME NEW w \in Watches, w \notin Range(l) PROVE x[w] = 0
  <2>1. ~\E i \in DOMAIN f : f[i].w = w
    BY <1>1, <1>4
  <2> QED
    BY <1>4, <2>1 DEF IndexOf
<1>5. \A w \in Watches : x[w] \in 0..Len(f)
  BY <1>2, <1>3, <1>4
<1>6. x = [w \in Watches |-> x[w]]
  BY DEF IndexOf
<1>7. x \in [Watches -> 0..Len(f)]
  BY <1>5, <1>6
<1>8. ASSUME NEW i \in DOMAIN f PROVE x[f[i].w] = i
  BY <1>1, <1>3
<1> QED
  BY <1>1, <1>3, <1>7, <1>8 DEF Indexed

LEMMA PrepareInv == ASSUME LoopInv, Prepare PROVE LoopInv'
<1>1. /\ ThreadOK /\ ListOK /\ FdsOK /\ FdsCurrent /\ SleepCurrent
  BY LoopParts
<1> PICK G : G = WatchesGone \cup TimeoutsGone
  OBVIOUS
<1> PICK l : l = Keep(list, G)
  OBVIOUS
<1>2. /\ loop = "ready" /\ mutex \in {"none", "loop"}
      /\ pipe' = FALSE /\ list' = l /\ dead' = dead \ G /\ events' = events \ G
      /\ timeout' = [t \in Timeouts |-> IF t \in G THEN "none" ELSE timeout[t]]
      /\ mutex' = "none" /\ main' = main /\ running' = running /\ called' = called
  BY DEF Prepare
<1>3. l \in Seq(Watches) /\ KeptFacts(l, list, G)
  BY <1>1, KeepFacts DEF ListOK
<1>4. G \subseteq dead /\ G \cap Watches = dead \cap Watches
  BY <1>1, LoopAssumption DEF WatchesGone, TimeoutsGone, ListOK, DeadAreCleaned
<1>5. Range(l) = Range(list) \ G
  BY <1>1, <1>3, KeptRange DEF ListOK
<1>6. Left(G, l)
  BY <1>2, <1>3, <1>4, <1>5 DEF Left, KeptFacts
<1>7. flags' \subseteq flags /\ ("rebuild" \notin flags' => "rebuild" \notin flags \/ loop' = "poll")
      /\ sleep' \in {sleep, "now", "soon", "forever"} /\ loop' \in {"quit", "poll"}
  BY DEF Prepare
<1>8. ListOK' /\ LiveWatches' = LiveWatches /\ LiveTimeouts' = LiveTimeouts \ G
      /\ (\A w \in LiveWatches : w \in Range(l) /\ (w \in events' <=> w \in events))
      /\ \A w \in Range(l) : w \in LiveWatches
  BY <1>1, <1>6, <1>7, Cleaned
<1>9. ThreadOK'
  BY <1>1, <1>2, <1>7 DEF ThreadOK
<1>10. CASE "quit" \in flags
  <2>1. loop' = "quit" /\ flags' = flags \ {"timeouts"} /\ fds' = fds /\ idx' = idx /\ sleep' = sleep
    BY <1>10 DEF Prepare
  <2>2. FdsOK' /\ FdsCurrent'
    BY <1>1, <1>8, <2>1 DEF FdsOK, FdsCurrent
  <2>3. SleepCurrent'
    BY <2>1 DEF SleepCurrent
  <2> QED
    BY <1>8, <1>9, <2>2, <2>3, LoopPartsNext
<1>11. CASE "quit" \notin flags
  <2>1. /\ loop' = "poll" /\ flags' = (flags \ {"timeouts"}) \ {"rebuild"}
        /\ IF "rebuild" \in flags
             THEN /\ fds' = Rebuild(l)
                  /\ idx' = [w \in Watches |->
                        IF \E i \in DOMAIN fds' : fds'[i].w = w
                        THEN CHOOSE i \in DOMAIN fds' : fds'[i].w = w ELSE IF w \in Range(l) THEN idx[w] ELSE 0]
             ELSE fds' = fds /\ idx' = [w \in Watches |-> IF w \in Range(l) THEN idx[w] ELSE 0]
    BY <1>11 DEF Prepare
  <2> PICK waits : waits = {timeout[t] : t \in LiveTimeouts \ G}
    OBVIOUS
  <2>2. sleep' = IF "due" \in waits THEN "now" ELSE IF "later" \in waits THEN "soon" ELSE "forever"
    BY <1>11 DEF Prepare
  <2>3. SleepCurrent'
    <3>1. ASSUME NEW t \in LiveTimeouts', timeout'[t] \in {"later", "due"} PROVE sleep' # "forever"
      <4>1. t \in LiveTimeouts \ G /\ t \in Timeouts /\ timeout'[t] = timeout[t]
        BY <1>2, <1>8 DEF LiveTimeouts
      <4> QED
        BY <2>2, <3>1, <4>1
    <3> QED
      BY <2>1, <3>1 DEF SleepCurrent
  <2>4. \A w \in LiveWatches : w \in Watches
    BY DEF LiveWatches
  <2>5. CASE "rebuild" \in flags
    <3>1. /\ fds' = Rebuild(l)
          /\ idx' = [w \in Watches |->
                        IF \E i \in DOMAIN fds' : fds'[i].w = w
                        THEN CHOOSE i \in DOMAIN fds' : fds'[i].w = w ELSE IF w \in Range(l) THEN idx[w] ELSE 0]
      BY <2>1, <2>5
    <3> PICK f : f = fds'
      OBVIOUS
    <3> PICK x : x = idx'
      OBVIOUS
    <3>2. f = Rebuild(l) /\ IndexOf(x, f, l)
      BY <3>1 DEF IndexOf
    <3>3. \A w \in Range(l) : w \notin dead
      BY <1>8 DEF LiveWatches
    <3>4. Indexed(x, f, l)
      <4>1. l \in Seq(Watches) /\ Unique(l)
        BY <1>3 DEF KeptFacts
      <4> QED
        BY <3>2, <3>3, <4>1, IndexFacts
    <3>5. FdsOK'
      BY <1>8, <3>4 DEF Indexed, FdsOK
    <3>6. ASSUME NEW w \in LiveWatches PROVE x[w] # 0 /\ f[x[w]].on = (w \in events')
      <4>1. x[w] \in DOMAIN f /\ f[x[w]].w = w /\ (w \in events' <=> w \in events)
        BY <1>8, <3>4 DEF Indexed
      <4>2. (w \in events') = (w \in events)
        BY <4>1
      <4> QED
        BY <1>8, <3>4, <4>1, <4>2 DEF Indexed
    <3>7. \A i \in DOMAIN f : f[i].w \in LiveWatches /\ x[f[i].w] = i
      BY <1>8, <3>4 DEF Indexed
    <3>8. FdsCurrent'
      BY <1>8, <3>6, <3>7 DEF FdsCurrent
    <3> QED
      BY <1>8, <1>9, <2>3, <3>5, <3>8, LoopPartsNext
  <2>6. CASE "rebuild" \notin flags
    <3>1. fds' = fds /\ idx' = [w \in Watches |-> IF w \in Range(l) THEN idx[w] ELSE 0]
      BY <2>1, <2>6
    <3>2. \A w \in LiveWatches : idx'[w] = idx[w]
      BY <1>8, <2>4, <3>1
    <3>3. idx' \in [Watches -> 0..Len(fds)]
      BY <1>1, <3>1, 0 \in 0..Len(fds) DEF FdsOK
    <3>4. FdsOK'
      BY <1>1, <1>8, <3>1, <3>2, <3>3 DEF FdsOK
    <3>5. FdsCurrent'
      <4>1. /\ \A w \in LiveWatches : idx[w] # 0 /\ fds[idx[w]].on = (w \in events)
            /\ \A i \in DOMAIN fds : fds[i].w \in LiveWatches /\ idx[fds[i].w] = i
        BY <1>1, <2>6 DEF FdsCurrent
      <4>2. ASSUME NEW w \in LiveWatches PROVE idx'[w] # 0 /\ fds[idx'[w]].on = (w \in events')
        <5>1. (w \in events') = (w \in events)
          BY <1>8
        <5> QED
          BY <3>2, <4>1, <5>1
      <4>3. ASSUME NEW i \in DOMAIN fds PROVE fds[i].w \in LiveWatches /\ idx'[fds[i].w] = i
        BY <3>2, <4>1
      <4> QED
        BY <1>8, <3>1, <4>2, <4>3 DEF FdsCurrent
    <3> QED
      BY <1>8, <1>9, <2>3, <3>4, <3>5, LoopPartsNext
  <2> QED
    BY <2>5, <2>6
<1> QED
  BY <1>10, <1>11

LEMMA LoopInitInv == LoopInit => LoopInv
<1> SUFFICES ASSUME LoopInit PROVE LoopInv
  OBVIOUS
<1>1. Range(<<>>) = {} /\ DOMAIN <<>> = {} /\ Len(<<>>) = 0
  BY DEF Range
<1>2. ListOK
  BY <1>1 DEF LoopInit, ListOK, Unique, DeadAreCleaned, Waits
<1>3. FdsOK
  <2>1. idx \in [Watches -> 0..0] /\ fds = <<>> /\ LiveWatches = {} /\ fds \in Seq(Pollfd)
    BY <1>1 DEF LoopInit, LiveWatches
  <2> QED
    BY <1>1, <2>1 DEF LoopInit, FdsOK
<1> QED
  BY <1>2, <1>3, LoopParts DEF LoopInit, ThreadOK, FdsCurrent, SleepCurrent

LEMMA LoopStep == LoopInv /\ [LoopNext]_loopVars => LoopInv'
<1> SUFFICES ASSUME LoopInv, [LoopNext]_loopVars PROVE LoopInv'
  OBVIOUS
<1>1. CASE UNCHANGED loopVars
  <2>1. /\ ThreadOK /\ ListOK /\ FdsOK /\ FdsCurrent /\ SleepCurrent
    BY LoopParts
  <2>2. ListOK' /\ FdsOK' /\ FdsCurrent'
    BY <1>1, <2>1, ObjectsRest DEF loopVars
  <2>3. ThreadOK' /\ SleepCurrent'
    BY <1>1, <2>1 DEF loopVars, threadVars, objVars, ThreadOK, SleepCurrent, LiveTimeouts
  <2> QED
    BY <2>2, <2>3, LoopPartsNext
<1>2. ASSUME NEW w \in Watches, WatchNew(w) \/ WatchFree(w) \/ \E on \in BOOLEAN : WatchUpdate(w, on)
      PROVE  LoopInv'
  BY <1>2, WatchNewInv, WatchFreeInv, WatchUpdateInv
<1>3. ASSUME NEW t \in Timeouts,
             TimeoutFree(t) \/ Elapse(t) \/ \E when \in Waits : TimeoutNew(t, when) \/ TimeoutUpdate(t, when)
      PROVE  LoopInv'
  BY <1>3, TimeoutsInv, ElapseInv
<1>4. CASE SomethingCame \/ WokenUp
  BY <1>4, PollInv DEF SomethingCame, WokenUp
<1>5. CASE LoopStart \/ Lock \/ Unlock \/ LoopStop \/ JoinThread \/ PrepareAgain \/ Relock \/ Return
  BY <1>5, ThreadInv
<1>6. CASE Quit \/ AskToQuit \/ Prepare \/ Dispatch
  BY <1>6, QuitInv, AskToQuitInv, PrepareInv, DispatchInv
<1> QED
  BY <1>1, <1>2, <1>3, <1>4, <1>5, <1>6 DEF LoopNext

\* No step calls what has been freed.
LEMMA LoopCalls ==
    LoopInv /\ [LoopNext]_loopVars => (called' # called /\ called' # "none" => called' \notin dead)
<1> SUFFICES ASSUME LoopInv, LoopNext, called' # called, called' # "none" PROVE called' \notin dead
  BY DEF loopVars
<1>1. CASE Dispatch
  BY <1>1, DispatchInv
<1>2. CASE Return
  BY <1>2 DEF Return
<1>3. CASE called' = called
  BY <1>3
<1> QED
  BY <1>1, <1>2, <1>3 DEF LoopNext, WatchNew, WatchFree, WatchUpdate, TimeoutNew, TimeoutUpdate,
     TimeoutFree, Quit, Call, LoopStart, Lock, Unlock, LoopStop, AskToQuit, JoinThread, Prepare,
     PrepareAgain, SomethingCame, WokenUp, PollReturns, Relock, Elapse

LEMMA PollsCurrent == LoopInv => PollIsCurrent
<1> SUFFICES ASSUME LoopInv, loop = "poll", ~pipe PROVE PollIsCurrent
  BY DEF PollIsCurrent
<1>1. /\ FdsOK /\ \A w \in LiveWatches : idx[w] # 0 /\ fds[idx[w]].on = (w \in events)
      /\ \A i \in DOMAIN fds : fds[i].w \in LiveWatches /\ idx[fds[i].w] = i
      /\ \A t \in LiveTimeouts : timeout[t] \in {"later", "due"} => sleep # "forever"
  BY LoopParts DEF SleepCurrent, FdsCurrent
<1>2. DOMAIN fds = 1..Len(fds) /\ \A w \in LiveWatches : w \in Watches /\ idx[w] \in DOMAIN fds /\ fds[idx[w]].w = w
  BY <1>1 DEF FdsOK, LiveWatches
<1> DEFINE Looked(i) == [w |-> fds[i].w, on |-> fds[i].on]
           Wanted(w) == [w |-> w, on |-> w \in events]
<1>3. ASSUME NEW i \in DOMAIN fds PROVE Looked(i) \in {Wanted(w) : w \in LiveWatches}
  <2> PICK v \in LiveWatches : v = fds[i].w
    BY <1>1
  <2>1. fds[i].on = (v \in events)
    BY <1>1
  <2>2. Looked(i) = Wanted(v)
    BY <2>1
  <2> QED
    BY <2>2
<1>4. ASSUME NEW w \in LiveWatches PROVE Wanted(w) \in {Looked(i) : i \in DOMAIN fds}
  <2> PICK k \in DOMAIN fds : k = idx[w]
    BY <1>2
  <2>1. fds[k].w = w /\ fds[k].on = (w \in events)
    BY <1>1, <1>2
  <2>2. Looked(k) = Wanted(w)
    BY <2>1
  <2> QED
    BY <2>2
<1>5. {Looked(i) : i \in DOMAIN fds} = {Wanted(w) : w \in LiveWatches}
  <2> HIDE DEF Looked, Wanted
  <2> QED
    BY <1>3, <1>4
<1> QED
  BY <1>1, <1>5 DEF PollIsCurrent

(***************************************************************************)
(* For any watches and timeouts: poll() looks at the watches that live     *)
(* with the events they have, and no longer than to the next timeout,      *)
(* unless a byte waits in the pipe; and what was freed is not called.      *)
(***************************************************************************)
THEOREM LoopCorrect == LoopSpec => LoopSafe
<1>1. LoopInv => LoopTypeOK /\ PollIsCurrent
  BY PollsCurrent DEF LoopInv
<1> QED
  BY <1>1, LoopInitInv, LoopStep, LoopCalls, PTL DEF LoopSpec, LoopSafe, FreedNotCalled

-----------------------------------------------------------------------------
(***************************************************************************)
(* HostRecords                                                             *)
(***************************************************************************)
ServerStates == {"INVALID", "REGISTERING", "RUNNING", "COLLISION"}

Servers == [state : ServerStates, pending : Nat, host : HostNames, failed : BOOLEAN,
            relevant : [HostAddress -> BOOLEAN], group : [HostAddress -> GroupStates]]

\* What the updates of the groups leave alone.
Same(u, t) == u.host = t.host /\ u.failed = t.failed /\ u.relevant = t.relevant

LEMMA WithFacts ==
    ASSUME NEW t \in Servers, NEW a \in HostAddress, NEW g \in GroupStates, NEW u, u = With(t, a, g)
    PROVE  /\ u \in Servers /\ Same(u, t) /\ u.state = t.state /\ u.pending = t.pending
           /\ u.group[a] = g /\ \A b \in HostAddress : b # a => u.group[b] = t.group[b]
<1>1. PICK gs : gs = [t.group EXCEPT ![a] = g]
  OBVIOUS
<1>2. t.group \in [HostAddress -> GroupStates]
  BY DEF Servers
<1>3. /\ gs \in [HostAddress -> GroupStates] /\ gs[a] = g
      /\ \A b \in HostAddress : b # a => gs[b] = t.group[b]
  BY <1>1, <1>2
<1>4. u = [t EXCEPT !.group = gs]
  BY <1>1 DEF With
<1>5. u \in Servers /\ u.group = gs /\ Same(u, t) /\ u.state = t.state /\ u.pending = t.pending
  BY <1>3, <1>4 DEF Servers, Same
<1> QED
  BY <1>3, <1>5

LEMMA CountFacts ==
    ASSUME NEW t \in Servers, NEW n \in Nat, NEW u, u = Count(t, n)
    PROVE  u \in Servers /\ Same(u, t) /\ u.state = t.state /\ u.pending = n /\ u.group = t.group
  BY DEF Count, Servers, Same

LEMMA InFacts ==
    ASSUME NEW t \in Servers, NEW state \in ServerStates, NEW u, u = In(t, state)
    PROVE  u \in Servers /\ Same(u, t) /\ u.state = state /\ u.pending = t.pending /\ u.group = t.group
  BY DEF In, Servers, Same

LEMMA GroupFields ==
    ASSUME NEW t \in Servers, NEW a \in HostAddress
    PROVE  /\ t.group[a] \in GroupStates /\ t.relevant[a] \in BOOLEAN /\ t.host \in HostNames
           /\ t.host # "empty" /\ t.group[a].recent \in BOOLEAN
  BY NameAssumption DEF Servers, GroupStates

\* The group as it is when it is committed, and when it is reset.
Committed(t, a) == [st |-> "REGISTERING", name |-> t.host, held |-> t.group[a].recent, recent |-> TRUE]
Cleared(t, a) == [st |-> "UNCOMMITED", name |-> "empty", held |-> FALSE, recent |-> t.group[a].recent]

LEMMA NewGroups ==
    ASSUME NEW t \in Servers, NEW a \in HostAddress
    PROVE  Committed(t, a) \in GroupStates /\ Cleared(t, a) \in GroupStates
  BY GroupFields DEF Committed, Cleared, GroupStates

LEMMA CommitFacts ==
    ASSUME NEW t \in Servers, NEW a \in HostAddress, NEW u, u = Commit(t, a)
    PROVE  /\ u \in Servers /\ Same(u, t) /\ u.state = t.state
           /\ u.pending = IF t.state = "REGISTERING" THEN t.pending + 1 ELSE t.pending
           /\ u.group[a] = Committed(t, a) /\ \A b \in HostAddress : b # a => u.group[b] = t.group[b]
<1>g. PICK g \in GroupStates : g = Committed(t, a)
  BY NewGroups
<1>1. PICK v : v = With(t, a, g)
  OBVIOUS
<1>2. /\ v \in Servers /\ Same(v, t) /\ v.state = t.state /\ v.pending = t.pending
      /\ v.group[a] = g /\ \A b \in HostAddress : b # a => v.group[b] = t.group[b]
  BY <1>1, WithFacts
<1>3. PICK n : n = IF t.state = "REGISTERING" THEN t.pending + 1 ELSE t.pending
  OBVIOUS
<1>4. n \in Nat
  BY <1>3 DEF Servers
<1>5. u = Count(v, n)
  BY <1>g, <1>1, <1>3 DEF Commit, Committed
<1>6. u \in Servers /\ Same(u, v) /\ u.state = v.state /\ u.pending = n /\ u.group = v.group
  BY <1>2, <1>4, <1>5, CountFacts
<1>7. Same(u, t)
  BY <1>2, <1>6 DEF Same
<1>8. u.group[a] = Committed(t, a) /\ \A b \in HostAddress : b # a => u.group[b] = t.group[b]
  BY <1>g, <1>2, <1>6
<1> QED
  BY <1>2, <1>3, <1>6, <1>7, <1>8

LEMMA ResetFacts ==
    ASSUME NEW t \in Servers, NEW a \in HostAddress, NEW u, u = Reset(t, a)
    PROVE  /\ u \in Servers /\ Same(u, t) /\ u.state = t.state /\ u.pending = t.pending
           /\ u.group[a] = Cleared(t, a) /\ \A b \in HostAddress : b # a => u.group[b] = t.group[b]
  BY NewGroups, WithFacts DEF Reset, Cleared

\* Every group holds nothing or the host's name, at an address that is relevant, and
\* only while it is being registered does it wait.
GroupsOK(t) == \A a \in HostAddress :
    /\ ~IsEmpty(t.group[a]) => t.group[a].name = t.host /\ t.relevant[a]
    /\ t.group[a].st = "REGISTERING" => ~IsEmpty(t.group[a])
    /\ t.group[a].held => t.group[a].st = "REGISTERING"

LEMMA GroupChanged ==
    ASSUME NEW t, GroupsOK(t), NEW u, Same(u, t), NEW a \in HostAddress,
           \A b \in HostAddress : b # a => u.group[b] = t.group[b],
           /\ ~IsEmpty(u.group[a]) => u.group[a].name = t.host /\ t.relevant[a]
           /\ u.group[a].st = "REGISTERING" => ~IsEmpty(u.group[a])
           /\ u.group[a].held => u.group[a].st = "REGISTERING"
    PROVE  GroupsOK(u)
  BY DEF GroupsOK, Same

LEMMA AddressesFinite ==
    IsFiniteSet(HostAddress) /\ Len(Addresses) \in Nat /\ DOMAIN Addresses = 1..Len(Addresses)
    /\ (\A i \in 1..Len(Addresses) : Addresses[i] \in HostAddress)
    /\ \A a \in HostAddress : \E i \in 1..Len(Addresses) : Addresses[i] = a
<1>1. Len(Addresses) \in Nat /\ DOMAIN Addresses = 1..Len(Addresses) /\ Addresses \in [1..Len(Addresses) -> HostAddress]
  BY NameAssumption
<1>2. \A a \in HostAddress : \E i \in 1..Len(Addresses) : Addresses[i] = a
  BY <1>1 DEF HostAddress, ToSet
<1>3. Addresses \in Surjection(1..Len(Addresses), HostAddress)
  BY <1>1, <1>2 DEF Surjection
<1>4. IsFiniteSet(1..Len(Addresses))
  BY <1>1, FS_Interval
<1> QED
  BY <1>1, <1>2, <1>3, <1>4, FS_Surjection

LEMMA RegisteringFinite ==
    ASSUME NEW t
    PROVE  /\ IsFiniteSet(Registering(t)) /\ Cardinality(Registering(t)) \in Nat
           /\ Cardinality(Registering(t)) <= Cardinality(HostAddress)
<1>1. Registering(t) \in SUBSET HostAddress
  BY DEF Registering
<1> QED
  BY <1>1, AddressesFinite, FS_Subset, FS_CardinalityType

\* One group more or less is being registered.
LEMMA RegisteringChanged ==
    ASSUME NEW t, NEW u, NEW a \in HostAddress,
           \A b \in HostAddress : b # a => u.group[b] = t.group[b]
    PROVE  /\ t.group[a].st # "REGISTERING" /\ u.group[a].st = "REGISTERING"
                => Cardinality(Registering(u)) = Cardinality(Registering(t)) + 1
           /\ t.group[a].st = "REGISTERING" /\ u.group[a].st # "REGISTERING"
                => Cardinality(Registering(t)) = Cardinality(Registering(u)) + 1
           /\ (t.group[a].st = "REGISTERING" <=> u.group[a].st = "REGISTERING")
                => Registering(u) = Registering(t)
<1>1. CASE t.group[a].st # "REGISTERING" /\ u.group[a].st = "REGISTERING"
  <2>1. Registering(u) = Registering(t) \cup {a} /\ a \notin Registering(t)
    BY <1>1 DEF Registering
  <2> QED
    BY <1>1, <2>1, RegisteringFinite, FS_AddElement
<1>2. CASE t.group[a].st = "REGISTERING" /\ u.group[a].st # "REGISTERING"
  <2>1. Registering(t) = Registering(u) \cup {a} /\ a \notin Registering(u)
    BY <1>2 DEF Registering
  <2> QED
    BY <1>2, <2>1, RegisteringFinite, FS_AddElement
<1>3. CASE t.group[a].st = "REGISTERING" <=> u.group[a].st = "REGISTERING"
  <2>1. Registering(u) = Registering(t)
    BY <1>3 DEF Registering
  <2> QED
    BY <1>3, <2>1
<1> QED
  BY <1>1, <1>2, <1>3

LEMMA SameGroups ==
    ASSUME NEW t, NEW u, u.group = t.group PROVE Registering(u) = Registering(t)
  BY DEF Registering

Counted(t) == Cardinality(Registering(t))

(***************************************************************************)
(* A server in the middle of an update: no group is wrong, and those that  *)
(* are registered are counted, if the server counts, and perhaps more.     *)
(***************************************************************************)
Fair(t) ==
    /\ t \in Servers /\ ~t.failed /\ GroupsOK(t)
    /\ t.state = "REGISTERING" => t.pending >= Counted(t)

LEMMA FillFacts ==
    ASSUME NEW t, Fair(t), NEW a \in HostAddress, t.relevant[a], NEW u, u = Fill(t, a)
    PROVE  /\ Fair(u) /\ Same(u, t) /\ u.state = t.state
           /\ t.state = "REGISTERING" => u.pending - Counted(u) = t.pending - Counted(t)
           /\ t.state # "REGISTERING" => u.pending = t.pending
<1>1. t \in Servers /\ GroupsOK(t) /\ t.pending \in Nat /\ Counted(t) \in Nat
  BY RegisteringFinite DEF Fair, Servers, Counted
<1>2. CASE ~IsEmpty(t.group[a])
  BY <1>1, <1>2 DEF Fill, Same
<1>3. CASE IsEmpty(t.group[a])
  <2>1. /\ u \in Servers /\ Same(u, t) /\ u.state = t.state
        /\ u.pending = IF t.state = "REGISTERING" THEN t.pending + 1 ELSE t.pending
        /\ u.group[a] = Committed(t, a) /\ \A b \in HostAddress : b # a => u.group[b] = t.group[b]
    BY <1>1, <1>3, CommitFacts DEF Fill
  <2>2. u.group[a].st = "REGISTERING" /\ u.group[a].name = t.host /\ ~IsEmpty(u.group[a])
    BY <1>1, <2>1, GroupFields DEF Committed, IsEmpty
  <2>3. t.group[a].st # "REGISTERING"
    BY <1>1, <1>3 DEF GroupsOK
  <2>4. Counted(u) = Counted(t) + 1
    BY <2>1, <2>2, <2>3, RegisteringChanged DEF Counted
  <2>5. GroupsOK(u)
    BY <1>1, <2>1, <2>2, GroupChanged
  <2> QED
    BY <1>1, <2>1, <2>4, <2>5 DEF Fair, Same
<1> QED
  BY <1>2, <1>3

LEMMA RunningFacts ==
    ASSUME NEW t \in Servers, GroupsOK(t), NEW u, u = Running(t)
    PROVE  /\ u \in Servers /\ Same(u, t) /\ u.state = "RUNNING" /\ u.pending = t.pending
           /\ GroupsOK(u)
           /\ \A a \in HostAddress : ~IsEmpty(t.group[a]) => u.group[a] = t.group[a]
<1>1. PICK v : v = In(t, "RUNNING")
  OBVIOUS
<1>2. v \in Servers /\ Same(v, t) /\ v.state = "RUNNING" /\ v.pending = t.pending /\ v.group = t.group
  BY <1>1, InFacts DEF ServerStates
<1> DEFINE G(a) == IF Published(v, a) THEN Fill(v, a).group[a]
                   ELSE IF IsEmpty(v.group[a]) THEN v.group[a] ELSE Reset(v, a).group[a]
<1>3. ASSUME NEW a \in HostAddress
      PROVE  G(a) = IF v.relevant[a] /\ IsEmpty(v.group[a]) THEN Committed(v, a) ELSE v.group[a]
  <2>1. Published(v, a) <=> v.relevant[a]
    BY <1>2, GroupFields DEF Published
  <2>2. ~v.relevant[a] => IsEmpty(v.group[a])
    BY <1>2, GroupFields DEF GroupsOK, Same
  <2>3. CASE v.relevant[a] /\ IsEmpty(v.group[a])
    <3>1. Fill(v, a).group[a] = Committed(v, a)
      BY <1>2, <2>3, CommitFacts DEF Fill
    <3> QED
      BY <2>1, <2>3, <3>1
  <2>4. CASE ~(v.relevant[a] /\ IsEmpty(v.group[a]))
    <3>1. v.relevant[a] => Fill(v, a).group[a] = v.group[a]
      BY <2>4 DEF Fill
    <3> QED
      BY <2>1, <2>2, <2>4, <3>1
  <2> QED
    BY <2>3, <2>4
<1>4. PICK gs : gs = [a \in HostAddress |-> G(a)]
  OBVIOUS
<1>5. u = [v EXCEPT !.group = gs]
  BY <1>1, <1>4 DEF Running, UpdateUncounted
<1> HIDE DEF G
<1>6. \A a \in HostAddress : gs[a] = IF v.relevant[a] /\ IsEmpty(v.group[a]) THEN Committed(v, a) ELSE v.group[a]
  BY <1>3, <1>4
<1>7. \A a \in HostAddress : gs[a] \in GroupStates
  BY <1>2, <1>6, NewGroups, GroupFields
<1>8. gs \in [HostAddress -> GroupStates]
  BY <1>4, <1>7
<1>9. u \in Servers /\ u.group = gs /\ Same(u, v) /\ u.state = v.state /\ u.pending = v.pending
  BY <1>2, <1>5, <1>8 DEF Servers, Same
<1>10. GroupsOK(u)
  <2> SUFFICES ASSUME NEW a \in HostAddress
               PROVE  /\ ~IsEmpty(gs[a]) => gs[a].name = t.host /\ t.relevant[a]
                      /\ gs[a].st = "REGISTERING" => ~IsEmpty(gs[a])
                      /\ gs[a].held => gs[a].st = "REGISTERING"
    BY <1>2, <1>9 DEF GroupsOK, Same
  <2>1. CASE v.relevant[a] /\ IsEmpty(v.group[a])
    <3>1. gs[a] = Committed(v, a) /\ v.host = t.host /\ v.relevant[a] = t.relevant[a]
      BY <1>2, <1>6, <2>1 DEF Same
    <3> QED
      BY <1>2, <2>1, <3>1, GroupFields DEF Committed, IsEmpty
  <2>2. CASE ~(v.relevant[a] /\ IsEmpty(v.group[a]))
    BY <1>2, <1>6, <2>2 DEF GroupsOK
  <2> QED
    BY <2>1, <2>2
<1> QED
  BY <1>2, <1>6, <1>9, <1>10 DEF Same

LEMMA DecreaseFacts ==
    ASSUME NEW t \in Servers, GroupsOK(t), t.pending > 0, NEW u, u = Decrease(t)
    PROVE  /\ u \in Servers /\ Same(u, t) /\ GroupsOK(u)
           /\ \A a \in HostAddress : ~IsEmpty(t.group[a]) => u.group[a] = t.group[a]
           /\ \/ t.pending = 1 /\ u.pending = 0 /\ u.state = "RUNNING"
              \/ t.pending > 1 /\ u.pending = t.pending - 1 /\ u.state = t.state /\ u.group = t.group
<1>1. t.pending \in Nat
  BY DEF Servers
<1>2. CASE t.pending = 1
  <2>1. PICK v : v = Count(t, 0)
    OBVIOUS
  <2>2. v \in Servers /\ Same(v, t) /\ v.pending = 0 /\ v.group = t.group
    BY <2>1, CountFacts
  <2>3. GroupsOK(v)
    BY <2>2 DEF GroupsOK, Same
  <2>4. u = Running(v)
    BY <1>2, <2>1 DEF Decrease
  <2> QED
    BY <1>2, <2>2, <2>3, <2>4, RunningFacts DEF Same
<1>3. CASE t.pending # 1
  <2>1. PICK n \in Nat : n = t.pending - 1
    BY <1>1
  <2>2. u = Count(t, n) /\ t.pending > 1
    BY <1>1, <1>3, <2>1 DEF Decrease
  <2>3. u \in Servers /\ Same(u, t) /\ u.pending = n /\ u.group = t.group /\ u.state = t.state
    BY <2>2, CountFacts
  <2>4. GroupsOK(u)
    BY <2>3 DEF GroupsOK, Same
  <2> QED
    BY <2>1, <2>2, <2>3, <2>4
<1> QED
  BY <1>2, <1>3

\* A group that holds something is reset, and is counted no more.
LEMMA ResetKeeps ==
    ASSUME NEW t \in Servers, GroupsOK(t), NEW a \in HostAddress, NEW u, u = Reset(t, a)
    PROVE  /\ u \in Servers /\ Same(u, t) /\ GroupsOK(u) /\ u.state = t.state /\ u.pending = t.pending
           /\ IsEmpty(u.group[a]) /\ \A b \in HostAddress : b # a => u.group[b] = t.group[b]
           /\ Counted(u) = IF t.group[a].st = "REGISTERING" THEN Counted(t) - 1 ELSE Counted(t)
<1>1. /\ u \in Servers /\ Same(u, t) /\ u.state = t.state /\ u.pending = t.pending
      /\ u.group[a] = Cleared(t, a) /\ \A b \in HostAddress : b # a => u.group[b] = t.group[b]
  BY ResetFacts
<1>2. IsEmpty(u.group[a]) /\ u.group[a].st # "REGISTERING" /\ ~u.group[a].held
  BY <1>1 DEF Cleared, IsEmpty
<1>3. GroupsOK(u)
  BY <1>1, <1>2, GroupChanged
<1>4. Counted(u) \in Nat /\ Counted(t) \in Nat
  BY RegisteringFinite DEF Counted
<1>5. Counted(u) = IF t.group[a].st = "REGISTERING" THEN Counted(t) - 1 ELSE Counted(t)
  BY <1>1, <1>2, <1>4, RegisteringChanged DEF Counted
<1> QED
  BY <1>1, <1>2, <1>3, <1>5

LEMMA ClearFacts ==
    ASSUME NEW t, Fair(t), NEW a \in HostAddress, NEW u, u = Clear(t, a)
    PROVE  /\ Fair(u) /\ Same(u, t) /\ IsEmpty(u.group[a])
           /\ u.state = t.state \/ (t.state = "REGISTERING" /\ u.state = "RUNNING" /\ u.pending = 0)
           /\ t.state = "REGISTERING" /\ u.state = "REGISTERING" => u.pending - Counted(u) = t.pending - Counted(t)
           /\ t.state # "REGISTERING" =>
                /\ u.pending = t.pending
                /\ \A b \in HostAddress : b # a => u.group[b] = t.group[b]
<1>1. t \in Servers /\ GroupsOK(t) /\ ~t.failed /\ t.pending \in Nat /\ Counted(t) \in Nat
      /\ (t.state = "REGISTERING" => t.pending >= Counted(t))
  BY RegisteringFinite DEF Fair, Servers, Counted
<1>2. CASE IsEmpty(t.group[a])
  BY <1>1, <1>2 DEF Clear, Same, Fair
<1>3. CASE ~IsEmpty(t.group[a]) /\ t.group[a].st = "REGISTERING" /\ t.state = "REGISTERING"
  <2>1. PICK v : v = Decrease(t)
    OBVIOUS
  <2>2. u = Reset(v, a)
    BY <1>3, <2>1 DEF Clear
  <2>3. t.pending > 0
    <3>1. Registering(t) # {}
      BY <1>3 DEF Registering
    <3>2. Counted(t) # 0
      BY <3>1, RegisteringFinite, FS_EmptySet DEF Counted
    <3> QED
      BY <1>1, <1>3, <3>2
  <2>4. /\ v \in Servers /\ Same(v, t) /\ GroupsOK(v) /\ v.group[a] = t.group[a]
        /\ \/ t.pending = 1 /\ v.pending = 0 /\ v.state = "RUNNING"
           \/ t.pending > 1 /\ v.pending = t.pending - 1 /\ v.state = t.state /\ v.group = t.group
    BY <1>1, <1>3, <2>1, <2>3, DecreaseFacts
  <2>5. /\ u \in Servers /\ Same(u, v) /\ GroupsOK(u) /\ u.state = v.state /\ u.pending = v.pending
        /\ IsEmpty(u.group[a]) /\ Counted(u) = Counted(v) - 1
    BY <1>3, <2>2, <2>4, ResetKeeps
  <2>6. Same(u, t) /\ ~u.failed
    BY <1>1, <2>4, <2>5 DEF Same
  <2>7. CASE v.state = "RUNNING" /\ v.pending = 0
    BY <1>3, <2>5, <2>6, <2>7 DEF Fair
  <2>8. CASE v.pending = t.pending - 1 /\ v.state = t.state /\ v.group = t.group
    <3>1. Counted(v) = Counted(t)
      BY <2>8, SameGroups DEF Counted
    <3>2. u.pending - Counted(u) = t.pending - Counted(t) /\ u.pending >= Counted(u)
      BY <1>1, <1>3, <2>5, <2>8, <3>1
    <3> QED
      BY <1>3, <2>5, <2>6, <2>8, <3>2 DEF Fair
  <2> QED
    BY <2>4, <2>7, <2>8
<1>4. CASE ~IsEmpty(t.group[a]) /\ ~(t.group[a].st = "REGISTERING" /\ t.state = "REGISTERING")
  <2>1. u = Reset(t, a)
    BY <1>4 DEF Clear
  <2>2. /\ u \in Servers /\ Same(u, t) /\ GroupsOK(u) /\ u.state = t.state /\ u.pending = t.pending
        /\ IsEmpty(u.group[a]) /\ \A b \in HostAddress : b # a => u.group[b] = t.group[b]
        /\ Counted(u) = IF t.group[a].st = "REGISTERING" THEN Counted(t) - 1 ELSE Counted(t)
    BY <1>1, <2>1, ResetKeeps
  <2> QED
    BY <1>1, <1>4, <2>2 DEF Fair, Same
<1> QED
  BY <1>2, <1>3, <1>4

\* Whatever a server is, an address is updated to a server.
LEMMA UpdateTypes ==
    ASSUME NEW t \in Servers, NEW a \in HostAddress, NEW remove \in BOOLEAN
    PROVE  UpdateAddress(t, a, remove) \in Servers
<1>1. ASSUME NEW v \in Servers PROVE Fill(v, a) \in Servers /\ Reset(v, a) \in Servers
  BY CommitFacts, ResetFacts DEF Fill
<1>2. ASSUME NEW v \in Servers PROVE Running(v) \in Servers
  <2>1. PICK w : w = In(v, "RUNNING")
    OBVIOUS
  <2>2. w \in Servers
    BY <2>1, InFacts DEF ServerStates
  <2> DEFINE G(b) == IF Published(w, b) THEN Fill(w, b).group[b]
                     ELSE IF IsEmpty(w.group[b]) THEN w.group[b] ELSE Reset(w, b).group[b]
  <2>3. ASSUME NEW b \in HostAddress PROVE G(b) \in GroupStates
    <3>1. Fill(w, b) \in Servers /\ Reset(w, b) \in Servers
      BY <2>2, CommitFacts, ResetFacts DEF Fill
    <3> QED
      BY <2>2, <3>1, GroupFields
  <2>4. PICK gs : gs = [b \in HostAddress |-> G(b)]
    OBVIOUS
  <2>5. Running(v) = [w EXCEPT !.group = gs]
    BY <2>1, <2>4 DEF Running, UpdateUncounted
  <2> HIDE DEF G
  <2>6. gs \in [HostAddress -> GroupStates]
    BY <2>3, <2>4
  <2> QED
    BY <2>2, <2>5, <2>6 DEF Servers
<1>3. Decrease(t) \in Servers
  <2>1. [t EXCEPT !.failed = TRUE] \in Servers
    BY DEF Servers
  <2>2. t.pending \in Nat
    BY DEF Servers
  <2>3. Running(Count(t, 0)) \in Servers
    BY <1>2, CountFacts
  <2>4. t.pending # 0 => Count(t, t.pending - 1) \in Servers
    <3>1. t.pending # 0 => t.pending - 1 \in Nat
      BY <2>2
    <3> QED
      BY <3>1, CountFacts
  <2> QED
    BY <2>1, <2>3, <2>4 DEF Decrease
<1>4. Clear(t, a) \in Servers
  BY <1>1, <1>3 DEF Clear
<1> QED
  BY <1>1, <1>4 DEF UpdateAddress

\* The updates of avahi_interface_monitor_update_rrs, one by one.
Updates(f, t, remove) ==
    /\ f[0] = t
    /\ \A i \in 1..Len(Addresses) : f[i] = UpdateAddress(f[i - 1], Addresses[i], remove)

LEMMA UpdateAllSteps ==
    ASSUME NEW t \in Servers, NEW remove \in BOOLEAN
    PROVE  \E f : Updates(f, t, remove) /\ UpdateAll(t, remove) = f[Len(Addresses)]
<1> PICK n \in Nat : n = Len(Addresses)
  BY AddressesFinite
<1> DEFINE F(g) == [i \in 0..Len(Addresses) |-> IF i = 0 THEN t ELSE UpdateAddress(g[i - 1], Addresses[i], remove)]
           step == [p \in Servers \X (1..n) |-> UpdateAddress(p[1], Addresses[p[2]], remove)]
<1>1. \E g : g = F(g)
  <2>1. step \in [Servers \X (1..n) -> Servers]
    <3>1. ASSUME NEW p \in Servers \X (1..n) PROVE UpdateAddress(p[1], Addresses[p[2]], remove) \in Servers
      <4>1. p[1] \in Servers /\ Addresses[p[2]] \in HostAddress
        BY AddressesFinite
      <4> QED
        BY <4>1, UpdateTypes
    <3> QED
      BY <3>1
  <2>2. \A v \in Servers, i \in 1..n : step[<<v, i>>] = UpdateAddress(v, Addresses[i], remove)
    OBVIOUS
  <2> HIDE DEF step
  <2>3. PICK g : Folded(g, Servers, t, step, n)
    BY <2>1, FoldExists
  <2>4. g \in [0..n -> Servers] /\ g[0] = t /\ \A i \in 1..n : g[i] = step[<<g[i - 1], i>>]
    BY <2>3 DEF Folded
  <2>5. ASSUME NEW i \in 0..n
        PROVE  g[i] = IF i = 0 THEN t ELSE UpdateAddress(g[i - 1], Addresses[i], remove)
    <3>1. CASE i = 0
      BY <2>4, <3>1
    <3>2. CASE i # 0
      <4>1. i \in 1..n /\ i - 1 \in 0..n
        BY <3>2
      <4>2. g[i - 1] \in Servers
        BY <2>4, <4>1
      <4> QED
        BY <2>2, <2>4, <3>2, <4>1, <4>2
    <3> QED
      BY <3>1, <3>2
  <2>6. g = [i \in 0..n |-> g[i]]
    BY <2>4
  <2>7. g = F(g)
    BY <2>5, <2>6
  <2> QED
    BY <2>7
<1> DEFINE f == CHOOSE g : g = F(g)
<1>2. f = F(f)
  BY <1>1
<1>3. UpdateAll(t, remove) = f[Len(Addresses)]
  BY DEF UpdateAll
<1> HIDE DEF f
<1>4. Updates(f, t, remove)
  <2>1. f = [i \in 0..n |-> IF i = 0 THEN t ELSE UpdateAddress(f[i - 1], Addresses[i], remove)]
    BY <1>2
  <2>2. 0 \in 0..n /\ \A i \in 1..n : i \in 0..n /\ i # 0
    OBVIOUS
  <2> QED
    BY <2>1, <2>2 DEF Updates
<1> QED
  BY <1>3, <1>4

\* A server that registers and updates its addresses counts each group it adds.
LEMMA UpdatesRegister ==
    ASSUME NEW t, Fair(t), t.state = "REGISTERING", NEW u, u = UpdateAll(t, FALSE)
    PROVE  /\ Fair(u) /\ Same(u, t) /\ u.state = "REGISTERING"
           /\ u.pending - Counted(u) = t.pending - Counted(t)
<1> PICK n \in Nat : n = Len(Addresses)
  BY AddressesFinite
<1>1. PICK f : Updates(f, t, FALSE) /\ u = f[n]
  BY UpdateAllSteps DEF Fair
<1>2. f[0] = t /\ \A i \in 1..n : f[i] = UpdateAddress(f[i - 1], Addresses[i], FALSE)
  BY <1>1 DEF Updates
<1> DEFINE P(v) == Fair(v) /\ Same(v, t) /\ v.state = "REGISTERING" /\ v.pending - Counted(v) = t.pending - Counted(t)
           G == {i \in 0..n : P(f[i])}
<1>3. 0 \in G
  BY <1>2 DEF Same
<1>4. ASSUME NEW i \in 1..n, i - 1 \in G PROVE i \in G
  <2>1. PICK v : v = f[i - 1]
    OBVIOUS
  <2>2. P(v) /\ Addresses[i] \in HostAddress /\ i \in 0..n
    BY <1>4, <2>1, AddressesFinite
  <2> PICK a \in HostAddress : a = Addresses[i]
    BY <2>2
  <2>3. PICK w : w = f[i] /\ w = UpdateAddress(v, a, FALSE)
    BY <1>2, <2>1
  <2>4. CASE v.relevant[a]
    <3>1. w = Fill(v, a)
      BY <2>2, <2>3, <2>4 DEF UpdateAddress, Published
    <3>2. /\ Fair(w) /\ Same(w, v) /\ w.state = "REGISTERING"
          /\ w.pending - Counted(w) = v.pending - Counted(v)
      BY <2>2, <2>4, <3>1, FillFacts
    <3>3. P(w)
      BY <2>2, <3>2 DEF Same
    <3> QED
      BY <2>2, <2>3, <3>3
  <2>5. CASE ~v.relevant[a]
    <3>1. IsEmpty(v.group[a])
      BY <2>2, <2>5 DEF Fair, GroupsOK
    <3>2. w = v
      BY <2>3, <2>5, <3>1 DEF UpdateAddress, Published, Clear
    <3> QED
      BY <2>2, <2>3, <3>2
  <2> QED
    BY <2>4, <2>5
<1>5. \A i \in 0..n : i \in G
  BY <1>3, <1>4, UpTo
<1>6. n \in 0..n
  OBVIOUS
<1>7. P(f[n])
  BY <1>5, <1>6
<1> QED
  BY <1>1, <1>7

\* Clearing the groups of a server that publishes fails nowhere, though the last of
\* those that are counted makes it run and fills some again.
LEMMA UpdatesWithdraw ==
    ASSUME NEW t, Fair(t), t.state \in {"REGISTERING", "RUNNING"}, NEW u, u = UpdateAll(t, TRUE)
    PROVE  Fair(u) /\ Same(u, t) /\ u.state \in {"REGISTERING", "RUNNING"}
<1> PICK n \in Nat : n = Len(Addresses)
  BY AddressesFinite
<1>1. PICK f : Updates(f, t, TRUE) /\ u = f[n]
  BY UpdateAllSteps DEF Fair
<1>2. f[0] = t /\ \A i \in 1..n : f[i] = UpdateAddress(f[i - 1], Addresses[i], TRUE)
  BY <1>1 DEF Updates
<1> DEFINE P(v) == Fair(v) /\ Same(v, t) /\ v.state \in {"REGISTERING", "RUNNING"}
           G == {i \in 0..n : P(f[i])}
<1>3. 0 \in G
  BY <1>2 DEF Same
<1>4. ASSUME NEW i \in 1..n, i - 1 \in G PROVE i \in G
  <2>1. PICK v : v = f[i - 1]
    OBVIOUS
  <2>2. P(v) /\ Addresses[i] \in HostAddress /\ i \in 0..n
    BY <1>4, <2>1, AddressesFinite
  <2> PICK a \in HostAddress : a = Addresses[i]
    BY <2>2
  <2>3. PICK w : w = f[i] /\ w = Clear(v, a)
    BY <1>2, <2>1 DEF UpdateAddress
  <2>4. Fair(w) /\ Same(w, v) /\ (w.state = v.state \/ w.state = "RUNNING")
    BY <2>2, <2>3, ClearFacts
  <2>5. P(w)
    BY <2>2, <2>4 DEF Same
  <2> QED
    BY <2>2, <2>3, <2>5
<1>5. \A i \in 0..n : i \in G
  BY <1>3, <1>4, UpTo
<1>6. n \in 0..n
  OBVIOUS
<1>7. P(f[n])
  BY <1>5, <1>6
<1> QED
  BY <1>1, <1>7

AllEmpty(t) == \A a \in HostAddress : IsEmpty(t.group[a])

\* Where nothing is counted, all that is to be cleared is.
LEMMA UpdatesClear ==
    ASSUME NEW t, Fair(t), t.state # "REGISTERING", NEW remove \in BOOLEAN,
           remove \/ t.state # "RUNNING", NEW u, u = UpdateAll(t, remove)
    PROVE  Fair(u) /\ Same(u, t) /\ u.state = t.state /\ u.pending = t.pending /\ AllEmpty(u)
<1> PICK n \in Nat : n = Len(Addresses)
  BY AddressesFinite
<1>1. PICK f : Updates(f, t, remove) /\ u = f[n]
  BY UpdateAllSteps DEF Fair
<1>2. f[0] = t /\ \A i \in 1..n : f[i] = UpdateAddress(f[i - 1], Addresses[i], remove)
  BY <1>1 DEF Updates
<1> DEFINE P(v) == Fair(v) /\ Same(v, t) /\ v.state = t.state /\ v.pending = t.pending
           C(v, i) == \A j \in 1..i : IsEmpty(v.group[Addresses[j]])
           G == {i \in 0..n : P(f[i]) /\ C(f[i], i)}
<1>3. 0 \in G
  BY <1>2 DEF Same
<1>4. ASSUME NEW i \in 1..n, i - 1 \in G PROVE i \in G
  <2>1. PICK v : v = f[i - 1]
    OBVIOUS
  <2>2. P(v) /\ C(v, i - 1) /\ i \in 0..n /\ \A j \in 1..n : Addresses[j] \in HostAddress
    BY <1>4, <2>1, AddressesFinite
  <2>a. PICK a \in HostAddress : a = Addresses[i]
    BY <2>2
  <2>3. PICK w : w = f[i] /\ w = Clear(v, a)
    BY <1>2, <2>1, <2>2, <2>a DEF UpdateAddress, Published
  <2>4. /\ Fair(w) /\ Same(w, v) /\ IsEmpty(w.group[a]) /\ w.state = v.state /\ w.pending = v.pending
        /\ \A b \in HostAddress : b # a => w.group[b] = v.group[b]
    <3>1. Fair(v) /\ v.state # "REGISTERING" /\ w = Clear(v, a)
      BY <2>2, <2>3
    <3> HIDE DEF P, C
    <3> QED
      BY <3>1, ClearFacts
  <2>5. P(w)
    BY <2>2, <2>4 DEF Same
  <2>6. ASSUME NEW j \in 1..i PROVE IsEmpty(w.group[Addresses[j]])
    <3>1. Addresses[j] \in HostAddress
      BY <2>2
    <3>2. CASE Addresses[j] = a
      BY <2>4, <3>2
    <3>3. CASE Addresses[j] # a
      <4>1. j \in 1..(i - 1)
        BY <2>a, <3>3
      <4> QED
        BY <2>2, <2>4, <3>1, <3>3, <4>1
    <3> QED
      BY <3>2, <3>3
  <2> QED
    BY <2>2, <2>3, <2>5, <2>6
<1>5. \A i \in 0..n : i \in G
  BY <1>3, <1>4, UpTo
<1>6. P(u) /\ C(u, n)
  <2>1. n \in 0..n
    OBVIOUS
  <2> QED
    BY <1>1, <1>5, <2>1
<1>7. AllEmpty(u)
  BY <1>6, AddressesFinite DEF AllEmpty
<1> QED
  BY <1>6, <1>7

(***************************************************************************)
(* HostInv: what HostSafe says, and that an empty group is not registered. *)
(***************************************************************************)
ServerOK(t) ==
    /\ t \in Servers /\ ~t.failed /\ GroupsOK(t)
    /\ t.pending = IF t.state = "REGISTERING" THEN Counted(t) ELSE 0
    /\ t.state \in {"INVALID", "COLLISION"} => AllEmpty(t)

HostInv == ServerOK(s) /\ changes \in 0..MaxChanges

LEMMA OkIsFair == ASSUME NEW t, ServerOK(t) PROVE Fair(t)
  BY RegisteringFinite DEF ServerOK, Fair, Counted

LEMMA EmptyCountsNone == ASSUME NEW t, GroupsOK(t), AllEmpty(t) PROVE Counted(t) = 0
<1>1. Registering(t) = {}
  BY DEF Registering, GroupsOK, AllEmpty
<1> QED
  BY <1>1, FS_EmptySet DEF Counted

\* register_stuff, of a server whose groups are all empty.
LEMMA RegisterFacts ==
    ASSUME NEW t, Fair(t), t.state # "REGISTERING", t.pending = 0, AllEmpty(t), NEW x, x = RegisterStuff(t)
    PROVE  ServerOK(x)
<1>1. PICK t1 : t1 = In(t, "REGISTERING")
  OBVIOUS
<1>2. t1 \in Servers /\ Same(t1, t) /\ t1.state = "REGISTERING" /\ t1.pending = 0 /\ t1.group = t.group
  BY <1>1, InFacts DEF Fair, ServerStates
<1>3. Counted(t1) = 0 /\ GroupsOK(t1)
  <2>1. GroupsOK(t1) /\ AllEmpty(t1)
    BY <1>2 DEF Fair, GroupsOK, Same, AllEmpty
  <2> QED
    BY <2>1, EmptyCountsNone
<1>4. Fair(t1)
  BY <1>2, <1>3 DEF Fair, Same
<1>5. PICK u : u = UpdateAll(t1, FALSE)
  OBVIOUS
<1>6. Fair(u) /\ u.state = "REGISTERING" /\ u.pending - Counted(u) = 0
  <2>1. t1.pending - Counted(t1) = 0
    BY <1>2, <1>3
  <2> QED
    BY <1>2, <1>4, <1>5, <2>1, UpdatesRegister
<1>7. u \in Servers /\ u.pending \in Nat /\ Counted(u) \in Nat /\ u.pending + 1 \in Nat
  BY <1>6, RegisteringFinite DEF Fair, Servers, Counted
<1>8. PICK u1 : u1 = Count(u, u.pending + 1)
  OBVIOUS
<1>9. u1 \in Servers /\ Same(u1, u) /\ u1.state = "REGISTERING" /\ u1.pending = u.pending + 1 /\ u1.group = u.group
  BY <1>6, <1>7, <1>8, CountFacts
<1>10. Counted(u1) = Counted(u) /\ GroupsOK(u1)
  BY <1>6, <1>9, SameGroups DEF Counted, Fair, GroupsOK, Same
<1>11. Fair(u1)
  BY <1>6, <1>7, <1>9, <1>10 DEF Fair, Same
<1>12. PICK w : w = UpdateAll(u1, FALSE)
  OBVIOUS
<1>13. Fair(w) /\ w.state = "REGISTERING" /\ w.pending - Counted(w) = 1
  <2>1. u1.pending - Counted(u1) = 1
    BY <1>6, <1>7, <1>9, <1>10
  <2> QED
    BY <1>9, <1>11, <1>12, <2>1, UpdatesRegister
<1>14. w \in Servers /\ w.pending \in Nat /\ Counted(w) \in Nat /\ w.pending - 1 = Counted(w)
  BY <1>13, RegisteringFinite DEF Fair, Servers, Counted
<1>15. PICK v : v = Count(w, w.pending - 1)
  OBVIOUS
<1>16. v \in Servers /\ Same(v, w) /\ v.state = "REGISTERING" /\ v.pending = Counted(w) /\ v.group = w.group
  <2>1. PICK m \in Nat : m = w.pending - 1
    BY <1>14
  <2>2. v = Count(w, m) /\ m = Counted(w)
    BY <1>14, <1>15, <2>1
  <2>3. v \in Servers /\ Same(v, w) /\ v.state = w.state /\ v.pending = m /\ v.group = w.group
    BY <1>14, <2>2, CountFacts
  <2> QED
    BY <1>13, <2>2, <2>3
<1>17. Counted(v) = Counted(w) /\ GroupsOK(v) /\ ~v.failed
  BY <1>13, <1>16, SameGroups DEF Counted, Fair, GroupsOK, Same
<1>18. x = IF v.pending = 0 THEN Running(v) ELSE v
  <2>1. u = SetState(t, "REGISTERING")
    BY <1>1, <1>5 DEF SetState
  <2>2. SetState(v, "RUNNING") = Running(v)
    BY <1>16 DEF SetState
  <2> QED
    BY <1>8, <1>12, <1>15, <2>1, <2>2 DEF RegisterStuff
<1>19. CASE v.pending = 0
  <2>1. x = Running(v)
    BY <1>18, <1>19
  <2>2. x \in Servers /\ Same(x, v) /\ x.state = "RUNNING" /\ x.pending = v.pending /\ GroupsOK(x)
    BY <1>16, <1>17, <2>1, RunningFacts
  <2> QED
    BY <1>17, <1>19, <2>2 DEF ServerOK, Same
<1>20. CASE v.pending # 0
  BY <1>16, <1>17, <1>18, <1>20 DEF ServerOK
<1> QED
  BY <1>19, <1>20

LEMMA StateFacts ==
    ASSUME NEW t, t \in Servers
    PROVE  t.state \in ServerStates /\ t.pending \in Nat /\ t.host \in HostNames /\ t.failed \in BOOLEAN
  BY DEF Servers

LEMMA ServerNewOK == ASSUME HostInv, ServerNew PROVE ServerOK(s')
<1>1. PICK R \in SUBSET HostAddress :
        s' = RegisterStuff([s EXCEPT !.relevant = [a \in HostAddress |-> a \in R]])
  BY DEF ServerNew
<1>2. s \in Servers /\ ~s.failed /\ GroupsOK(s) /\ s.state = "INVALID" /\ s.pending = 0 /\ AllEmpty(s)
  BY DEF ServerNew, HostInv, ServerOK
<1>3. PICK r : r = [a \in HostAddress |-> a \in R]
  OBVIOUS
<1>4. r \in [HostAddress -> BOOLEAN]
  BY <1>3
<1>5. PICK t : t = [s EXCEPT !.relevant = r]
  OBVIOUS
<1>6. t \in Servers /\ ~t.failed /\ t.state = "INVALID" /\ t.pending = 0 /\ t.group = s.group
  BY <1>2, <1>4, <1>5 DEF Servers
<1>7. AllEmpty(t) /\ GroupsOK(t)
  BY <1>2, <1>6 DEF AllEmpty, GroupsOK
<1>8. Fair(t)
  BY <1>6, <1>7 DEF Fair
<1>9. s' = RegisterStuff(t)
  BY <1>1, <1>3, <1>5
<1> QED
  BY <1>6, <1>7, <1>8, <1>9, RegisterFacts

LEMMA EstablishedOK == ASSUME HostInv, NEW a \in HostAddress, Established(a) PROVE ServerOK(s')
<1>1. /\ s \in Servers /\ ~s.failed /\ GroupsOK(s) /\ s.group[a].st = "REGISTERING" /\ ~s.group[a].held
      /\ s.pending = IF s.state = "REGISTERING" THEN Counted(s) ELSE 0
      /\ s.state \in {"INVALID", "COLLISION"} => AllEmpty(s)
  BY DEF Established, HostInv, ServerOK
<1>2. ~IsEmpty(s.group[a]) /\ s.group[a].name = s.host /\ s.relevant[a]
  BY <1>1 DEF GroupsOK
<1>3. PICK g : g = [s.group[a] EXCEPT !.st = "ESTABLISHED"]
  OBVIOUS
<1>4. g \in GroupStates /\ g.st = "ESTABLISHED" /\ g.name = s.group[a].name /\ g.held = s.group[a].held
  BY <1>1, <1>3, GroupFields DEF GroupStates
<1>5. PICK t : t = With(s, a, g)
  OBVIOUS
<1>6. /\ t \in Servers /\ Same(t, s) /\ t.state = s.state /\ t.pending = s.pending
      /\ t.group[a] = g /\ \A b \in HostAddress : b # a => t.group[b] = s.group[b]
  BY <1>1, <1>4, <1>5, WithFacts
<1>7. GroupsOK(t) /\ ~t.failed
  BY <1>1, <1>2, <1>4, <1>6, GroupChanged DEF Same
<1>8. Counted(s) = Counted(t) + 1 /\ Counted(t) \in Nat
  BY <1>1, <1>4, <1>6, RegisteringChanged, RegisteringFinite DEF Counted
<1>9. s' = IF t.state = "REGISTERING" THEN Decrease(t) ELSE t
  BY <1>3, <1>5 DEF Established
<1>10. CASE t.state = "REGISTERING"
  <2>1. t.pending = Counted(t) + 1 /\ t.pending > 0
    BY <1>1, <1>6, <1>8, <1>10
  <2>2. PICK u : u = Decrease(t)
    OBVIOUS
  <2>3. /\ u \in Servers /\ Same(u, t) /\ GroupsOK(u)
        /\ \/ t.pending = 1 /\ u.pending = 0 /\ u.state = "RUNNING"
           \/ t.pending > 1 /\ u.pending = t.pending - 1 /\ u.state = t.state /\ u.group = t.group
    BY <1>6, <1>7, <2>1, <2>2, DecreaseFacts
  <2>4. u.group = t.group => Counted(u) = Counted(t)
    BY SameGroups DEF Counted
  <2>5. ServerOK(u)
    BY <1>7, <1>8, <1>10, <2>1, <2>3, <2>4 DEF ServerOK, Same
  <2> QED
    BY <1>9, <1>10, <2>2, <2>5
<1>11. CASE t.state # "REGISTERING"
  <2>1. s.state \notin {"INVALID", "COLLISION"}
    BY <1>1, <1>2 DEF AllEmpty
  <2>2. ServerOK(t)
    BY <1>1, <1>6, <1>7, <1>11, <2>1 DEF ServerOK
  <2> QED
    BY <1>9, <1>11, <2>2
<1> QED
  BY <1>10, <1>11

\* A group whose state and name stay.
LEMMA GroupWaits ==
    ASSUME HostInv, NEW a \in HostAddress, NEW g \in GroupStates, g.st = s.group[a].st, g.name = s.group[a].name,
           g.held => s.group[a].held, NEW t, t = With(s, a, g)
    PROVE  ServerOK(t)
<1>1. /\ s \in Servers /\ ~s.failed /\ GroupsOK(s)
      /\ s.pending = IF s.state = "REGISTERING" THEN Counted(s) ELSE 0
      /\ s.state \in {"INVALID", "COLLISION"} => AllEmpty(s)
  BY DEF HostInv, ServerOK
<1>2. /\ t \in Servers /\ Same(t, s) /\ t.state = s.state /\ t.pending = s.pending
      /\ t.group[a] = g /\ \A b \in HostAddress : b # a => t.group[b] = s.group[b]
  BY <1>1, WithFacts
<1>3. IsEmpty(g) <=> IsEmpty(s.group[a])
  BY DEF IsEmpty
<1>4. GroupsOK(t)
  BY <1>1, <1>2, <1>3 DEF GroupsOK, Same
<1>5. Counted(t) = Counted(s)
  BY <1>2, RegisteringChanged DEF Counted
<1>6. AllEmpty(s) => AllEmpty(t)
  BY <1>2, <1>3 DEF AllEmpty
<1> QED
  BY <1>1, <1>2, <1>4, <1>5, <1>6 DEF ServerOK, Same

LEMMA TimersOK ==
    ASSUME HostInv, NEW a \in HostAddress, HoldoffPassed(a) \/ Forget(a) PROVE ServerOK(s')
<1>1. s.group[a] \in GroupStates
  BY GroupFields DEF HostInv, ServerOK
<1>2. PICK g : s' = With(s, a, g) /\ (g = [[s.group[a] EXCEPT !.held = FALSE] EXCEPT !.recent = TRUE]
                                     \/ g = [s.group[a] EXCEPT !.recent = FALSE])
  BY DEF HoldoffPassed, Forget
<1>3. g \in GroupStates /\ g.st = s.group[a].st /\ g.name = s.group[a].name /\ (g.held => s.group[a].held)
  BY <1>1, <1>2 DEF GroupStates
<1> QED
  BY <1>2, <1>3, GroupWaits

LEMMA CollisionOK == ASSUME HostInv, NEW a \in HostAddress, Collision(a) PROVE ServerOK(s')
<1>1. /\ s \in Servers /\ ~s.failed /\ GroupsOK(s) /\ ~s.group[a].held
      /\ s.pending = IF s.state = "REGISTERING" THEN Counted(s) ELSE 0
      /\ s.state \in {"INVALID", "COLLISION"} => AllEmpty(s)
  BY DEF Collision, HostInv, ServerOK
<1>2. PICK g : g = [[s.group[a] EXCEPT !.st = "COLLISION"] EXCEPT !.name = "empty"]
  OBVIOUS
<1>3. g \in GroupStates /\ g.st = "COLLISION" /\ g.name = "empty" /\ g.held = s.group[a].held
  BY <1>1, <1>2, GroupFields DEF GroupStates
<1>4. PICK t : t = With(s, a, g)
  OBVIOUS
<1>5. /\ t \in Servers /\ Same(t, s) /\ t.state = s.state /\ t.pending = s.pending
      /\ t.group[a] = g /\ \A b \in HostAddress : b # a => t.group[b] = s.group[b]
  BY <1>1, <1>3, <1>4, WithFacts
<1>6. GroupsOK(t) /\ ~t.failed /\ IsEmpty(g)
  BY <1>1, <1>3, <1>5, GroupChanged DEF Same, IsEmpty
<1>7. Counted(t) <= Counted(s) /\ Counted(s) \in Nat /\ Counted(t) \in Nat /\ (s.group[a].st # "REGISTERING" => Counted(t) = Counted(s))
  BY <1>3, <1>5, RegisteringChanged, RegisteringFinite DEF Counted
<1>8. Fair(t)
  BY <1>1, <1>5, <1>6, <1>7 DEF Fair
<1>9. s' = IF t.state \in {"REGISTERING", "RUNNING"} THEN SetState(WithdrawHost(t), "COLLISION") ELSE t
  BY <1>2, <1>4 DEF Collision
<1>10. CASE t.state \in {"REGISTERING", "RUNNING"}
  <2>1. PICK u : u = UpdateAll(t, TRUE)
    OBVIOUS
  <2>2. Fair(u) /\ u.state \in {"REGISTERING", "RUNNING"}
    BY <1>8, <1>10, <2>1, UpdatesWithdraw
  <2>3. PICK v : v = Count(u, 0)
    OBVIOUS
  <2>4. v \in Servers /\ Same(v, u) /\ v.state = u.state /\ v.pending = 0 /\ v.group = u.group
    BY <2>2, <2>3, CountFacts DEF Fair
  <2>5. PICK w : w = In(v, "COLLISION")
    OBVIOUS
  <2>6. w \in Servers /\ Same(w, v) /\ w.state = "COLLISION" /\ w.pending = 0 /\ w.group = u.group
    BY <2>4, <2>5, InFacts DEF ServerStates
  <2>7. Fair(w)
    BY <2>2, <2>4, <2>6 DEF Fair, GroupsOK, Same
  <2>8. s' = UpdateAll(w, FALSE)
    BY <1>9, <1>10, <2>1, <2>2, <2>3, <2>4, <2>5 DEF WithdrawHost, SetState
  <2>9. PICK x : x = UpdateAll(w, FALSE)
    OBVIOUS
  <2>10. Fair(x) /\ x.state = "COLLISION" /\ x.pending = 0 /\ AllEmpty(x)
    BY <2>6, <2>7, <2>9, UpdatesClear
  <2>11. ServerOK(x)
    BY <2>10 DEF ServerOK, Fair
  <2> QED
    BY <2>8, <2>9, <2>11
<1>11. CASE t.state \notin {"REGISTERING", "RUNNING"}
  <2>1. AllEmpty(t)
    BY <1>1, <1>5, <1>6, <1>11, StateFacts DEF AllEmpty, ServerStates
  <2>2. ServerOK(t)
    BY <1>1, <1>5, <1>6, <1>11, <2>1 DEF ServerOK
  <2> QED
    BY <1>9, <1>11, <2>2
<1> QED
  BY <1>10, <1>11

LEMMA SetHostNameOK ==
    ASSUME HostInv, ~AnyTime, NEW n \in HostNames, SetHostName(n) PROVE ServerOK(s')
<1>1. /\ s \in Servers /\ ~s.failed /\ GroupsOK(s) /\ s.state \in {"RUNNING", "COLLISION"} /\ s.pending = 0
      /\ s' = RegisterStuff([WithdrawHost(s) EXCEPT !.host = n])
  BY DEF SetHostName, HostInv, ServerOK
<1>2. Fair(s) /\ s.state # "REGISTERING"
  BY <1>1 DEF Fair
<1>3. PICK u : u = UpdateAll(s, TRUE)
  OBVIOUS
<1>4. Fair(u) /\ u.state = s.state /\ u.pending = 0 /\ AllEmpty(u)
  BY <1>1, <1>2, <1>3, UpdatesClear
<1>5. PICK v : v = Count(u, 0)
  OBVIOUS
<1>6. v \in Servers /\ Same(v, u) /\ v.state = u.state /\ v.pending = 0 /\ v.group = u.group
  BY <1>4, <1>5, CountFacts DEF Fair
<1>7. PICK t : t = [v EXCEPT !.host = n]
  OBVIOUS
<1>8. t \in Servers /\ t.failed = v.failed /\ t.state = v.state /\ t.pending = 0 /\ t.group = u.group
  BY <1>6, <1>7 DEF Servers
<1>9. AllEmpty(t)
  BY <1>4, <1>8 DEF AllEmpty
<1>10. GroupsOK(t)
  BY <1>4, <1>8, <1>9 DEF Fair, GroupsOK, AllEmpty
<1>11. Fair(t) /\ t.state # "REGISTERING"
  BY <1>2, <1>4, <1>6, <1>8, <1>10 DEF Fair, Same
<1>12. s' = RegisterStuff(t)
  BY <1>1, <1>3, <1>5, <1>7 DEF WithdrawHost
<1> QED
  BY <1>8, <1>9, <1>11, <1>12, RegisterFacts

LEMMA AddressNewOK == ASSUME HostInv, NEW a \in HostAddress, AddressNew(a) PROVE ServerOK(s')
<1>1. /\ s \in Servers /\ ~s.failed /\ GroupsOK(s) /\ s.state # "INVALID"
      /\ s.pending = IF s.state = "REGISTERING" THEN Counted(s) ELSE 0
      /\ s.state \in {"INVALID", "COLLISION"} => AllEmpty(s)
  BY DEF AddressNew, HostInv, ServerOK
<1>2. PICK r : r = [s.relevant EXCEPT ![a] = TRUE]
  OBVIOUS
<1>3. r \in [HostAddress -> BOOLEAN] /\ r[a] = TRUE /\ \A b \in HostAddress : b # a => r[b] = s.relevant[b]
  BY <1>1, <1>2 DEF Servers
<1>4. PICK t : t = [s EXCEPT !.relevant = r]
  OBVIOUS
<1>5. t \in Servers /\ t.failed = s.failed /\ t.state = s.state /\ t.pending = s.pending /\ t.group = s.group
      /\ t.relevant = r /\ t.host = s.host
  BY <1>1, <1>3, <1>4 DEF Servers
<1>6. GroupsOK(t) /\ (AllEmpty(t) <=> AllEmpty(s))
  BY <1>1, <1>3, <1>5 DEF GroupsOK, AllEmpty
<1>7. Counted(t) = Counted(s)
  BY <1>5, SameGroups DEF Counted
<1>8. ServerOK(t)
  BY <1>1, <1>5, <1>6, <1>7 DEF ServerOK
<1>9. s' = UpdateAddress(t, a, FALSE)
  BY <1>2, <1>4 DEF AddressNew
<1>10. CASE t.state \in {"REGISTERING", "RUNNING"}
  <2>1. PICK u : u = Fill(t, a)
    OBVIOUS
  <2>2. s' = u /\ t.relevant[a]
    BY <1>3, <1>5, <1>9, <1>10, <2>1 DEF UpdateAddress, Published
  <2>3. /\ Fair(u) /\ Same(u, t) /\ u.state = t.state
        /\ t.state = "REGISTERING" => u.pending - Counted(u) = t.pending - Counted(t)
        /\ t.state # "REGISTERING" => u.pending = t.pending
    BY <1>8, <2>1, <2>2, OkIsFair, FillFacts
  <2>4. u.pending \in Nat /\ Counted(u) \in Nat /\ t.pending \in Nat /\ Counted(t) \in Nat
    BY <1>5, <2>3, StateFacts, RegisteringFinite DEF Fair, Counted
  <2>5. ServerOK(u)
    BY <1>8, <1>10, <2>3, <2>4 DEF ServerOK, Fair
  <2> QED
    BY <2>2, <2>5
<1>11. CASE t.state \notin {"REGISTERING", "RUNNING"}
  <2>1. IsEmpty(t.group[a])
    BY <1>5, <1>8, <1>11, StateFacts DEF ServerOK, AllEmpty, ServerStates
  <2>2. s' = t
    BY <1>9, <1>11, <2>1 DEF UpdateAddress, Published, Clear
  <2> QED
    BY <1>8, <2>2
<1> QED
  BY <1>10, <1>11

LEMMA NoHostGroupFacts == NoHostGroup \in GroupStates /\ NoHostGroup.st = "none" /\ IsEmpty(NoHostGroup) /\ ~NoHostGroup.held
  BY DEF NoHostGroup, GroupStates, IsEmpty

LEMMA AddressFreeOK == ASSUME HostInv, NEW a \in HostAddress, AddressFree(a) PROVE ServerOK(s')
<1>1. /\ ServerOK(s) /\ s \in Servers /\ ~s.failed /\ s.pending \in Nat /\ Counted(s) \in Nat
  BY StateFacts, RegisteringFinite DEF HostInv, ServerOK, Counted
<1>2. PICK u : u = Clear(s, a)
  OBVIOUS
<1>3. /\ Fair(u) /\ Same(u, s) /\ IsEmpty(u.group[a])
      /\ u.state = s.state \/ (s.state = "REGISTERING" /\ u.state = "RUNNING" /\ u.pending = 0)
      /\ s.state = "REGISTERING" /\ u.state = "REGISTERING" => u.pending - Counted(u) = s.pending - Counted(s)
      /\ s.state # "REGISTERING" =>
           /\ u.pending = s.pending
           /\ \A b \in HostAddress : b # a => u.group[b] = s.group[b]
  BY <1>1, <1>2, OkIsFair, ClearFacts
<1>4. u \in Servers /\ GroupsOK(u) /\ ~u.failed /\ u.pending \in Nat /\ Counted(u) \in Nat
  BY <1>3, StateFacts, RegisteringFinite DEF Fair, Counted
<1>5. u.pending = IF u.state = "REGISTERING" THEN Counted(u) ELSE 0
  BY <1>1, <1>3, <1>4 DEF ServerOK
<1>6. u.state \in {"INVALID", "COLLISION"} => AllEmpty(u)
  BY <1>1, <1>3 DEF ServerOK, AllEmpty
<1>7. PICK t : t = With(u, a, NoHostGroup)
  OBVIOUS
<1>8. /\ t \in Servers /\ Same(t, u) /\ t.state = u.state /\ t.pending = u.pending
      /\ t.group[a] = NoHostGroup /\ \A b \in HostAddress : b # a => t.group[b] = u.group[b]
  BY <1>4, <1>7, NoHostGroupFacts, WithFacts
<1>9. u.group[a].st # "REGISTERING"
  BY <1>3, <1>4 DEF GroupsOK
<1>10. Counted(t) = Counted(u) /\ GroupsOK(t)
  BY <1>4, <1>8, <1>9, NoHostGroupFacts, RegisteringChanged, GroupChanged DEF Counted
<1>11. PICK r : r = [t.relevant EXCEPT ![a] = FALSE]
  OBVIOUS
<1>12. r \in [HostAddress -> BOOLEAN] /\ \A b \in HostAddress : b # a => r[b] = t.relevant[b]
  BY <1>8, <1>11 DEF Servers
<1>13. PICK x : x = [t EXCEPT !.relevant = r]
  OBVIOUS
<1>14. x \in Servers /\ x.failed = t.failed /\ x.state = t.state /\ x.pending = t.pending /\ x.group = t.group
       /\ x.relevant = r /\ x.host = t.host
  BY <1>8, <1>12, <1>13 DEF Servers
<1>15. GroupsOK(x)
  BY <1>8, <1>10, <1>12, <1>14, NoHostGroupFacts DEF GroupsOK
<1>16. Counted(x) = Counted(t)
  BY <1>14, SameGroups DEF Counted
<1>17. AllEmpty(u) => AllEmpty(x)
  BY <1>8, <1>14, NoHostGroupFacts DEF AllEmpty
<1>18. ServerOK(x)
  BY <1>4, <1>5, <1>6, <1>8, <1>10, <1>14, <1>15, <1>16, <1>17 DEF ServerOK, Same
<1>19. s' = x
  BY <1>2, <1>7, <1>11, <1>13 DEF AddressFree, UpdateAddress
<1> QED
  BY <1>18, <1>19

LEMMA HostStep == ~AnyTime /\ HostInv /\ [~s.failed /\ HostNext]_hostVars => HostInv'
<1> SUFFICES ASSUME ~AnyTime, HostInv, [~s.failed /\ HostNext]_hostVars PROVE HostInv'
  OBVIOUS
<1>1. CASE UNCHANGED hostVars
  BY <1>1 DEF HostInv, hostVars
<1>2. CASE HostNext
  <2>1. ServerOK(s')
    BY <1>2, ServerNewOK, EstablishedOK, TimersOK, CollisionOK, SetHostNameOK, AddressNewOK, AddressFreeOK DEF HostNext
  <2>2. changes' \in 0..MaxChanges
    <3>1. changes' = changes \/ (changes < MaxChanges /\ changes' = changes + 1)
      BY <1>2, Zenon DEF HostNext, ServerNew, Established, HoldoffPassed, Forget, Collision,
         SetHostName, AddressNew, AddressFree
    <3> QED
      BY <3>1, NameAssumption DEF HostInv
  <2> QED
    BY <2>1, <2>2 DEF HostInv
<1> QED
  BY <1>1, <1>2

LEMMA HostInitInv == HostInit => HostInv
<1> SUFFICES ASSUME HostInit PROVE HostInv
  OBVIOUS
<1>1. PICK gs : gs = [a \in HostAddress |-> NoHostGroup]
  OBVIOUS
<1>2. PICK r : r = [a \in HostAddress |-> FALSE]
  OBVIOUS
<1>3. gs \in [HostAddress -> GroupStates] /\ r \in [HostAddress -> BOOLEAN] /\ \A a \in HostAddress : gs[a] = NoHostGroup
  BY <1>1, <1>2, NoHostGroupFacts
<1>4. s = [state |-> "INVALID", pending |-> 0, host |-> FirstName, failed |-> FALSE, relevant |-> r, group |-> gs]
  BY <1>1, <1>2 DEF HostInit
<1>5. s \in Servers /\ s.group = gs /\ s.state = "INVALID" /\ s.pending = 0 /\ ~s.failed
  BY <1>3, <1>4, NameAssumption DEF Servers, ServerStates
<1>6. GroupsOK(s) /\ AllEmpty(s)
  BY <1>3, <1>5, NoHostGroupFacts DEF GroupsOK, AllEmpty
<1> QED
  BY <1>5, <1>6, NameAssumption DEF HostInit, HostInv, ServerOK

(***************************************************************************)
(* For any addresses and names, if a name is set only once the host is     *)
(* registered or has collided: the count of groups that are pending never  *)
(* goes wrong, what is published is under the host's name and in a state   *)
(* in which the host publishes, and a hold-off runs only for what waits.   *)
(***************************************************************************)
THEOREM HostCorrect == ASSUME ~AnyTime PROVE HostSpec => []HostSafe
<1>1. HostInv => HostSafe
  <2> SUFFICES ASSUME HostInv PROVE HostSafe
    OBVIOUS
  <2>1. s \in Servers /\ ~s.failed /\ GroupsOK(s) /\ s.pending = (IF s.state = "REGISTERING" THEN Counted(s) ELSE 0)
        /\ (s.state \in {"INVALID", "COLLISION"} => AllEmpty(s)) /\ changes \in 0..MaxChanges
    BY DEF HostInv, ServerOK
  <2>2. /\ s.state \in ServerStates /\ s.pending \in Nat /\ s.host \in HostNames
        /\ s.group \in [HostAddress -> GroupStates] /\ s.relevant \in [HostAddress -> BOOLEAN]
    BY <2>1 DEF Servers
  <2>3. Counted(s) \in Nat /\ Counted(s) <= Cardinality(HostAddress) /\ Cardinality(HostAddress) \in Nat
    BY RegisteringFinite, AddressesFinite, FS_CardinalityType DEF Counted
  <2>4. HostTypeOK
    BY <2>1, <2>2, <2>3 DEF HostTypeOK, ServerStates
  <2>5. PendingCounts
    BY <2>1 DEF PendingCounts, Counted
  <2>6. RecordsUnderName
    BY <2>1, <2>2 DEF RecordsUnderName, GroupsOK, Published, AllEmpty, ServerStates
  <2>7. HoldoffWaits
    BY <2>1 DEF HoldoffWaits, GroupsOK
  <2> QED
    BY <2>4, <2>5, <2>6, <2>7 DEF HostSafe
<1> QED
  BY <1>1, HostInitInv, HostStep, PTL DEF HostSpec

-----------------------------------------------------------------------------
(***************************************************************************)
(* Interfaces                                                              *)
(***************************************************************************)
(***************************************************************************)
(* What a queue says of a thing: S is the messages that tell of it.  The   *)
(* last of them is in G, and cur holds if there is none.                   *)
(***************************************************************************)
LastOf(q, S, i) == i \in 1..Len(q) /\ q[i] \in S /\ \A j \in 1..Len(q) : j > i => q[j] \notin S
NoneOf(q, S) == \A j \in 1..Len(q) : q[j] \notin S

Consistent(q, S, G, cur) ==
    /\ \A i \in 1..Len(q) : LastOf(q, S, i) => q[i] \in G
    /\ NoneOf(q, S) => cur

\* The same of what comes before place i.
Ahead(q, S, G, cur, i) ==
    /\ \A k \in 1..(i - 1) : q[k] \in S /\ (\A j \in 1..(i - 1) : j > k => q[j] \notin S) => q[k] \in G
    /\ (\A k \in 1..(i - 1) : q[k] \notin S) => cur

LEMMA TailOf ==
    ASSUME NEW T, NEW q \in Seq(T), q # <<>>
    PROVE  /\ Tail(q) \in Seq(T) /\ Len(Tail(q)) = Len(q) - 1 /\ Len(q) \in Nat /\ Len(q) > 0
           /\ Head(q) = q[1] /\ Head(q) \in T
           /\ \A i \in 1..Len(Tail(q)) : Tail(q)[i] = q[i + 1]
OBVIOUS

LEMMA JoinedOf ==
    ASSUME NEW T, NEW q \in Seq(T), NEW r \in Seq(T)
    PROVE  /\ q \o r \in Seq(T) /\ Len(q \o r) = Len(q) + Len(r) /\ Len(q) \in Nat /\ Len(r) \in Nat
           /\ \A i \in 1..Len(q) : (q \o r)[i] = q[i]
           /\ \A i \in 1..Len(r) : (q \o r)[Len(q) + i] = r[i]
OBVIOUS

\* The head of the queue makes of cur what cur2 is.
LEMMA ConsistentTail ==
    ASSUME NEW T, NEW q \in Seq(T), q # <<>>, NEW S, NEW G, NEW cur, NEW cur2,
           Consistent(q, S, G, cur),
           Head(q) \in S /\ Head(q) \in G => cur2, Head(q) \notin S /\ cur => cur2
    PROVE  Consistent(Tail(q), S, G, cur2)
<1>1. PICK t : t = Tail(q)
  OBVIOUS
<1>2. /\ Len(t) = Len(q) - 1 /\ Len(q) \in Nat /\ Len(q) > 0
      /\ Head(q) = q[1] /\ \A i \in 1..Len(t) : t[i] = q[i + 1]
  BY <1>1, TailOf
<1>3. ASSUME NEW i \in 1..Len(t), LastOf(t, S, i) PROVE t[i] \in G
  <2>1. i + 1 \in 1..Len(q) /\ q[i + 1] \in S
    BY <1>2, <1>3 DEF LastOf
  <2>2. ASSUME NEW j \in 1..Len(q), j > i + 1 PROVE q[j] \notin S
    <3>1. j - 1 \in 1..Len(t) /\ j - 1 > i /\ (j - 1) + 1 = j
      BY <1>2, <2>2
    <3> QED
      BY <1>2, <1>3, <3>1 DEF LastOf
  <2> QED
    BY <1>2, <2>1, <2>2 DEF LastOf, Consistent
<1>4. ASSUME NoneOf(t, S) PROVE cur2
  <2>1. ASSUME NEW j \in 1..Len(q), j > 1 PROVE q[j] \notin S
    <3>1. j - 1 \in 1..Len(t) /\ (j - 1) + 1 = j
      BY <1>2, <2>1
    <3> QED
      BY <1>2, <1>4, <3>1 DEF NoneOf
  <2>2. 1 \in 1..Len(q)
    BY <1>2
  <2>3. CASE Head(q) \in S
    <3>1. LastOf(q, S, 1)
      BY <1>2, <2>1, <2>2, <2>3 DEF LastOf
    <3> QED
      BY <1>2, <2>2, <2>3, <3>1 DEF Consistent
  <2>4. CASE Head(q) \notin S
    <3>1. \A j \in 1..Len(q) : j = 1 \/ j > 1
      BY <1>2
    <3>2. NoneOf(q, S)
      BY <1>2, <2>1, <2>4, <3>1 DEF NoneOf
    <3> QED
      BY <2>4, <3>2 DEF Consistent
  <2> QED
    BY <2>3, <2>4
<1> QED
  BY <1>1, <1>3, <1>4 DEF Consistent

\* Messages r come when what is told of has changed: G2 and cur2 instead of G and cur.
LEMMA ConsistentJoined ==
    ASSUME NEW T, NEW q \in Seq(T), NEW r \in Seq(T), NEW S, NEW G, NEW cur, NEW G2, NEW cur2,
           Consistent(q, S, G, cur), \A i \in 1..Len(r) : r[i] \in S => r[i] \in G2,
           NoneOf(r, S) => (\A x \in S : x \in G => x \in G2) /\ (cur => cur2)
    PROVE  Consistent(q \o r, S, G2, cur2)
<1>1. PICK t : t = q \o r
  OBVIOUS
<1>2. /\ Len(t) = Len(q) + Len(r) /\ Len(q) \in Nat /\ Len(r) \in Nat
      /\ \A i \in 1..Len(q) : t[i] = q[i]
      /\ \A i \in 1..Len(r) : t[Len(q) + i] = r[i]
  BY <1>1, JoinedOf
<1>3. ASSUME \A j \in 1..Len(t) : j > Len(q) => t[j] \notin S PROVE NoneOf(r, S)
  <2>1. \A j \in 1..Len(r) : Len(q) + j \in 1..Len(t) /\ Len(q) + j > Len(q)
    BY <1>2
  <2> QED
    BY <1>2, <1>3, <2>1 DEF NoneOf
<1>4. ASSUME NEW i \in 1..Len(t), LastOf(t, S, i) PROVE t[i] \in G2
  <2>1. CASE i \in 1..Len(q)
    <3>1. NoneOf(r, S)
      BY <1>2, <1>3, <1>4, <2>1 DEF LastOf
    <3>2. \A j \in 1..Len(q) : j \in 1..Len(t)
      BY <1>2
    <3>3. LastOf(q, S, i)
      BY <1>2, <1>4, <2>1, <3>2 DEF LastOf
    <3>4. t[i] \in G /\ t[i] \in S
      BY <1>2, <2>1, <3>3 DEF Consistent, LastOf
    <3> QED
      BY <3>1, <3>4
  <2>2. CASE i \notin 1..Len(q)
    <3>1. i - Len(q) \in 1..Len(r) /\ Len(q) + (i - Len(q)) = i
      BY <1>2, <2>2
    <3> QED
      BY <1>2, <1>4, <3>1 DEF LastOf
  <2> QED
    BY <2>1, <2>2
<1>5. ASSUME NoneOf(t, S) PROVE cur2
  <2>1. NoneOf(r, S)
    BY <1>3, <1>5 DEF NoneOf
  <2>2. \A j \in 1..Len(q) : j \in 1..Len(t)
    BY <1>2
  <2>3. NoneOf(q, S)
    BY <1>2, <1>5, <2>2 DEF NoneOf
  <2> QED
    BY <2>1, <2>3 DEF Consistent
<1> QED
  BY <1>1, <1>4, <1>5 DEF Consistent

LEMMA BeforeTail ==
    ASSUME NEW T, NEW q \in Seq(T), q # <<>>, NEW S, NEW G, NEW cur, NEW cur2,
           NEW i \in 1..Len(Tail(q)), Ahead(q, S, G, cur, i + 1),
           Head(q) \in S /\ Head(q) \in G => cur2, Head(q) \notin S /\ cur => cur2
    PROVE  Ahead(Tail(q), S, G, cur2, i)
<1>1. PICK t : t = Tail(q)
  OBVIOUS
<1>2. /\ Len(t) = Len(q) - 1 /\ Len(q) \in Nat /\ Len(q) > 0
      /\ Head(q) = q[1] /\ \A k \in 1..Len(t) : t[k] = q[k + 1]
  BY <1>1, TailOf
<1>3. \A k \in 1..(i - 1) : k \in 1..Len(t) /\ k + 1 \in 1..i /\ t[k] = q[k + 1]
  BY <1>1, <1>2
<1>4. \A j \in 1..i : j = 1 \/ (j - 1 \in 1..(i - 1) /\ t[j - 1] = q[j])
  <2>1. ASSUME NEW j \in 1..i, j # 1 PROVE j - 1 \in 1..(i - 1) /\ t[j - 1] = q[j]
    <3>1. j - 1 \in 1..(i - 1) /\ (j - 1) + 1 = j
      BY <2>1
    <3> QED
      BY <1>3, <3>1
  <2> QED
    BY <2>1
<1>5. (i + 1) - 1 = i /\ 1 \in 1..i
  BY <1>1
<1>6. /\ \A k \in 1..i : q[k] \in S /\ (\A j \in 1..i : j > k => q[j] \notin S) => q[k] \in G
      /\ (\A k \in 1..i : q[k] \notin S) => cur
  BY <1>5 DEF Ahead
<1>7. ASSUME NEW k \in 1..(i - 1), t[k] \in S, \A j \in 1..(i - 1) : j > k => t[j] \notin S
      PROVE  t[k] \in G
  <2>1. ASSUME NEW j \in 1..i, j > k + 1 PROVE q[j] \notin S
    <3>1. j - 1 \in 1..(i - 1) /\ t[j - 1] = q[j] /\ j - 1 > k
      BY <1>4, <2>1
    <3> QED
      BY <1>7, <3>1
  <2> QED
    BY <1>3, <1>6, <1>7, <2>1
<1>8. ASSUME \A k \in 1..(i - 1) : t[k] \notin S PROVE cur2
  <2>1. \A j \in 1..i : j = 1 \/ q[j] \notin S
    BY <1>4, <1>8
  <2>2. \A j \in 1..i : j > 1 => q[j] \notin S
    BY <2>1
  <2> QED
    BY <1>2, <1>5, <1>6, <2>1, <2>2
<1> QED
  BY <1>1, <1>7, <1>8 DEF Ahead

\* What comes later changes nothing of what was before.
LEMMA BeforeJoined ==
    ASSUME NEW T, NEW q \in Seq(T), NEW r \in Seq(T), NEW S, NEW G, NEW cur, NEW i \in 1..Len(q),
           Ahead(q, S, G, cur, i)
    PROVE  Ahead(q \o r, S, G, cur, i)
<1>1. PICK t : t = q \o r
  OBVIOUS
<1>2. \A k \in 1..(i - 1) : t[k] = q[k]
  <2>1. \A k \in 1..(i - 1) : k \in 1..Len(q)
    OBVIOUS
  <2> QED
    BY <1>1, <2>1, JoinedOf
<1> QED
  BY <1>1, <1>2 DEF Ahead

LEMMA BeforeNew ==
    ASSUME NEW T, NEW q \in Seq(T), NEW r \in Seq(T), NEW S, NEW G, NEW cur,
           Consistent(q, S, G, cur), NoneOf(r, S), NEW i \in 1..Len(q \o r), i \notin 1..Len(q)
    PROVE  Ahead(q \o r, S, G, cur, i)
<1>1. PICK t : t = q \o r
  OBVIOUS
<1>2. /\ Len(t) = Len(q) + Len(r) /\ Len(q) \in Nat /\ Len(r) \in Nat
      /\ \A k \in 1..Len(q) : t[k] = q[k]
      /\ \A k \in 1..Len(r) : t[Len(q) + k] = r[k]
  BY <1>1, JoinedOf
<1>3. ASSUME NEW k \in 1..(i - 1), k \notin 1..Len(q) PROVE t[k] \notin S
  <2>1. k - Len(q) \in 1..Len(r) /\ Len(q) + (k - Len(q)) = k
    BY <1>1, <1>2, <1>3
  <2> QED
    BY <1>2, <2>1 DEF NoneOf
<1>4. \A k \in 1..Len(q) : k \in 1..(i - 1)
  BY <1>1, <1>2
<1>5. ASSUME NEW k \in 1..(i - 1), t[k] \in S, \A j \in 1..(i - 1) : j > k => t[j] \notin S
      PROVE  t[k] \in G
  <2>1. k \in 1..Len(q)
    BY <1>3, <1>5
  <2>2. LastOf(q, S, k)
    BY <1>2, <1>4, <1>5, <2>1 DEF LastOf
  <2> QED
    BY <1>2, <2>1, <2>2 DEF Consistent
<1>6. ASSUME \A k \in 1..(i - 1) : t[k] \notin S PROVE cur
  <2>1. NoneOf(q, S)
    BY <1>2, <1>4, <1>6 DEF NoneOf
  <2> QED
    BY <2>1 DEF Consistent
<1> QED
  BY <1>1, <1>5, <1>6 DEF Ahead

(***************************************************************************)
(* The inductive invariant of Interfaces.  Of a link, and of an address of *)
(* a link, the last message in the queue says what the kernel has; if      *)
(* there is none, the server has it already, or the dump is still to come. *)
(***************************************************************************)
LinkMessages == [type : {"newlink", "dellink"}, wire : Wires, up : BOOLEAN]
AddrMessages == [type : {"newaddr", "deladdr"}, wire : Wires, addr : Addrs, dep : BOOLEAN]
Messages == LinkMessages \cup AddrMessages \cup {Done}

LinkOf(w) == {m \in LinkMessages : m.wire = w}
Newlinks == {m \in LinkMessages : m.type = "newlink"}
AddrOf(w, a) == {m \in LinkMessages : m.type = "dellink" /\ m.wire = w}
                  \cup {m \in AddrMessages : m.wire = w /\ m.addr = a}

LinkTrue(k) == {m \in LinkMessages : (m.type = "newlink" <=> k.there) /\ m.up = k.up}
AddrTrue(k, a) == {m \in Messages : m.type = "newaddr" <=> k.has[a] # "none"}

LinkAwaited(w) == listing = "iface" /\ w \in dump
AddrAwaited(w) == listing = "iface" \/ (listing = "addr" /\ w \in dump)

LinkNow(h, k, awaited) == (h.there = k.there /\ h.ok = k.up) \/ (awaited /\ ~h.there)
AddrNow(h, k, a, awaited) ==
    (a \in AddrNames(h) <=> k.has[a] # "none") \/ (awaited /\ a \notin AddrNames(h))

LinksKnown == \A w \in Wires :
    Consistent(queue, LinkOf(w), LinkTrue(kernel[w]), LinkNow(ifs[w], kernel[w], LinkAwaited(w)))
AddrsKnown == \A w \in Wires, a \in Addrs :
    Consistent(queue, AddrOf(w, a), AddrTrue(kernel[w], a), AddrNow(ifs[w], kernel[w], a, AddrAwaited(w)))

\* A new address finds its interface, except before the addresses are asked for.
NewsWelcome == \A i \in 1..Len(queue) : queue[i].type = "newaddr" =>
    \/ Ahead(queue, LinkOf(queue[i].wire), Newlinks, ifs[queue[i].wire].there, i)
    \/ listing = "iface" /\ (dump # {} \/ \E j \in 1..Len(queue) : j > i /\ queue[j] = Done)

\* One dump ends after the other.
DoneOnce ==
    /\ \A i, j \in 1..Len(queue) : queue[i] = Done /\ queue[j] = Done => i = j
    /\ (\E i \in 1..Len(queue) : queue[i] = Done) => dump = {} /\ listing # "done"

Links == [there : BOOLEAN, up : BOOLEAN, has : [Addrs -> Scopes]]
KernelOK == kernel \in [Wires -> Links] /\ \A w \in Wires :
    (kernel[w].up => kernel[w].there) /\ (~kernel[w].there => \A a \in Addrs : kernel[w].has[a] = "none")

\* An interface, looked at by itself.
AddressesOf == Seq([addr : Addrs, dep : BOOLEAN])
Ifs == [there : BOOLEAN, ok : BOOLEAN, joined : BOOLEAN, announcing : BOOLEAN,
        pub : SUBSET Addrs, local : Addrs \cup {"none"}, addrs : AddressesOf]
OneEach(q) == \A i, j \in 1..Len(q) : q[i].addr = q[j].addr => i = j
Best(h) == h.local \in AddrNames(h) /\ (AddrNames(h) \cap GlobalAddrs # {} => h.local \in GlobalAddrs)
Offered(h, complete) ==
    LET best == {x \in ToSet(h.addrs) : Prime(x)}
    IN  IF ~complete \/ ~h.ok THEN {}
        ELSE IF best = {} THEN AddrNames(h) ELSE {x.addr : x \in best}

\* What holds between two steps of a handler, and what holds after them.
Half(h, complete) ==
    /\ h \in Ifs /\ OneEach(h.addrs)
    /\ (h.joined => h.announcing) /\ (h.announcing => complete)
Whole(h, complete) ==
    /\ Half(h, complete) /\ (~h.there => h = NoIf)
    /\ (h.joined => Best(h)) /\ (h.announcing => Relevant(h))
    /\ h.pub = Offered(h, complete)

IfsOK == ifs \in [Wires -> Ifs] /\ \A w \in Wires : Whole(ifs[w], listing = "done")

\* Only the kernel's refusal keeps a relevant interface out.
JoinedUnlessRefused ==
    \A w \in Wires : listing = "done" /\ Relevant(ifs[w]) /\ ~refused => ifs[w].joined

IfInv ==
    /\ listing \in {"iface", "addr", "done"} /\ dump \subseteq Wires /\ queue \in Seq(Messages)
    /\ KernelOK /\ IfsOK /\ JoinedUnlessRefused
    /\ DoneOnce /\ NewsWelcome /\ LinksKnown /\ AddrsKnown

LEMMA NamesAre ==
    ASSUME NEW h, NEW a
    PROVE  a \in AddrNames(h) <=> \E i \in 1..Len(h.addrs) : h.addrs[i].addr = a
BY DEF AddrNames

LEMMA ElementOf == ASSUME NEW T, NEW q \in Seq(T), NEW i \in 1..Len(q) PROVE q[i] \in T
OBVIOUS

LEMMA AddressTypes ==
    ASSUME NEW h \in Ifs, NEW i \in 1..Len(h.addrs)
    PROVE  h.addrs[i] \in [addr : Addrs, dep : BOOLEAN] /\ h.addrs[i].addr \in Addrs
<1>1. h.addrs \in AddressesOf
  BY DEF Ifs
<1>2. h.addrs[i] \in [addr : Addrs, dep : BOOLEAN]
  BY <1>1, ElementOf DEF AddressesOf
<1> QED
  BY <1>2

LEMMA AddressesAre ==
    ASSUME NEW h \in Ifs, NEW x
    PROVE  x \in ToSet(h.addrs) <=> \E i \in 1..Len(h.addrs) : h.addrs[i] = x
<1>1. h.addrs \in AddressesOf
  BY DEF Ifs
<1>2. DOMAIN h.addrs = 1..Len(h.addrs)
  BY <1>1 DEF AddressesOf
<1> QED
  BY <1>2 DEF ToSet

LEMMA NoIfFacts == NoIf \in Ifs /\ AddrNames(NoIf) = {} /\ ~Relevant(NoIf) /\ \A c \in BOOLEAN : Whole(NoIf, c)
<1>1. NoIf.addrs = <<>> /\ Len(<<>>) = 0 /\ 1..0 = {} /\ ~NoIf.ok /\ NoIf.pub = {} /\ ~NoIf.joined /\ ~NoIf.announcing
  BY DEF NoIf
<1>2. <<>> \in AddressesOf
  BY DEF AddressesOf
<1>3. NoIf \in Ifs
  BY <1>2 DEF NoIf, Ifs
<1>4. AddrNames(NoIf) = {}
  BY <1>1 DEF AddrNames
<1>5. ~Relevant(NoIf)
  BY <1>1 DEF Relevant
<1>6. ASSUME NEW c \in BOOLEAN PROVE Whole(NoIf, c)
  <2>1. Offered(NoIf, c) = {}
    BY <1>1 DEF Offered
  <2>2. OneEach(NoIf.addrs)
    BY <1>1 DEF OneEach
  <2> QED
    BY <1>1, <1>3, <2>1, <2>2 DEF Whole, Half
<1> QED
  BY <1>3, <1>4, <1>5, <1>6

LEMMA OneAddress ==
    ASSUME NEW h \in Ifs, OneEach(h.addrs), NEW x \in ToSet(h.addrs), NEW y \in ToSet(h.addrs), x.addr = y.addr
    PROVE  x = y
<1>1. PICK i \in 1..Len(h.addrs) : h.addrs[i] = x
  BY AddressesAre
<1>2. PICK j \in 1..Len(h.addrs) : h.addrs[j] = y
  BY AddressesAre
<1> QED
  BY <1>1, <1>2 DEF OneEach

LEMMA WhoIsRelevant ==
    ASSUME NEW h \in Ifs, OneEach(h.addrs), NEW x \in ToSet(h.addrs)
    PROVE  AddressRelevant(h, x) <=> Prime(x) \/ \A y \in ToSet(h.addrs) : ~Prime(y)
BY OneAddress DEF AddressRelevant

LEMMA RelevantFacts ==
    ASSUME NEW h \in Ifs, OneEach(h.addrs)
    PROVE  Relevant(h) <=> h.ok /\ h.addrs # <<>>
<1>1. h.addrs \in AddressesOf
  BY DEF Ifs
<1>2. h.addrs # <<>> <=> \E x : x \in ToSet(h.addrs)
  <2>1. h.addrs = <<>> => Len(h.addrs) = 0
    OBVIOUS
  <2>2. h.addrs # <<>> => 1 \in 1..Len(h.addrs)
    BY <1>1 DEF AddressesOf
  <2>3. ASSUME h.addrs = <<>>, NEW x PROVE x \notin ToSet(h.addrs)
    <3>1. 1..Len(h.addrs) = {}
      BY <2>1, <2>3
    <3> QED
      BY <3>1, AddressesAre
  <2>4. ASSUME h.addrs # <<>> PROVE h.addrs[1] \in ToSet(h.addrs)
    BY <2>2, <2>4, AddressesAre
  <2> QED
    BY <2>3, <2>4
<1>3. (\E x : x \in ToSet(h.addrs)) <=> \E x \in ToSet(h.addrs) : AddressRelevant(h, x)
  BY WhoIsRelevant
<1> QED
  BY <1>2, <1>3 DEF Relevant

\* What is published when every address has been looked at again.
LEMMA PublishedIs ==
    ASSUME NEW h \in Ifs, OneEach(h.addrs), NEW c \in BOOLEAN, NEW x, x = UpdateRrs(h, c)
    PROVE  x.pub = Offered(h, c)
<1> DEFINE best == {y \in ToSet(h.addrs) : Prime(y)}
           shown == {y \in ToSet(h.addrs) : c /\ Relevant(h) /\ AddressRelevant(h, y)}
<1>1. x.pub = {y.addr : y \in shown}
  BY DEF UpdateRrs, Ifs
<1>2. CASE ~c \/ ~h.ok
  <2>1. shown = {}
    BY <1>2 DEF Relevant
  <2>2. Offered(h, c) = {}
    BY <1>2 DEF Offered
  <2> QED
    BY <1>1, <2>1, <2>2
<1>3. CASE c /\ h.ok /\ best # {}
  <2>1. shown = best
    BY <1>3, WhoIsRelevant DEF Relevant
  <2> QED
    BY <1>1, <1>3, <2>1 DEF Offered
<1>4. CASE c /\ h.ok /\ best = {}
  <2>1. \A y \in ToSet(h.addrs) : AddressRelevant(h, y)
    BY <1>4, WhoIsRelevant
  <2>2. shown = ToSet(h.addrs)
    BY <1>4, <2>1 DEF Relevant
  <2>3. \A a : a \in x.pub <=> \E y \in ToSet(h.addrs) : y.addr = a
    BY <1>1, <2>2
  <2>4. \A a : a \in x.pub <=> a \in AddrNames(h)
    <3> TAKE a
    <3> PICK S : S = ToSet(h.addrs)
      OBVIOUS
    <3>m. \A y : y \in S <=> \E i \in 1..Len(h.addrs) : h.addrs[i] = y
      BY AddressesAre
    <3>1. (\E y \in S : y.addr = a) <=> \E i \in 1..Len(h.addrs) : h.addrs[i].addr = a
      BY <3>m
    <3> QED
      BY <2>3, <3>1, NamesAre
  <2> QED
    BY <1>4, <2>4 DEF Offered
<1> QED
  BY <1>2, <1>3, <1>4

LEMMA OfferedBounds == ASSUME NEW h \in Ifs, NEW c PROVE Offered(h, c) \subseteq Addrs
<1>1. h.addrs \in AddressesOf
  BY DEF Ifs
<1>2. \A i \in 1..Len(h.addrs) : h.addrs[i].addr \in Addrs
  BY AddressTypes
<1>3. AddrNames(h) \subseteq Addrs
  BY <1>2, NamesAre
<1>4. \A x \in ToSet(h.addrs) : x.addr \in Addrs
  BY <1>2, AddressesAre
<1> QED
  BY <1>3, <1>4 DEF Offered

-----------------------------------------------------------------------------
\* Two interfaces with the same addresses.
Alike(x, h) == x \in Ifs /\ x.there = h.there /\ x.ok = h.ok /\ x.addrs = h.addrs

LEMMA AlikeFacts ==
    ASSUME NEW h \in Ifs, NEW x, Alike(x, h)
    PROVE  /\ AddrNames(x) = AddrNames(h)
           /\ OneEach(h.addrs) => OneEach(x.addrs)
           /\ \A c : Offered(x, c) = Offered(h, c)
           /\ OneEach(h.addrs) => (Relevant(x) <=> Relevant(h))
<1>1. x.addrs = h.addrs /\ x.ok = h.ok /\ x \in Ifs
  BY DEF Alike
<1>2. AddrNames(x) = AddrNames(h)
  BY <1>1 DEF AddrNames
<1> QED
  BY <1>1, <1>2, RelevantFacts DEF Offered

LEMMA JoinFacts ==
    ASSUME NEW h \in Ifs, NEW x \in Join(h)
    PROVE  /\ Alike(x, h) /\ x.announcing = h.announcing /\ (h.joined => x.joined)
           /\ (~h.joined /\ x.joined => Best(x))
<1> DEFINE global == {i \in 1..Len(h.addrs) : h.addrs[i].addr \in GlobalAddrs}
<1>1. PICK p : p = IF global = {} THEN 1 ELSE CHOOSE i \in global : \A j \in global : i <= j
  OBVIOUS
<1>2. CASE h.joined \/ h.addrs = <<>>
  <2>1. x = h
    BY <1>2 DEF Join
  <2> QED
    BY <1>2, <2>1 DEF Alike, Join, Ifs
<1>3. CASE ~(h.joined \/ h.addrs = <<>>)
  <2>1. PICK j \in BOOLEAN : x = [h EXCEPT !.joined = j, !.local = h.addrs[p].addr]
    BY <1>1, <1>3 DEF Join
  <2>2. h.addrs \in AddressesOf
    BY DEF Ifs
  <2>3. Len(h.addrs) \in Nat /\ 1 \in 1..Len(h.addrs)
    BY <1>3, <2>2 DEF AddressesOf
  <2>4. global # {} => p \in global
    <3>1. global \subseteq Nat
      OBVIOUS
    <3> QED
      BY <1>1, <3>1, LeastNatural
  <2>5. p \in 1..Len(h.addrs)
    BY <1>1, <2>3, <2>4
  <2>6. h.addrs[p].addr \in Addrs /\ h.addrs[p].addr \in AddrNames(h)
    BY <2>5, NamesAre, AddressTypes
  <2>7. PICK a \in Addrs : a = h.addrs[p].addr
    BY <2>6
  <2>8. x = [h EXCEPT !.joined = j, !.local = a]
    BY <2>1, <2>7
  <2>9. Alike(x, h) /\ x.announcing = h.announcing /\ x.local = a
    BY <2>8 DEF Alike, Ifs
  <2>10. AddrNames(x) = AddrNames(h)
    BY <2>9 DEF Alike, AddrNames
  <2>11. ASSUME AddrNames(h) \cap GlobalAddrs # {} PROVE a \in GlobalAddrs
    <3>1. PICK b \in AddrNames(h) : b \in GlobalAddrs
      BY <2>11
    <3>2. PICK i \in 1..Len(h.addrs) : h.addrs[i].addr = b
      BY NamesAre
    <3>3. i \in global
      BY <3>1, <3>2
    <3> QED
      BY <2>4, <2>7, <3>3
  <2> QED
    BY <1>3, <2>6, <2>7, <2>9, <2>10, <2>11 DEF Best
<1> QED
  BY <1>2, <1>3

LEMMA LeaveFacts ==
    ASSUME NEW h \in Ifs, NEW x, x = Leave(h)
    PROVE  Alike(x, h) /\ x.announcing = h.announcing /\ ~x.joined
BY DEF Leave, Alike, Ifs

LEMMA RejoinFacts ==
    ASSUME NEW h \in Ifs, NEW x \in Rejoin(h)
    PROVE  Alike(x, h) /\ x.announcing = h.announcing /\ (x.joined => h.joined /\ Best(x))
<1>1. CASE ~h.joined \/ (h.local \in AddrNames(h) /\ (h.local \in GlobalAddrs \/ AddrNames(h) \cap GlobalAddrs = {}))
  <2>1. x = h
    BY <1>1 DEF Rejoin
  <2> QED
    BY <1>1, <2>1 DEF Alike, Best
<1>2. CASE ~(~h.joined \/ (h.local \in AddrNames(h) /\ (h.local \in GlobalAddrs \/ AddrNames(h) \cap GlobalAddrs = {})))
  <2>1. PICK y : y = Leave(h)
    OBVIOUS
  <2>2. x \in Join(y)
    BY <1>2, <2>1 DEF Rejoin
  <2>3. Alike(y, h) /\ y.announcing = h.announcing /\ ~y.joined /\ y \in Ifs
    BY <2>1, LeaveFacts DEF Alike
  <2>4. Alike(x, y) /\ x.announcing = y.announcing /\ (x.joined => Best(x))
    BY <2>2, <2>3, JoinFacts
  <2> QED
    BY <1>2, <2>3, <2>4 DEF Alike
<1> QED
  BY <1>1, <1>2

LEMMA CheckFacts ==
    ASSUME NEW c \in BOOLEAN, NEW h, Half(h, c), NEW x \in CheckRelevant(h, c)
    PROVE  /\ Alike(x, h) /\ Half(x, c)
           /\ (x.joined => Best(x)) /\ (x.announcing => Relevant(x))
<1>1. h \in Ifs /\ OneEach(h.addrs) /\ (h.joined => h.announcing) /\ (h.announcing => c)
  BY DEF Half
<1>2. CASE c /\ Relevant(h) /\ ~h.announcing
  <2>1. PICK y \in Join(h) : x = [y EXCEPT !.announcing = y.joined]
    BY <1>2 DEF CheckRelevant
  <2>2. Alike(y, h) /\ (y.joined => Best(y)) /\ y \in Ifs
    BY <1>1, <1>2, JoinFacts DEF Alike
  <2>3. /\ x \in Ifs /\ x.there = y.there /\ x.ok = y.ok /\ x.addrs = y.addrs
        /\ x.joined = y.joined /\ x.announcing = y.joined /\ x.local = y.local
    BY <2>1, <2>2 DEF Ifs
  <2>4. Alike(x, h) /\ Alike(x, y)
    BY <2>2, <2>3 DEF Alike
  <2>5. Best(y) => Best(x)
    <3>1. AddrNames(x) = AddrNames(y)
      BY <2>2, <2>4, AlikeFacts
    <3> QED
      BY <2>3, <3>1 DEF Best
  <2> QED
    BY <1>1, <1>2, <2>2, <2>3, <2>4, <2>5, AlikeFacts DEF Half
<1>3. CASE ~(c /\ Relevant(h) /\ ~h.announcing) /\ ~Relevant(h) /\ h.announcing
  <2>1. PICK y : y = Leave(h)
    OBVIOUS
  <2>2. x = [y EXCEPT !.announcing = FALSE]
    BY <1>3, <2>1 DEF CheckRelevant
  <2>3. Alike(y, h) /\ ~y.joined /\ y \in Ifs
    BY <1>1, <2>1, LeaveFacts DEF Alike
  <2>4. /\ x \in Ifs /\ x.there = y.there /\ x.ok = y.ok /\ x.addrs = y.addrs
        /\ ~x.joined /\ ~x.announcing
    BY <2>2, <2>3 DEF Ifs
  <2>5. Alike(x, h)
    BY <2>3, <2>4 DEF Alike
  <2> QED
    BY <1>1, <2>4, <2>5, AlikeFacts DEF Half
<1>4. CASE ~(c /\ Relevant(h) /\ ~h.announcing) /\ ~(~Relevant(h) /\ h.announcing)
  <2>1. x \in Rejoin(h)
    BY <1>4 DEF CheckRelevant
  <2>2. Alike(x, h) /\ x.announcing = h.announcing /\ (x.joined => h.joined /\ Best(x))
    BY <1>1, <2>1, RejoinFacts
  <2> QED
    BY <1>1, <1>4, <2>2, AlikeFacts DEF Half, Alike
<1> QED
  BY <1>2, <1>3, <1>4

\* A handler ends by looking at the interface and all of its addresses again.
LEMMA SettleFacts ==
    ASSUME NEW c \in BOOLEAN, NEW h, Half(h, c), h.there, NEW x \in Settle(h, c)
    PROVE  Alike(x, h) /\ Whole(x, c)
<1>1. PICK y \in CheckRelevant(h, c) : x = UpdateRrs(y, c)
  BY DEF Settle
<1>2. /\ Alike(y, h) /\ Half(y, c) /\ (y.joined => Best(y)) /\ (y.announcing => Relevant(y))
  BY CheckFacts
<1>3. y \in Ifs /\ OneEach(y.addrs) /\ h \in Ifs /\ (y.joined => y.announcing) /\ (y.announcing => c)
  BY <1>2 DEF Half
<1>4. x.pub = Offered(y, c) /\ Offered(y, c) \subseteq Addrs
  BY <1>1, <1>3, PublishedIs, OfferedBounds
<1>5. PICK P \in SUBSET Addrs : P = Offered(y, c)
  BY <1>4
<1>6. x.pub = P
  BY <1>4, <1>5
<1>7. /\ x \in Ifs /\ x.there = y.there /\ x.ok = y.ok /\ x.addrs = y.addrs
      /\ x.joined = y.joined /\ x.announcing = y.announcing /\ x.local = y.local
  <2>1. PICK Q : x = [y EXCEPT !.pub = Q]
    BY <1>1 DEF UpdateRrs
  <2>2. Q = P
    BY <1>3, <1>6, <2>1 DEF Ifs
  <2> QED
    BY <1>3, <2>1, <2>2 DEF Ifs
<1>8. Alike(x, y) /\ Alike(x, h)
  BY <1>2, <1>7 DEF Alike
<1>9. AddrNames(x) = AddrNames(y) /\ Offered(x, c) = Offered(y, c) /\ (Relevant(x) <=> Relevant(y)) /\ OneEach(x.addrs)
  BY <1>3, <1>8, AlikeFacts
<1>10. x.joined => Best(x)
  BY <1>2, <1>7, <1>9 DEF Best
<1>11. x.there
  BY <1>8 DEF Alike
<1> QED
  BY <1>2, <1>3, <1>4, <1>7, <1>8, <1>9, <1>10, <1>11 DEF Whole, Half

-----------------------------------------------------------------------------
LEMMA RemovedAt ==
    ASSUME NEW T, NEW q \in Seq(T), NEW p \in 1..Len(q)
    PROVE  \E z \in Seq(T) :
              /\ z = RemoveAt(q, p) /\ Len(z) = Len(q) - 1
              /\ \A k \in 1..Len(z) : z[k] = IF k < p THEN q[k] ELSE q[k + 1]
<1>1. Len(q) \in Nat /\ p \in Nat
  OBVIOUS
<1>2. PICK u : u = SubSeq(q, 1, p - 1)
  OBVIOUS
<1>3. PICK v : v = SubSeq(q, p + 1, Len(q))
  OBVIOUS
<1>4. u \in Seq(T) /\ Len(u) = p - 1 /\ \A k \in 1..(p - 1) : u[k] = q[k]
  BY <1>2, SMTT(30)
<1>5. v \in Seq(T) /\ Len(v) = Len(q) - p /\ \A k \in 1..(Len(q) - p) : v[k] = q[p + k]
  <2>1. \A k \in 1..(Len(q) - p) : p + k \in 1..Len(q)
    BY <1>1
  <2>2. v \in Seq(T) /\ Len(v) = Len(q) - p
    BY <1>1, <1>3
  <2>3. ASSUME NEW k \in 1..(Len(q) - p) PROVE v[k] = q[p + k]
    <3>1. v[k] = q[(p + 1) + k - 1] /\ (p + 1) + k - 1 = p + k
      BY <1>1, <1>3, <2>1
    <3> QED
      BY <3>1
  <2> QED
    BY <2>2, <2>3
<1>6. PICK z : z = u \o v
  OBVIOUS
<1>7. /\ z \in Seq(T) /\ Len(z) = Len(q) - 1
      /\ \A k \in 1..Len(u) : z[k] = u[k]
      /\ \A k \in 1..Len(v) : z[Len(u) + k] = v[k]
  <2>1. u \in Seq(T) /\ v \in Seq(T)
    BY <1>4, <1>5
  <2>2. /\ z \in Seq(T) /\ Len(z) = Len(u) + Len(v)
        /\ \A k \in 1..Len(u) : z[k] = u[k]
        /\ \A k \in 1..Len(v) : z[Len(u) + k] = v[k]
    BY <1>6, <2>1, JoinedOf
  <2>3. (p - 1) + (Len(q) - p) = Len(q) - 1
    BY <1>1
  <2> QED
    BY <1>4, <1>5, <2>2, <2>3
<1>8. ASSUME NEW k \in 1..Len(z) PROVE z[k] = IF k < p THEN q[k] ELSE q[k + 1]
  <2>1. CASE k < p
    BY <1>4, <1>7, <2>1
  <2>2. CASE ~(k < p)
    <3>1. k - (p - 1) \in 1..Len(v) /\ Len(u) + (k - (p - 1)) = k /\ p + (k - (p - 1)) = k + 1
      BY <1>4, <1>5, <1>7, <2>2
    <3>2. z[k] = v[k - (p - 1)] /\ v[k - (p - 1)] = q[k + 1]
      BY <1>5, <1>7, <3>1
    <3> QED
      BY <2>2, <3>2
  <2> QED
    BY <2>1, <2>2
<1>9. z = RemoveAt(q, p)
  BY <1>2, <1>3, <1>6 DEF RemoveAt
<1> QED
  BY <1>7, <1>8, <1>9

\* Where an address is found.
LEMMA PlaceFacts ==
    ASSUME NEW h, NEW a
    PROVE  /\ a \in AddrNames(h) => AddressPlace(h, a) \in 1..Len(h.addrs) /\ h.addrs[AddressPlace(h, a)].addr = a
           /\ a \notin AddrNames(h) => AddressPlace(h, a) = 0
BY NamesAre DEF AddressPlace

\* The addresses of h become q.
Readdressed(x, h, q, P) == x = [h EXCEPT !.addrs = q, !.pub = P]

LEMMA AddressesChanged ==
    ASSUME NEW c, NEW h, Half(h, c), NEW q \in AddressesOf, OneEach(q), NEW P \in SUBSET Addrs,
           NEW x, Readdressed(x, h, q, P)
    PROVE  /\ Half(x, c) /\ x.there = h.there /\ x.ok = h.ok /\ x.addrs = q
BY DEF Half, Ifs, Readdressed

LEMMA NewsFacts ==
    ASSUME NEW c, NEW h, Half(h, c), NEW m \in AddrMessages, NEW x, x = AddressNews(h, m)
    PROVE  /\ Half(x, c) /\ x.there = h.there /\ x.ok = h.ok
           /\ \A a : a \in AddrNames(x) <=> a \in AddrNames(h) \/ a = m.addr
<1>1. h \in Ifs /\ OneEach(h.addrs) /\ m.addr \in Addrs /\ m.dep \in BOOLEAN
  BY DEF Half, AddrMessages
<1>2. PICK q : q = h.addrs
  OBVIOUS
<1>3. q \in AddressesOf /\ q \in Seq([addr : Addrs, dep : BOOLEAN])
  BY <1>1, <1>2 DEF Ifs, AddressesOf
<1>4. PICK y \in [addr : Addrs, dep : BOOLEAN] : y = [addr |-> m.addr, dep |-> m.dep]
  BY <1>1
<1>5. PICK i : i = AddressPlace(h, m.addr)
  OBVIOUS
<1>6. PICK z : z = IF i = 0 THEN <<y>> \o q ELSE [q EXCEPT ![i] = y]
  OBVIOUS
<1>7. x = [h EXCEPT !.addrs = z]
  BY <1>1, <1>2, <1>4, <1>5, <1>6 DEF AddressNews, Ifs
<1>8. y.addr = m.addr
  BY <1>4
<1>9. Len(q) \in Nat /\ \A j, k \in 1..Len(q) : q[j].addr = q[k].addr => j = k
  BY <1>1, <1>2, <1>3 DEF OneEach
<1>10. \A a : a \in AddrNames(h) <=> \E j \in 1..Len(q) : q[j].addr = a
  BY <1>2, NamesAre
<1>11. /\ z \in Seq([addr : Addrs, dep : BOOLEAN]) /\ OneEach(z)
       /\ \A a : (\E j \in 1..Len(z) : z[j].addr = a) <=> a \in AddrNames(h) \/ a = m.addr
  <2>1. CASE m.addr \notin AddrNames(h)
    <3>1. i = 0
      BY <1>5, <2>1, PlaceFacts
    <3>2. z = <<y>> \o q /\ <<y>> \in Seq([addr : Addrs, dep : BOOLEAN]) /\ Len(<<y>>) = 1 /\ <<y>>[1] = y
      BY <1>6, <3>1
    <3>3. /\ z \in Seq([addr : Addrs, dep : BOOLEAN]) /\ Len(z) = 1 + Len(q)
          /\ z[1] = y /\ \A j \in 1..Len(q) : z[1 + j] = q[j]
      BY <1>3, <3>2, JoinedOf
    <3>4. \A j \in 1..Len(z) : j = 1 \/ (j - 1 \in 1..Len(q) /\ z[j] = q[j - 1])
      <4>1. ASSUME NEW j \in 1..Len(z), j # 1 PROVE j - 1 \in 1..Len(q) /\ z[j] = q[j - 1]
        <5>1. j - 1 \in 1..Len(q) /\ 1 + (j - 1) = j
          BY <1>9, <3>3, <4>1
        <5> QED
          BY <3>3, <5>1
      <4> QED
        BY <4>1
    <3>5. \A j \in 1..Len(q) : q[j].addr # m.addr
      BY <1>10, <2>1
    <3>6. ASSUME NEW j \in 1..Len(z), NEW k \in 1..Len(z), z[j].addr = z[k].addr PROVE j = k
      <4>1. CASE j = 1 \/ k = 1
        BY <1>8, <3>3, <3>4, <3>5, <3>6, <4>1
      <4>2. CASE j # 1 /\ k # 1
        <5>1. j - 1 = k - 1
          BY <1>9, <3>4, <3>6, <4>2
        <5> QED
          BY <5>1
      <4> QED
        BY <4>1, <4>2
    <3>7. ASSUME NEW a PROVE (\E j \in 1..Len(z) : z[j].addr = a) <=> a \in AddrNames(h) \/ a = m.addr
      <4>1. \A j \in 1..Len(q) : 1 + j \in 1..Len(z) /\ z[1 + j] = q[j]
        BY <1>9, <3>3
      <4>2. 1 \in 1..Len(z)
        BY <1>9, <3>3
      <4> QED
        BY <1>8, <1>10, <3>3, <3>4, <4>1, <4>2
    <3> QED
      BY <3>3, <3>6, <3>7 DEF OneEach
  <2>2. CASE m.addr \in AddrNames(h)
    <3>1. i \in 1..Len(q) /\ q[i].addr = m.addr /\ i # 0
      BY <1>2, <1>5, <1>9, <2>2, PlaceFacts
    <3>2. z = [q EXCEPT ![i] = y]
      BY <1>6, <3>1
    <3>3. /\ z \in Seq([addr : Addrs, dep : BOOLEAN]) /\ Len(z) = Len(q)
          /\ \A j \in 1..Len(q) : z[j] = IF j = i THEN y ELSE q[j]
      BY <1>3, <3>1, <3>2
    <3>4. \A j \in 1..Len(q) : z[j].addr = q[j].addr
      BY <1>8, <3>1, <3>3
    <3> QED
      BY <1>9, <1>10, <2>2, <3>3, <3>4 DEF OneEach
  <2> QED
    BY <2>1, <2>2
<1>12. PICK P \in SUBSET Addrs : P = h.pub
  BY <1>1 DEF Ifs
<1>13. z \in AddressesOf /\ Readdressed(x, h, z, P)
  BY <1>1, <1>7, <1>11, <1>12 DEF AddressesOf, Ifs, Readdressed
<1>14. Half(x, c) /\ x.there = h.there /\ x.ok = h.ok /\ x.addrs = z
  BY <1>11, <1>13, AddressesChanged
<1> QED
  <2>1. \A a : a \in AddrNames(x) <=> \E j \in 1..Len(z) : z[j].addr = a
    BY <1>14, NamesAre
  <2> QED
    BY <1>11, <1>14, <2>1

LEMMA GoneFacts ==
    ASSUME NEW c, NEW h, Half(h, c), NEW a \in AddrNames(h), NEW x \in AddressGone(h, a)
    PROVE  /\ Half(x, c) /\ x.there = h.there /\ x.ok = h.ok
           /\ \A b : b \in AddrNames(x) <=> b \in AddrNames(h) /\ b # a
<1>1. h \in Ifs /\ OneEach(h.addrs) /\ h.pub \subseteq Addrs
  BY DEF Half, Ifs
<1>2. PICK q : q = h.addrs
  OBVIOUS
<1>3. q \in Seq([addr : Addrs, dep : BOOLEAN])
  BY <1>1, <1>2 DEF Ifs, AddressesOf
<1>4. PICK p \in 1..Len(q) : p = AddressPlace(h, a) /\ q[p].addr = a
  BY <1>2, PlaceFacts
<1>5. PICK z \in Seq([addr : Addrs, dep : BOOLEAN]) :
              /\ z = RemoveAt(q, p) /\ Len(z) = Len(q) - 1
              /\ \A k \in 1..Len(z) : z[k] = IF k < p THEN q[k] ELSE q[k + 1]
  BY <1>3, RemovedAt
<1>6. PICK P \in SUBSET Addrs : P = h.pub \ {a}
  BY <1>1
<1>7. PICK y : y = [h EXCEPT !.addrs = z, !.pub = P]
  OBVIOUS
<1>8. x \in Rejoin(y)
  BY <1>1, <1>2, <1>4, <1>5, <1>6, <1>7 DEF AddressGone, Ifs
<1>9. Len(q) \in Nat /\ \A j, k \in 1..Len(q) : q[j].addr = q[k].addr => j = k
  BY <1>1, <1>2, <1>3 DEF OneEach
<1>10. PICK at : at = [k \in 1..Len(z) |-> IF k < p THEN k ELSE k + 1]
  OBVIOUS
<1>11. \A k \in 1..Len(z) : at[k] \in 1..Len(q) /\ at[k] # p /\ z[k] = q[at[k]]
  BY <1>5, <1>9, <1>10
<1>12. \A j, k \in 1..Len(z) : at[j] = at[k] => j = k
  BY <1>5, <1>9, <1>10
<1>13. OneEach(z)
  BY <1>9, <1>11, <1>12 DEF OneEach
<1>14. \A j \in 1..Len(q) : j # p => \E k \in 1..Len(z) : at[k] = j
  <2>1. ASSUME NEW j \in 1..Len(q), j # p PROVE \E k \in 1..Len(z) : at[k] = j
    <3>1. CASE j < p
      <4>1. j \in 1..Len(z) /\ at[j] = j
        BY <1>5, <1>9, <1>10, <3>1
      <4> QED
        BY <4>1
    <3>2. CASE ~(j < p)
      <4>1. j - 1 \in 1..Len(z) /\ ~(j - 1 < p) /\ (j - 1) + 1 = j
        BY <1>5, <1>9, <2>1, <3>2
      <4>2. at[j - 1] = j
        BY <1>10, <4>1
      <4> QED
        BY <4>1, <4>2
    <3> QED
      BY <3>1, <3>2
  <2> QED
    BY <2>1
<1>15. ASSUME NEW b PROVE (\E k \in 1..Len(z) : z[k].addr = b) <=> b \in AddrNames(h) /\ b # a
  <2>1. b \in AddrNames(h) <=> \E j \in 1..Len(q) : q[j].addr = b
    BY <1>2, NamesAre
  <2>2. ASSUME NEW k \in 1..Len(z), z[k].addr = b PROVE b \in AddrNames(h) /\ b # a
    BY <1>4, <1>9, <1>11, <2>1, <2>2
  <2>3. ASSUME b \in AddrNames(h), b # a PROVE \E k \in 1..Len(z) : z[k].addr = b
    <3>1. PICK j \in 1..Len(q) : q[j].addr = b
      BY <2>1, <2>3
    <3>2. PICK k \in 1..Len(z) : at[k] = j
      BY <1>4, <1>14, <2>3, <3>1
    <3> QED
      BY <1>11, <3>1, <3>2
  <2> QED
    BY <2>2, <2>3
<1>16. Half(y, c) /\ y.there = h.there /\ y.ok = h.ok /\ y.addrs = z /\ z \in AddressesOf
  <2>1. Readdressed(y, h, z, P) /\ z \in AddressesOf
    BY <1>5, <1>7 DEF AddressesOf, Readdressed
  <2> QED
    BY <1>13, <2>1, AddressesChanged
<1>17. \A b : b \in AddrNames(y) <=> b \in AddrNames(h) /\ b # a
  BY <1>15, <1>16, NamesAre
<1>18. y \in Ifs /\ OneEach(y.addrs) /\ (y.joined => y.announcing) /\ (y.announcing => c)
  BY <1>16 DEF Half
<1>19. Alike(x, y) /\ x.announcing = y.announcing /\ (x.joined => y.joined)
  BY <1>8, <1>18, RejoinFacts
<1>20. AddrNames(x) = AddrNames(y) /\ OneEach(x.addrs)
  BY <1>18, <1>19, AlikeFacts
<1> QED
  BY <1>16, <1>17, <1>18, <1>19, <1>20 DEF Half, Alike

\* What a message makes of the interface it is about.
LEMMA HandleFacts ==
    ASSUME NEW c \in BOOLEAN, NEW h, Whole(h, c), NEW m \in LinkMessages \cup AddrMessages, NEW x \in Handle(h, m, c)
    PROVE  /\ Whole(x, c)
           /\ m.type = "newlink" => x.there /\ x.ok = m.up /\ AddrNames(x) = AddrNames(h)
           /\ m.type = "dellink" => ~x.there /\ ~x.ok /\ AddrNames(x) = {}
           /\ m.type \in {"newaddr", "deladdr"} => x.there = h.there /\ x.ok = h.ok
           /\ m.type = "newaddr" =>
                 \A a : a \in AddrNames(x) <=> a \in AddrNames(h) \/ (h.there /\ a = m.addr)
           /\ m.type = "deladdr" => \A a : a \in AddrNames(x) <=> a \in AddrNames(h) /\ a # m.addr
<1>1. Half(h, c) /\ (~h.there => h = NoIf) /\ h \in Ifs /\ (h = NoIf \/ h.there)
  BY DEF Whole, Half
<1>2. AddrNames(NoIf) = {} /\ ~NoIf.there /\ ~NoIf.ok /\ Whole(NoIf, c)
  BY NoIfFacts DEF NoIf
<1>3. \/ m \in LinkMessages /\ m.type \in {"newlink", "dellink"} /\ m.up \in BOOLEAN
      \/ m \in AddrMessages /\ m.type \in {"newaddr", "deladdr"}
  BY DEF LinkMessages, AddrMessages
<1>4. CASE m.type = "newlink"
  <2>1. PICK y : y = [h EXCEPT !.there = TRUE, !.ok = m.up]
    OBVIOUS
  <2>2. x \in Settle(y, c)
    BY <1>4, <2>1 DEF Handle
  <2>3. /\ y \in Ifs /\ y.there /\ y.ok = m.up /\ y.addrs = h.addrs
        /\ y.joined = h.joined /\ y.announcing = h.announcing
    BY <1>1, <1>3, <1>4, <2>1 DEF Ifs
  <2>4. Half(y, c) /\ AddrNames(y) = AddrNames(h)
    BY <1>1, <2>3 DEF Half, AddrNames
  <2>5. Alike(x, y) /\ Whole(x, c) /\ AddrNames(x) = AddrNames(y)
    BY <2>2, <2>3, <2>4, SettleFacts, AlikeFacts
  <2> QED
    BY <1>4, <2>3, <2>4, <2>5 DEF Alike
<1>5. CASE m.type # "newlink" /\ ~h.there
  <2>1. x = h /\ x = NoIf
    BY <1>1, <1>5 DEF Handle
  <2> QED
    BY <1>1, <1>2, <1>5, <2>1
<1>6. CASE m.type = "dellink" /\ h.there
  <2>1. x = NoIf
    BY <1>6 DEF Handle
  <2> QED
    BY <1>2, <1>6, <2>1
<1>7. CASE m.type = "newaddr" /\ h.there
  <2>1. PICK y : y = AddressNews(h, m)
    OBVIOUS
  <2>2. x \in Settle(y, c)
    BY <1>7, <2>1 DEF Handle
  <2>3. /\ Half(y, c) /\ y.there /\ y.ok = h.ok
        /\ \A a : a \in AddrNames(y) <=> a \in AddrNames(h) \/ a = m.addr
    BY <1>1, <1>3, <1>7, <2>1, NewsFacts
  <2>4. Alike(x, y) /\ Whole(x, c) /\ y \in Ifs
    BY <2>2, <2>3, SettleFacts DEF Half
  <2>5. AddrNames(x) = AddrNames(y)
    BY <2>4, AlikeFacts
  <2> QED
    BY <1>7, <2>3, <2>4, <2>5 DEF Alike
<1>8. CASE m.type = "deladdr" /\ h.there
  <2>1. CASE m.addr \notin AddrNames(h)
    <3>1. x = h
      BY <1>8, <2>1 DEF Handle
    <3> QED
      BY <1>8, <2>1, <3>1
  <2>2. CASE m.addr \in AddrNames(h)
    <3>1. PICK y \in AddressGone(h, m.addr) : x \in Settle(y, c)
      BY <1>8, <2>2 DEF Handle
    <3>2. /\ Half(y, c) /\ y.there /\ y.ok = h.ok
          /\ \A b : b \in AddrNames(y) <=> b \in AddrNames(h) /\ b # m.addr
      BY <1>1, <1>8, <2>2, <3>1, GoneFacts
    <3>3. Alike(x, y) /\ Whole(x, c) /\ y \in Ifs
      BY <3>1, <3>2, SettleFacts DEF Half
    <3>4. AddrNames(x) = AddrNames(y)
      BY <3>3, AlikeFacts
    <3> QED
      BY <1>8, <3>2, <3>3, <3>4 DEF Alike
  <2> QED
    BY <2>1, <2>2
<1> QED
  BY <1>3, <1>4, <1>5, <1>6, <1>7, <1>8

-----------------------------------------------------------------------------
LEMMA DoneApart ==
    /\ \A w \in Wires : Done \notin LinkOf(w)
    /\ \A w \in Wires, a \in Addrs : Done \notin AddrOf(w, a)
    /\ \A m \in LinkMessages \cup AddrMessages : m # Done /\ m.type # "done"
    /\ Done.type = "done"
BY DEF Done, LinkOf, AddrOf, LinkMessages, AddrMessages

LEMMA OthersMessages ==
    /\ \A m \in LinkMessages, w \in Wires : m \in LinkOf(w) <=> m.wire = w
    /\ \A m \in AddrMessages, w \in Wires : m \notin LinkOf(w)
    /\ \A m \in LinkMessages, w \in Wires, a \in Addrs : m \in AddrOf(w, a) <=> m.type = "dellink" /\ m.wire = w
    /\ \A m \in AddrMessages, w \in Wires, a \in Addrs : m \in AddrOf(w, a) <=> m.wire = w /\ m.addr = a
BY DEF LinkOf, AddrOf, LinkMessages, AddrMessages

LEMMA ConsistentWeaker ==
    ASSUME NEW q, NEW S, NEW G, NEW G2, NEW cur, NEW cur2, Consistent(q, S, G, cur),
           \A m \in S : m \in G => m \in G2, cur => cur2
    PROVE  Consistent(q, S, G2, cur2)
BY DEF Consistent, LastOf

LEMMA JoinsAssociate ==
    ASSUME NEW T, NEW q \in Seq(T), NEW u \in Seq(T), NEW d \in Seq(T)
    PROVE  (q \o u) \o d = q \o (u \o d)
OBVIOUS

LEMMA AppendJoins ==
    ASSUME NEW T, NEW q \in Seq(T), NEW m \in T
    PROVE  Append(q, m) = q \o <<m>>
OBVIOUS

LEMMA OneMessage ==
    ASSUME NEW m \in Messages
    PROVE  /\ <<m>> \in Seq(Messages) /\ Len(<<m>>) = 1 /\ \A i \in 1..1 : i = 1 /\ <<m>>[i] = m
           /\ \A S : NoneOf(<<m>>, S) <=> m \notin S
BY DEF NoneOf

\* The parts of the invariant that the kernel's steps leave alone.
Unread == UNCHANGED <<listing, ifs, refused>>

LEMMA UnreadKeeps == ASSUME IfInv, Unread PROVE IfsOK' /\ JoinedUnlessRefused' /\ listing' \in {"iface", "addr", "done"}
BY DEF IfInv, Unread, IfsOK, JoinedUnlessRefused

\* New addresses that are written behind the queue.
LEMMA NewsJoined ==
    ASSUME IfInv, Unread, NEW r \in Seq(Messages), queue' = queue \o r,
           listing = "iface" => dump' # {} \/ dump' = dump \/ \E j \in 1..Len(r) : r[j] = Done,
           \A i \in 1..Len(r) : r[i].type = "newaddr" =>
              /\ NoneOf(r, LinkOf(r[i].wire))
              /\ \/ Consistent(queue, LinkOf(r[i].wire), Newlinks, ifs[r[i].wire].there)
                 \/ listing = "iface" /\ dump' # {}
    PROVE  NewsWelcome'
<1>1. queue \in Seq(Messages) /\ NewsWelcome
  BY DEF IfInv
<1>2. /\ Len(queue') = Len(queue) + Len(r) /\ Len(queue) \in Nat /\ Len(r) \in Nat
      /\ \A i \in 1..Len(queue) : queue'[i] = queue[i]
      /\ \A i \in 1..Len(r) : queue'[Len(queue) + i] = r[i]
  BY <1>1, JoinedOf
<1>3. ASSUME NEW i \in 1..Len(queue'), queue'[i].type = "newaddr"
      PROVE  \/ Ahead(queue', LinkOf(queue'[i].wire), Newlinks, ifs[queue'[i].wire].there, i)
             \/ listing = "iface" /\ (dump' # {} \/ \E j \in 1..Len(queue') : j > i /\ queue'[j] = Done)
  <2>1. CASE i \in 1..Len(queue)
    <3>1. queue'[i] = queue[i] /\ queue[i].type = "newaddr"
      BY <1>2, <1>3, <2>1
    <3>2. CASE Ahead(queue, LinkOf(queue[i].wire), Newlinks, ifs[queue[i].wire].there, i)
      BY <1>1, <2>1, <3>1, <3>2, BeforeJoined
    <3>3. CASE listing = "iface" /\ (dump # {} \/ \E j \in 1..Len(queue) : j > i /\ queue[j] = Done)
      <4>1. \A j \in 1..Len(queue) : j \in 1..Len(queue') /\ queue'[j] = queue[j]
        BY <1>2
      <4>2. \A j \in 1..Len(r) : Len(queue) + j \in 1..Len(queue') /\ Len(queue) + j > i /\ queue'[Len(queue) + j] = r[j]
        BY <1>2, <2>1
      <4> QED
        BY <3>3, <4>1, <4>2
    <3> QED
      BY <1>1, <2>1, <3>1, <3>2, <3>3 DEF NewsWelcome
  <2>2. CASE i \notin 1..Len(queue)
    <3>1. PICK k \in 1..Len(r) : Len(queue) + k = i
      <4>1. i - Len(queue) \in 1..Len(r) /\ Len(queue) + (i - Len(queue)) = i
        BY <1>2, <2>2
      <4> QED
        BY <4>1
    <3>2. queue'[i] = r[k] /\ r[k].type = "newaddr"
      BY <1>2, <1>3, <3>1
    <3>3. CASE Consistent(queue, LinkOf(r[k].wire), Newlinks, ifs[r[k].wire].there)
      <4>1. NoneOf(r, LinkOf(r[k].wire)) /\ i \in 1..Len(queue \o r)
        BY <3>2
      <4>2. Ahead(queue \o r, LinkOf(r[k].wire), Newlinks, ifs[r[k].wire].there, i)
        BY <1>1, <2>2, <3>3, <4>1, BeforeNew
      <4> QED
        BY <3>2, <4>2
    <3> QED
      BY <3>2, <3>3
  <2> QED
    BY <2>1, <2>2
<1> QED
  BY <1>3 DEF NewsWelcome, Unread

\* A link that is there has been told of, or waits for the dump of the links.
LEMMA LinkTold ==
    ASSUME IfInv, NEW w \in Wires, kernel[w].there
    PROVE  Consistent(queue, LinkOf(w), Newlinks, ifs[w].there) \/ (listing = "iface" /\ dump # {})
<1>1. Consistent(queue, LinkOf(w), LinkTrue(kernel[w]), LinkNow(ifs[w], kernel[w], LinkAwaited(w)))
  BY DEF IfInv, LinksKnown
<1>2. \A m \in LinkOf(w) : m \in LinkTrue(kernel[w]) => m \in Newlinks
  BY DEF LinkTrue, Newlinks
<1>3. CASE LinkAwaited(w)
  BY <1>3 DEF LinkAwaited
<1>4. CASE ~LinkAwaited(w)
  <2>1. LinkNow(ifs[w], kernel[w], LinkAwaited(w)) => ifs[w].there
    BY <1>4 DEF LinkNow
  <2> QED
    BY <1>1, <1>2, <2>1, ConsistentWeaker
<1> QED
  BY <1>3, <1>4

\* A message that is not the end of a dump.
LEMMA DoneOnceJoined ==
    ASSUME IfInv, NEW m \in LinkMessages \cup AddrMessages, queue' = queue \o <<m>>, UNCHANGED <<dump, listing>>
    PROVE  DoneOnce'
<1>1. queue \in Seq(Messages) /\ DoneOnce /\ m # Done /\ m \in Messages
  BY DoneApart DEF IfInv, Messages
<1>2. /\ Len(queue') = Len(queue) + 1 /\ Len(queue) \in Nat
      /\ \A i \in 1..Len(queue) : queue'[i] = queue[i]
      /\ queue'[Len(queue) + 1] = m
  BY <1>1, OneMessage, JoinedOf
<1>3. \A i \in 1..Len(queue') : i \in 1..Len(queue) \/ i = Len(queue) + 1
  BY <1>2
<1> QED
  BY <1>1, <1>2, <1>3 DEF DoneOnce

LEMMA ChangeLinkInv == ASSUME IfInv, NEW w \in Wires, ChangeLink(w) PROVE IfInv'
<1>1. PICK there, up \in BOOLEAN :
         /\ (up => there) /\ (~there => \A a \in Addrs : kernel[w].has[a] = "none")
         /\ kernel' = [kernel EXCEPT ![w].there = there, ![w].up = up]
  BY DEF ChangeLink
<1>2. UNCHANGED <<dump, listing, ifs, refused>> /\ Unread
  BY DEF ChangeLink, Change, Unread
<1>3. kernel \in [Wires -> Links] /\ queue \in Seq(Messages) /\ dump \subseteq Wires
  BY DEF IfInv, KernelOK
<1>4. /\ kernel' \in [Wires -> Links] /\ \A v \in Wires : v # w => kernel'[v] = kernel[v]
      /\ kernel'[w].there = there /\ kernel'[w].up = up /\ kernel'[w].has = kernel[w].has
  <2>1. PICK k : k = [kernel[w] EXCEPT !.there = there, !.up = up]
    OBVIOUS
  <2>2. kernel[w] \in Links
    BY <1>3
  <2>3. k \in Links /\ k.there = there /\ k.up = up /\ k.has = kernel[w].has
    BY <2>1, <2>2 DEF Links
  <2>4. kernel' = [kernel EXCEPT ![w] = k]
    BY <1>1, <1>3, <2>1, <2>2 DEF Links
  <2> QED
    BY <1>3, <2>3, <2>4
<1>5. KernelOK'
  BY <1>1, <1>4 DEF KernelOK, IfInv
<1>6. PICK m : m = LinkMsg(w)
  OBVIOUS
<1>7. /\ m \in LinkMessages /\ m.wire = w /\ m.up = up /\ (m.type = "newlink" <=> there)
      /\ queue' = Append(queue, m)
  <2>1. m = [type |-> IF there THEN "newlink" ELSE "dellink", wire |-> w, up |-> up]
    BY <1>4, <1>6 DEF LinkMsg
  <2> QED
    BY <1>6, <2>1 DEF ChangeLink, LinkMessages
<1>8. m \in Messages /\ m.type # "newaddr"
  BY <1>7 DEF Messages, LinkMessages
<1>9. PICK r \in Seq(Messages) : r = <<m>> /\ queue' = queue \o r /\ Len(r) = 1 /\ \A i \in 1..1 : r[i] = m
  <2>1. Append(queue, m) = queue \o <<m>>
    BY <1>3, <1>8, AppendJoins
  <2>2. PICK r : r = <<m>>
    OBVIOUS
  <2>3. queue' = queue \o r
    BY <1>7, <2>1, <2>2
  <2> QED
    BY <1>8, <2>2, <2>3, OneMessage
<1>10. \A S : NoneOf(r, S) <=> m \notin S
  BY <1>8, <1>9, OneMessage
<1>11. queue' \in Seq(Messages)
  BY <1>3, <1>9, JoinedOf
<1>12. NewsWelcome'
  BY <1>2, <1>8, <1>9, NewsJoined
<1>13. DoneOnce'
  BY <1>2, <1>7, <1>9, DoneOnceJoined
<1>14. LinksKnown'
  <2> SUFFICES ASSUME NEW v \in Wires
               PROVE  Consistent(queue \o r, LinkOf(v), LinkTrue(kernel'[v]), LinkNow(ifs[v], kernel'[v], LinkAwaited(v)))
    BY <1>2, <1>9 DEF LinksKnown, LinkAwaited
  <2>1. Consistent(queue, LinkOf(v), LinkTrue(kernel[v]), LinkNow(ifs[v], kernel[v], LinkAwaited(v)))
    BY DEF IfInv, LinksKnown
  <2>2. v = w => m \in LinkOf(v) /\ m \in LinkTrue(kernel'[v])
    BY <1>4, <1>7 DEF LinkOf, LinkTrue
  <2>3. v # w => m \notin LinkOf(v) /\ kernel'[v] = kernel[v]
    BY <1>4, <1>7 DEF LinkOf
  <2>4. /\ \A i \in 1..Len(r) : r[i] \in LinkOf(v) => r[i] \in LinkTrue(kernel'[v])
        /\ NoneOf(r, LinkOf(v)) => kernel'[v] = kernel[v]
    BY <1>9, <1>10, <2>2, <2>3
  <2> QED
    BY <1>3, <2>1, <2>4, ConsistentJoined
<1>15. AddrsKnown'
  <2> SUFFICES ASSUME NEW v \in Wires, NEW a \in Addrs
               PROVE  Consistent(queue \o r, AddrOf(v, a), AddrTrue(kernel'[v], a), AddrNow(ifs[v], kernel'[v], a, AddrAwaited(v)))
    BY <1>2, <1>9 DEF AddrsKnown, AddrAwaited
  <2>1. Consistent(queue, AddrOf(v, a), AddrTrue(kernel[v], a), AddrNow(ifs[v], kernel[v], a, AddrAwaited(v)))
    BY DEF IfInv, AddrsKnown
  <2>2. kernel'[v].has = kernel[v].has
    BY <1>4
  <2>3. AddrTrue(kernel'[v], a) = AddrTrue(kernel[v], a)
        /\ (AddrNow(ifs[v], kernel'[v], a, AddrAwaited(v)) <=> AddrNow(ifs[v], kernel[v], a, AddrAwaited(v)))
    BY <2>2 DEF AddrTrue, AddrNow
  <2>4. m \in AddrOf(v, a) => m \in AddrTrue(kernel'[v], a)
    <3>1. ASSUME m \in AddrOf(v, a) PROVE m.type = "dellink" /\ v = w
      BY <1>7, <3>1, OthersMessages
    <3>2. ASSUME m \in AddrOf(v, a) PROVE kernel'[v].has[a] = "none"
      BY <1>1, <1>4, <1>7, <3>1, <3>2
    <3> QED
      BY <1>8, <3>2 DEF AddrTrue
  <2>5. \A i \in 1..Len(r) : r[i] \in AddrOf(v, a) => r[i] \in AddrTrue(kernel'[v], a)
    BY <1>9, <2>4
  <2> QED
    BY <1>3, <2>1, <2>3, <2>5, ConsistentJoined
<1> QED
  BY <1>2, <1>3, <1>5, <1>11, <1>12, <1>13, <1>14, <1>15, UnreadKeeps DEF IfInv

LEMMA ChangeAddressInv == ASSUME IfInv, NEW w \in Wires, NEW a \in Addrs, ChangeAddress(w, a) PROVE IfInv'
<1>1. PICK d \in Scopes : kernel' = [kernel EXCEPT ![w].has[a] = d] /\ queue' = Append(queue, AddrMsg(w, a, d))
  BY DEF ChangeAddress
<1>2. UNCHANGED <<dump, listing, ifs, refused>> /\ Unread /\ kernel[w].there
  BY DEF ChangeAddress, Change, Unread
<1>3. kernel \in [Wires -> Links] /\ queue \in Seq(Messages) /\ dump \subseteq Wires
  BY DEF IfInv, KernelOK
<1>4. /\ kernel' \in [Wires -> Links] /\ \A v \in Wires : v # w => kernel'[v] = kernel[v]
      /\ kernel'[w].there = kernel[w].there /\ kernel'[w].up = kernel[w].up
      /\ \A b \in Addrs : kernel'[w].has[b] = IF b = a THEN d ELSE kernel[w].has[b]
  <2>1. kernel[w] \in Links
    BY <1>3
  <2>2. PICK g \in [Addrs -> Scopes] : g = [kernel[w].has EXCEPT ![a] = d]
    BY <2>1 DEF Links
  <2>3. PICK k : k = [kernel[w] EXCEPT !.has = g]
    OBVIOUS
  <2>4. k \in Links /\ k.there = kernel[w].there /\ k.up = kernel[w].up /\ k.has = g
    BY <2>1, <2>2, <2>3 DEF Links
  <2>5. kernel' = [kernel EXCEPT ![w] = k]
    BY <1>1, <2>2, <2>3
  <2>6. kernel[w].has \in [Addrs -> Scopes]
    BY <2>1 DEF Links
  <2> QED
    BY <1>3, <2>2, <2>4, <2>5, <2>6
<1>5. KernelOK'
  BY <1>2, <1>4 DEF KernelOK, IfInv
<1>6. PICK m : m = AddrMsg(w, a, d)
  OBVIOUS
<1>7. /\ m \in AddrMessages /\ m.wire = w /\ m.addr = a /\ (m.type = "newaddr" <=> d # "none")
      /\ queue' = Append(queue, m)
  BY <1>1, <1>6 DEF AddrMsg, AddrMessages, Scopes
<1>8. m \in Messages
  BY <1>7 DEF Messages
<1>9. PICK r \in Seq(Messages) : r = <<m>> /\ queue' = queue \o r /\ Len(r) = 1 /\ \A i \in 1..1 : r[i] = m
  <2>1. Append(queue, m) = queue \o <<m>>
    BY <1>3, <1>8, AppendJoins
  <2>2. PICK r : r = <<m>>
    OBVIOUS
  <2>3. queue' = queue \o r
    BY <1>7, <2>1, <2>2
  <2> QED
    BY <1>8, <2>2, <2>3, OneMessage
<1>10. \A S : NoneOf(r, S) <=> m \notin S
  BY <1>8, <1>9, OneMessage
<1>11. queue' \in Seq(Messages)
  BY <1>3, <1>9, JoinedOf
<1>12. NewsWelcome'
  <2>1. NoneOf(r, LinkOf(w))
    BY <1>7, <1>10, OthersMessages
  <2> QED
    BY <1>2, <1>7, <1>9, <2>1, LinkTold, NewsJoined
<1>13. DoneOnce'
  BY <1>2, <1>7, <1>9, DoneOnceJoined
<1>14. LinksKnown'
  <2> SUFFICES ASSUME NEW v \in Wires
               PROVE  Consistent(queue \o r, LinkOf(v), LinkTrue(kernel'[v]), LinkNow(ifs[v], kernel'[v], LinkAwaited(v)))
    BY <1>2, <1>9 DEF LinksKnown, LinkAwaited
  <2>1. Consistent(queue, LinkOf(v), LinkTrue(kernel[v]), LinkNow(ifs[v], kernel[v], LinkAwaited(v)))
    BY DEF IfInv, LinksKnown
  <2>2. m \notin LinkOf(v)
    BY <1>7, OthersMessages
  <2>3. kernel'[v].there = kernel[v].there /\ kernel'[v].up = kernel[v].up
    BY <1>4
  <2>4. LinkTrue(kernel'[v]) = LinkTrue(kernel[v])
        /\ (LinkNow(ifs[v], kernel'[v], LinkAwaited(v)) <=> LinkNow(ifs[v], kernel[v], LinkAwaited(v)))
    BY <2>3 DEF LinkTrue, LinkNow
  <2>5. \A i \in 1..Len(r) : r[i] \notin LinkOf(v)
    BY <1>9, <2>2
  <2> QED
    BY <1>3, <2>1, <2>4, <2>5, ConsistentJoined
<1>15. AddrsKnown'
  <2> SUFFICES ASSUME NEW v \in Wires, NEW b \in Addrs
               PROVE  Consistent(queue \o r, AddrOf(v, b), AddrTrue(kernel'[v], b), AddrNow(ifs[v], kernel'[v], b, AddrAwaited(v)))
    BY <1>2, <1>9 DEF AddrsKnown, AddrAwaited
  <2>1. Consistent(queue, AddrOf(v, b), AddrTrue(kernel[v], b), AddrNow(ifs[v], kernel[v], b, AddrAwaited(v)))
    BY DEF IfInv, AddrsKnown
  <2>2. CASE v = w /\ b = a
    <3>1. m \in AddrOf(v, b) /\ kernel'[v].has[b] = d
      BY <1>4, <1>7, <2>2, OthersMessages
    <3>2. m \in AddrTrue(kernel'[v], b)
      BY <1>7, <1>8, <3>1 DEF AddrTrue
    <3>3. ~NoneOf(r, AddrOf(v, b)) /\ \A i \in 1..Len(r) : r[i] \in AddrTrue(kernel'[v], b)
      BY <1>9, <1>10, <3>1, <3>2
    <3> QED
      BY <1>3, <2>1, <3>3, ConsistentJoined
  <2>3. CASE ~(v = w /\ b = a)
    <3>1. m \notin AddrOf(v, b) /\ kernel'[v].has[b] = kernel[v].has[b]
      BY <1>4, <1>7, <2>3, OthersMessages
    <3>2. AddrTrue(kernel'[v], b) = AddrTrue(kernel[v], b)
          /\ (AddrNow(ifs[v], kernel'[v], b, AddrAwaited(v)) <=> AddrNow(ifs[v], kernel[v], b, AddrAwaited(v)))
      BY <3>1 DEF AddrTrue, AddrNow
    <3>3. \A i \in 1..Len(r) : r[i] \notin AddrOf(v, b)
      BY <1>9, <3>1
    <3> QED
      BY <1>3, <2>1, <3>2, <3>3, ConsistentJoined
  <2> QED
    BY <2>2, <2>3
<1> QED
  BY <1>2, <1>3, <1>5, <1>11, <1>12, <1>13, <1>14, <1>15, UnreadKeeps DEF IfInv

-----------------------------------------------------------------------------
\* A set of addresses as a sequence.
LEMMA AddressSequence ==
    ASSUME NEW H, H \subseteq Addrs
    PROVE  /\ SetToSeq(H) \in Seq(H)
           /\ \A a \in H : \E i \in 1..Len(SetToSeq(H)) : SetToSeq(H)[i] = a
<1>1. IsFiniteSet(H)
  BY WireAssumption, FS_Subset
<1>2. PICK n \in Nat : n = Cardinality(H) /\ ExistsBijection(1..n, H)
  BY <1>1, FS_CardinalityType
<1>3. PICK f \in [1..n -> H] : IsInjective(f) /\ \A a \in H : \E i \in 1..n : f[i] = a
  BY <1>2 DEF ExistsBijection, Bijection, Injection, Surjection, IsInjective
<1>4. PICK g : g = SetToSeq(H)
  OBVIOUS
<1>5. g \in [1..n -> H] /\ IsInjective(g)
  BY <1>2, <1>3, <1>4 DEF SetToSeq
<1>6. g \in Seq(H) /\ Len(g) = n
  BY <1>5
<1>7. g \in Injection(1..n, H)
  BY <1>5 DEF Injection, IsInjective
<1>8. IsFiniteSet(1..n) /\ Cardinality(1..n) = n
  BY FS_Interval
<1>9. g \in Surjection(1..n, H)
  BY <1>1, <1>2, <1>7, <1>8, FS_Injection
<1>10. \A a \in H : \E i \in 1..n : g[i] = a
  BY <1>9 DEF Surjection
<1> QED
  BY <1>4, <1>6, <1>10

\* What the kernel writes of link w when it comes to it in the dump.
Written(w, r) ==
    /\ \A i \in 1..Len(r) : r[i] = Done => i = Len(r) /\ dump = {w}
    /\ dump = {w} => \E i \in 1..Len(r) : r[i] = Done
    /\ listing = "iface" =>
         /\ \A i \in 1..Len(r) : r[i] = Done \/ (r[i] \in Newlinks /\ r[i] \in LinkOf(w) /\ r[i] \in LinkTrue(kernel[w]))
         /\ kernel[w].there => \E i \in 1..Len(r) : r[i] \in LinkOf(w)
    /\ listing = "addr" =>
         /\ \A i \in 1..Len(r) : r[i] = Done \/
              (r[i] \in AddrMessages /\ r[i].type = "newaddr" /\ r[i].wire = w /\ kernel[w].has[r[i].addr] # "none")
         /\ \A a \in Addrs : kernel[w].has[a] # "none" => \E i \in 1..Len(r) : r[i] \in AddrOf(w, a)

\* What is said of the link, and then Done after the last.
LEMMA ThenDone ==
    ASSUME NEW u \in Seq(Messages), \A i \in 1..Len(u) : u[i] # Done, NEW last \in BOOLEAN,
           NEW r, r = u \o (IF last THEN <<Done>> ELSE <<>>)
    PROVE  /\ r \in Seq(Messages) /\ \A i \in 1..Len(u) : i \in 1..Len(r) /\ r[i] = u[i]
           /\ \A i \in 1..Len(r) : (i \in 1..Len(u) /\ r[i] = u[i] /\ r[i] # Done) \/ (i = Len(r) /\ r[i] = Done /\ last)
           /\ last => \E i \in 1..Len(r) : r[i] = Done
<1>1. Done \in Messages /\ Len(u) \in Nat
  BY DEF Messages
<1>2. CASE ~last
  <2>1. r = u
    BY <1>2
  <2> QED
    BY <1>2, <2>1
<1>3. CASE last
  <2>1. r = u \o <<Done>>
    BY <1>3
  <2>2. /\ r \in Seq(Messages) /\ Len(r) = Len(u) + 1 /\ r[Len(u) + 1] = Done
        /\ \A i \in 1..Len(u) : r[i] = u[i]
    BY <1>1, <2>1, OneMessage, JoinedOf
  <2>3. \A i \in 1..Len(r) : i \in 1..Len(u) \/ i = Len(r)
    BY <1>1, <2>2
  <2>4. Len(r) \in 1..Len(r) /\ \A i \in 1..Len(u) : i \in 1..Len(r)
    BY <1>1, <2>2
  <2> QED
    BY <1>3, <2>2, <2>3, <2>4
<1> QED
  BY <1>2, <1>3

LEMMA DumpWrites ==
    ASSUME IfInv, DumpNext
    PROVE  \E w \in dump, r \in Seq(Messages) : queue' = queue \o r /\ dump' = dump \ {w} /\ Written(w, r)
<1>1. /\ UNCHANGED <<kernel, listing>> /\ dump # {} /\ dump \subseteq Wires
      /\ kernel \in [Wires -> Links] /\ queue \in Seq(Messages) /\ listing \in {"iface", "addr"}
  BY DEF DumpNext, IfInv, KernelOK
<1>2. PICK w \in dump : w = CHOOSE x \in dump : TRUE
  BY <1>1
<1>3. w \in Wires /\ kernel[w] \in Links
  BY <1>1
<1> PICK H : H = {a \in Addrs : kernel[w].has[a] # "none"}
  OBVIOUS
<1>4. PICK held : held = SetToSeq(H)
  OBVIOUS
<1>5. held \in Seq(H) /\ Len(held) \in Nat /\ \A a \in H : \E i \in 1..Len(held) : held[i] = a
  <2>1. H \subseteq Addrs
    OBVIOUS
  <2>2. held \in Seq(H) /\ \A a \in H : \E i \in 1..Len(held) : held[i] = a
    BY <1>4, <2>1, AddressSequence
  <2> QED
    BY <2>2
<1>6. PICK news : news = [i \in 1..Len(held) |-> AddrMsg(w, held[i], kernel[w].has[held[i]])]
  OBVIOUS
<1>7. PICK m : m = [type |-> "newlink", wire |-> w, up |-> kernel[w].up]
  OBVIOUS
<1>8. PICK u : u = IF listing = "addr" THEN news ELSE IF kernel[w].there THEN <<m>> ELSE <<>>
  OBVIOUS
<1>9. PICK r : r = u \o (IF dump = {w} THEN <<Done>> ELSE <<>>)
  OBVIOUS
<1>10. dump' = dump \ {w} /\ queue' = queue \o u \o (IF dump = {w} THEN <<Done>> ELSE <<>>)
  BY <1>1, <1>2, <1>4, <1>6, <1>7, <1>8 DEF DumpNext
<1>11. /\ u \in Seq(Messages) /\ \A i \in 1..Len(u) : u[i] # Done
       /\ listing = "iface" =>
            /\ \A i \in 1..Len(u) : u[i] \in Newlinks /\ u[i] \in LinkOf(w) /\ u[i] \in LinkTrue(kernel[w])
            /\ kernel[w].there => \E i \in 1..Len(u) : u[i] \in LinkOf(w)
       /\ listing = "addr" =>
            /\ \A i \in 1..Len(u) :
                 u[i] \in AddrMessages /\ u[i].type = "newaddr" /\ u[i].wire = w /\ kernel[w].has[u[i].addr] # "none"
            /\ \A a \in Addrs : kernel[w].has[a] # "none" => \E i \in 1..Len(u) : u[i] \in AddrOf(w, a)
  <2>1. CASE listing = "addr"
    <3>1. u = news /\ Len(u) = Len(held)
      BY <1>5, <1>6, <1>8, <2>1
    <3>2. ASSUME NEW i \in 1..Len(held)
          PROVE  /\ news[i] \in AddrMessages /\ news[i].type = "newaddr" /\ news[i].wire = w
                 /\ news[i].addr = held[i] /\ held[i] \in H
      <4>1. held[i] \in H
        BY <1>5, ElementOf
      <4>2. news[i] = AddrMsg(w, held[i], kernel[w].has[held[i]])
        BY <1>6
      <4> QED
        BY <1>3, <4>1, <4>2 DEF AddrMsg, AddrMessages
    <3>3. news \in Seq(Messages)
      <4>1. \A i \in 1..Len(held) : news[i] \in Messages
        BY <3>2 DEF Messages
      <4>2. news \in [1..Len(held) -> Messages]
        BY <1>6, <4>1
      <4> QED
        BY <1>5, <4>2
    <3>4. \A i \in 1..Len(u) : u[i] # Done
      BY <3>1, <3>2, DoneApart
    <3>5. ASSUME NEW a \in Addrs, kernel[w].has[a] # "none" PROVE \E i \in 1..Len(u) : u[i] \in AddrOf(w, a)
      <4>1. PICK i \in 1..Len(held) : held[i] = a
        BY <1>5, <3>5
      <4>2. news[i] \in AddrOf(w, a)
        BY <1>3, <3>2, <4>1, OthersMessages
      <4> QED
        BY <3>1, <4>2
    <3> QED
      BY <2>1, <3>1, <3>2, <3>3, <3>4, <3>5
  <2>2. CASE listing = "iface" /\ kernel[w].there
    <3>1. u = <<m>>
      BY <1>8, <2>2
    <3>2. m \in LinkMessages /\ m \in Newlinks /\ m \in LinkOf(w) /\ m \in LinkTrue(kernel[w]) /\ m \in Messages
      BY <1>3, <1>7, <2>2 DEF Links, LinkMessages, Newlinks, LinkOf, LinkTrue, Messages
    <3>3. u \in Seq(Messages) /\ Len(u) = 1 /\ \A i \in 1..1 : u[i] = m
      BY <3>1, <3>2, OneMessage
    <3>4. 1 \in 1..Len(u) /\ u[1] = m
      BY <3>3
    <3> QED
      BY <2>2, <3>2, <3>3, <3>4, DoneApart
  <2>3. CASE listing = "iface" /\ ~kernel[w].there
    <3>1. u = <<>>
      BY <1>8, <2>3
    <3>2. u \in Seq(Messages) /\ 1..Len(u) = {}
      BY <3>1
    <3> QED
      BY <2>3, <3>2
  <2> QED
    BY <1>1, <2>1, <2>2, <2>3
<1>12. PICK b \in BOOLEAN : b <=> dump = {w}
  OBVIOUS
<1>13. r = u \o (IF b THEN <<Done>> ELSE <<>>)
  BY <1>9, <1>12
<1>14. /\ r \in Seq(Messages) /\ \A i \in 1..Len(u) : i \in 1..Len(r) /\ r[i] = u[i]
       /\ \A i \in 1..Len(r) : (i \in 1..Len(u) /\ r[i] = u[i] /\ r[i] # Done) \/ (i = Len(r) /\ r[i] = Done /\ b)
       /\ b => \E i \in 1..Len(r) : r[i] = Done
  BY <1>11, <1>13, ThenDone
<1>15. queue' = queue \o r
  <2>1. PICK d \in Seq(Messages) : d = IF dump = {w} THEN <<Done>> ELSE <<>>
    <3>1. Done \in Messages
      BY DEF Messages
    <3>2. <<Done>> \in Seq(Messages) /\ <<>> \in Seq(Messages)
      BY <3>1, OneMessage
    <3> QED
      BY <3>2
  <2>2. (queue \o u) \o d = queue \o (u \o d)
    <3>1. queue \in Seq(Messages) /\ u \in Seq(Messages) /\ d \in Seq(Messages)
      BY <1>1, <1>11, <2>1
    <3> QED
      BY ONLY <3>1, JoinsAssociate
  <2> QED
    BY <1>9, <1>10, <2>1, <2>2
<1>16. Written(w, r)
  <2>1. /\ \A i \in 1..Len(r) : r[i] = Done => i = Len(r) /\ dump = {w}
        /\ dump = {w} => \E i \in 1..Len(r) : r[i] = Done
    BY <1>12, <1>14
  <2>2. listing = "iface" =>
         /\ \A i \in 1..Len(r) : r[i] = Done \/ (r[i] \in Newlinks /\ r[i] \in LinkOf(w) /\ r[i] \in LinkTrue(kernel[w]))
         /\ kernel[w].there => \E i \in 1..Len(r) : r[i] \in LinkOf(w)
    BY <1>11, <1>14
  <2>3. listing = "addr" =>
         /\ \A i \in 1..Len(r) : r[i] = Done \/
              (r[i] \in AddrMessages /\ r[i].type = "newaddr" /\ r[i].wire = w /\ kernel[w].has[r[i].addr] # "none")
         /\ \A a \in Addrs : kernel[w].has[a] # "none" => \E i \in 1..Len(r) : r[i] \in AddrOf(w, a)
    BY <1>11, <1>14
  <2> QED
    BY <2>1, <2>2, <2>3 DEF Written
<1> QED
  BY <1>10, <1>14, <1>15, <1>16

LEMMA DumpNextInv == ASSUME IfInv, DumpNext PROVE IfInv'
<1>1. PICK w \in dump, r \in Seq(Messages) : queue' = queue \o r /\ dump' = dump \ {w} /\ Written(w, r)
  BY DumpWrites
<1>2. /\ UNCHANGED <<kernel, listing, ifs, refused>> /\ Unread /\ w \in Wires /\ dump \subseteq Wires
      /\ queue \in Seq(Messages) /\ listing \in {"iface", "addr"} /\ kernel \in [Wires -> Links] /\ KernelOK
  BY DEF DumpNext, IfInv, Unread, KernelOK
<1>3. /\ \A i \in 1..Len(r) : r[i] = Done => i = Len(r) /\ dump = {w}
      /\ dump = {w} => \E i \in 1..Len(r) : r[i] = Done
  BY <1>1 DEF Written
<1>4. listing = "iface" =>
         /\ \A i \in 1..Len(r) : r[i] = Done \/ (r[i] \in Newlinks /\ r[i] \in LinkOf(w) /\ r[i] \in LinkTrue(kernel[w]))
         /\ kernel[w].there => \E i \in 1..Len(r) : r[i] \in LinkOf(w)
  BY <1>1 DEF Written
<1>5. listing = "addr" =>
         /\ \A i \in 1..Len(r) : r[i] = Done \/
              (r[i] \in AddrMessages /\ r[i].type = "newaddr" /\ r[i].wire = w /\ kernel[w].has[r[i].addr] # "none")
         /\ \A a \in Addrs : kernel[w].has[a] # "none" => \E i \in 1..Len(r) : r[i] \in AddrOf(w, a)
  BY <1>1 DEF Written
<1>6. queue' \in Seq(Messages)
  BY <1>1, <1>2, JoinedOf
<1>7. KernelOK'
  BY <1>2 DEF KernelOK
<1>8. NewsWelcome'
  <2>1. listing = "iface" => dump' # {} \/ \E j \in 1..Len(r) : r[j] = Done
    BY <1>1, <1>3
  <2>2. ASSUME NEW i \in 1..Len(r), r[i].type = "newaddr"
        PROVE  /\ NoneOf(r, LinkOf(r[i].wire))
               /\ Consistent(queue, LinkOf(r[i].wire), Newlinks, ifs[r[i].wire].there)
    <3>1. listing = "addr"
      BY <1>2, <1>4, <2>2, DoneApart DEF Newlinks
    <3>2. r[i].wire = w /\ r[i].addr \in Addrs /\ kernel[w].has[r[i].addr] # "none"
      BY <1>5, <2>2, <3>1, DoneApart DEF AddrMessages
    <3>3. kernel[w].there
      BY <1>2, <3>2 DEF KernelOK
    <3>4. NoneOf(r, LinkOf(w))
      BY <1>2, <1>5, <3>1, DoneApart, OthersMessages DEF NoneOf
    <3> QED
      BY <1>2, <3>1, <3>2, <3>3, <3>4, LinkTold
  <2> QED
    BY <1>1, <1>2, <2>1, <2>2, NewsJoined
<1>9. DoneOnce'
  <2>1. DoneOnce /\ dump # {}
    BY <1>1 DEF IfInv
  <2>2. \A i \in 1..Len(queue) : queue[i] # Done
    BY <2>1 DEF DoneOnce
  <2>3. /\ Len(queue') = Len(queue) + Len(r) /\ Len(queue) \in Nat /\ Len(r) \in Nat
        /\ \A i \in 1..Len(queue) : queue'[i] = queue[i]
        /\ \A i \in 1..Len(r) : queue'[Len(queue) + i] = r[i]
    BY <1>1, <1>2, JoinedOf
  <2>4. ASSUME NEW i \in 1..Len(queue'), queue'[i] = Done PROVE i = Len(queue') /\ dump = {w}
    <3>1. i - Len(queue) \in 1..Len(r) /\ Len(queue) + (i - Len(queue)) = i
      BY <2>2, <2>3, <2>4
    <3>2. r[i - Len(queue)] = Done
      BY <2>3, <2>4, <3>1
    <3>3. i - Len(queue) = Len(r) /\ dump = {w}
      BY <1>3, <3>1, <3>2
    <3> QED
      BY <2>3, <3>3
  <2> QED
    BY <1>1, <1>2, <2>4 DEF DoneOnce
<1>10. LinksKnown'
  <2> SUFFICES ASSUME NEW v \in Wires
               PROVE  Consistent(queue \o r, LinkOf(v), LinkTrue(kernel[v]), LinkNow(ifs[v], kernel[v], LinkAwaited(v)'))
    BY <1>1, <1>2 DEF LinksKnown
  <2>1. Consistent(queue, LinkOf(v), LinkTrue(kernel[v]), LinkNow(ifs[v], kernel[v], LinkAwaited(v)))
    BY DEF IfInv, LinksKnown
  <2>2. \A i \in 1..Len(r) : r[i] \in LinkOf(v) => r[i] \in LinkTrue(kernel[v])
    <3>1. CASE listing = "iface"
      <4>1. \A i \in 1..Len(r) : r[i] \in LinkOf(v) => v = w
        BY <1>4, <3>1, DoneApart DEF LinkOf
      <4> QED
        BY <1>4, <3>1, <4>1, DoneApart
    <3>2. CASE listing = "addr"
      BY <1>5, <3>2, DoneApart, OthersMessages
    <3> QED
      BY <1>2, <3>1, <3>2
  <2>3. ASSUME NoneOf(r, LinkOf(v)), LinkNow(ifs[v], kernel[v], LinkAwaited(v))
        PROVE  LinkNow(ifs[v], kernel[v], LinkAwaited(v)')
    <3>1. CASE v = w /\ listing = "iface"
      <4>1. ~kernel[w].there /\ ~kernel[w].up
        BY <1>2, <1>4, <2>3, <3>1 DEF NoneOf, KernelOK
      <4>2. ~ifs[w].there => ~ifs[w].ok
        BY <1>2 DEF IfInv, IfsOK, Whole, NoIf
      <4>3. ifs[w].ok \in BOOLEAN /\ kernel[w].up \in BOOLEAN /\ ifs[w].there \in BOOLEAN /\ kernel[w].there \in BOOLEAN
        BY <1>2 DEF IfInv, IfsOK, Ifs, Links
      <4> QED
        BY <2>3, <3>1, <4>1, <4>2, <4>3 DEF LinkNow
    <3>2. CASE ~(v = w /\ listing = "iface")
      <4>1. LinkAwaited(v)' <=> LinkAwaited(v)
        BY <1>1, <1>2, <3>2 DEF LinkAwaited
      <4> QED
        BY <2>3, <4>1 DEF LinkNow
    <3> QED
      BY <3>1, <3>2
  <2> QED
    BY <1>2, <2>1, <2>2, <2>3, ConsistentJoined
<1>11. AddrsKnown'
  <2> SUFFICES ASSUME NEW v \in Wires, NEW a \in Addrs
               PROVE  Consistent(queue \o r, AddrOf(v, a), AddrTrue(kernel[v], a), AddrNow(ifs[v], kernel[v], a, AddrAwaited(v)'))
    BY <1>1, <1>2 DEF AddrsKnown
  <2>1. Consistent(queue, AddrOf(v, a), AddrTrue(kernel[v], a), AddrNow(ifs[v], kernel[v], a, AddrAwaited(v)))
    BY DEF IfInv, AddrsKnown
  <2>2. ASSUME NEW i \in 1..Len(r), r[i] \in AddrOf(v, a) PROVE r[i] \in AddrTrue(kernel[v], a)
    <3>1. r[i] # Done
      BY <2>2, DoneApart
    <3>2. listing = "addr"
      <4>1. r[i] \in Newlinks => r[i] \in LinkMessages /\ r[i].type = "newlink"
        BY DEF Newlinks
      <4> QED
        BY <1>2, <1>4, <2>2, <3>1, <4>1, OthersMessages
    <3>3. r[i] \in AddrMessages /\ r[i].type = "newaddr" /\ r[i].wire = w /\ kernel[w].has[r[i].addr] # "none"
      BY <1>5, <3>1, <3>2
    <3>4. v = w /\ r[i].addr = a
      BY <2>2, <3>3, OthersMessages
    <3> QED
      BY <3>3, <3>4 DEF AddrTrue, Messages
  <2>3. ASSUME NoneOf(r, AddrOf(v, a)), AddrNow(ifs[v], kernel[v], a, AddrAwaited(v))
        PROVE  AddrNow(ifs[v], kernel[v], a, AddrAwaited(v)')
    <3>1. CASE v = w /\ listing = "addr"
      <4>1. kernel[v].has[a] = "none"
        BY <1>5, <2>3, <3>1 DEF NoneOf
      <4> QED
        BY <2>3, <4>1 DEF AddrNow
    <3>2. CASE ~(v = w /\ listing = "addr")
      <4>1. AddrAwaited(v)' <=> AddrAwaited(v)
        BY <1>1, <1>2, <3>2 DEF AddrAwaited
      <4> QED
        BY <2>3, <4>1 DEF AddrNow
    <3> QED
      BY <3>1, <3>2
  <2> QED
    BY <1>2, <2>1, <2>2, <2>3, ConsistentJoined
<1> QED
  BY <1>1, <1>2, <1>6, <1>7, <1>8, <1>9, <1>10, <1>11, UnreadKeeps DEF IfInv

-----------------------------------------------------------------------------
LEMMA LinkEventInv == ASSUME IfInv, LinkEvent PROVE IfInv'
<1>1. /\ queue # <<>> /\ Head(queue) # Done /\ queue' = Tail(queue) /\ queue \in Seq(Messages)
      /\ UNCHANGED <<kernel, dump, listing>> /\ KernelOK /\ kernel \in [Wires -> Links]
      /\ listing \in {"iface", "addr", "done"} /\ dump \subseteq Wires
  BY DEF LinkEvent, IfInv, KernelOK
<1>2. /\ queue' \in Seq(Messages) /\ Len(queue') = Len(queue) - 1 /\ Len(queue) \in Nat /\ Len(queue) > 0
      /\ Head(queue) = queue[1] /\ Head(queue) \in Messages
      /\ \A i \in 1..Len(queue') : queue'[i] = queue[i + 1]
  BY <1>1, TailOf
<1>3. PICK m \in LinkMessages \cup AddrMessages : m = Head(queue)
  BY <1>1, <1>2 DEF Messages
<1>4. PICK w \in Wires : w = m.wire
  BY DEF LinkMessages, AddrMessages
<1>5. PICK c \in BOOLEAN : c <=> listing = "done"
  OBVIOUS
<1>6. (listing = "done") = c /\ (listing' = "done") = c
  BY <1>1, <1>5
<1>7. PICK h \in Handle(ifs[w], m, c) :
         /\ ifs' = [ifs EXCEPT ![w] = h] /\ refused' = (refused \/ Tried(ifs[w], h))
  BY <1>3, <1>4, <1>6 DEF LinkEvent
<1>8. ifs \in [Wires -> Ifs] /\ Whole(ifs[w], c) /\ \A v \in Wires : Whole(ifs[v], c)
  BY <1>6 DEF IfInv, IfsOK
<1>9. /\ Whole(h, c)
      /\ m.type = "newlink" => h.there /\ h.ok = m.up /\ AddrNames(h) = AddrNames(ifs[w])
      /\ m.type = "dellink" => ~h.there /\ ~h.ok /\ AddrNames(h) = {}
      /\ m.type \in {"newaddr", "deladdr"} => h.there = ifs[w].there /\ h.ok = ifs[w].ok
      /\ m.type = "newaddr" =>
            \A a : a \in AddrNames(h) <=> a \in AddrNames(ifs[w]) \/ (ifs[w].there /\ a = m.addr)
      /\ m.type = "deladdr" => \A a : a \in AddrNames(h) <=> a \in AddrNames(ifs[w]) /\ a # m.addr
  BY <1>7, <1>8, HandleFacts
<1>10. h \in Ifs /\ (~h.there => h = NoIf) /\ OneEach(h.addrs)
  BY <1>9 DEF Whole, Half
<1>11. ifs' \in [Wires -> Ifs] /\ ifs'[w] = h /\ \A v \in Wires : v # w => ifs'[v] = ifs[v]
  BY <1>7, <1>8, <1>10
<1>12. IfsOK'
  BY <1>6, <1>8, <1>9, <1>11 DEF IfsOK
<1>13. JoinedUnlessRefused'
  <2> SUFFICES ASSUME NEW v \in Wires, listing = "done", Relevant(ifs'[v]), ~refused' PROVE ifs'[v].joined
    BY <1>1 DEF JoinedUnlessRefused
  <2>1. ~refused /\ ~Tried(ifs[w], h)
    BY <1>7
  <2>2. CASE v # w
    BY <1>11, <2>1, <2>2 DEF IfInv, JoinedUnlessRefused
  <2>3. CASE v = w
    <3>1. Relevant(h) /\ h.ok /\ h.addrs # <<>>
      BY <1>10, <1>11, <2>3, RelevantFacts
    <3>2. h.there
      BY <1>10, <3>1, NoIfFacts
    <3> QED
      BY <1>11, <2>1, <2>3, <3>1, <3>2 DEF Tried
  <2> QED
    BY <2>2, <2>3
<1>14. DoneOnce'
  <2>1. \A i \in 1..Len(queue') : i + 1 \in 1..Len(queue) /\ queue'[i] = queue[i + 1]
    BY <1>2
  <2>2. DoneOnce
    BY DEF IfInv
  <2>3. ASSUME NEW i \in 1..Len(queue'), NEW j \in 1..Len(queue'), queue'[i] = Done, queue'[j] = Done PROVE i = j
    <3>1. i + 1 = j + 1
      BY <2>1, <2>2, <2>3 DEF DoneOnce
    <3> QED
      BY <3>1
  <2> QED
    BY <1>1, <2>1, <2>2, <2>3 DEF DoneOnce
<1>15. NewsWelcome'
  <2> SUFFICES ASSUME NEW i \in 1..Len(queue'), queue'[i].type = "newaddr"
               PROVE  \/ Ahead(queue', LinkOf(queue'[i].wire), Newlinks, ifs'[queue'[i].wire].there, i)
                      \/ listing = "iface" /\ (dump # {} \/ \E j \in 1..Len(queue') : j > i /\ queue'[j] = Done)
    BY <1>1 DEF NewsWelcome
  <2>1. i + 1 \in 1..Len(queue) /\ queue'[i] = queue[i + 1] /\ queue[i + 1] \in Messages
    BY <1>1, <1>2, ElementOf
  <2>2. PICK v \in Wires : v = queue[i + 1].wire
    <3>1. queue[i + 1] \in AddrMessages
      BY <2>1, DoneApart DEF Messages, LinkMessages
    <3> QED
      BY <3>1 DEF AddrMessages
  <2>3. \/ Ahead(queue, LinkOf(v), Newlinks, ifs[v].there, i + 1)
        \/ listing = "iface" /\ (dump # {} \/ \E j \in 1..Len(queue) : j > i + 1 /\ queue[j] = Done)
    BY <2>1, <2>2 DEF IfInv, NewsWelcome
  <2>4. CASE Ahead(queue, LinkOf(v), Newlinks, ifs[v].there, i + 1)
    <3>1. m \in LinkOf(v) /\ m \in Newlinks => ifs'[v].there
      BY <1>4, <1>9, <1>11 DEF LinkOf, Newlinks
    <3>2. m \notin LinkOf(v) /\ ifs[v].there => ifs'[v].there
      <4>1. CASE v # w
        BY <1>11, <4>1
      <4>2. CASE v = w
        <5>1. m \notin LinkOf(v) => m \in AddrMessages
          BY <1>4, <4>2, OthersMessages
        <5>2. m \in AddrMessages => m.type \in {"newaddr", "deladdr"}
          BY DEF AddrMessages
        <5> QED
          BY <1>9, <1>11, <4>2, <5>1, <5>2
      <4> QED
        BY <4>1, <4>2
    <3>3. i \in 1..Len(Tail(queue))
      BY <1>1
    <3>4. Ahead(Tail(queue), LinkOf(v), Newlinks, ifs'[v].there, i)
      BY <1>1, <1>3, <2>4, <3>1, <3>2, <3>3, BeforeTail
    <3> QED
      BY <1>1, <2>1, <2>2, <3>4
  <2>5. CASE listing = "iface" /\ (dump # {} \/ \E j \in 1..Len(queue) : j > i + 1 /\ queue[j] = Done)
    <3>1. ASSUME NEW j \in 1..Len(queue), j > i + 1, queue[j] = Done
          PROVE  \E k \in 1..Len(queue') : k > i /\ queue'[k] = Done
      <4>1. j - 1 \in 1..Len(queue') /\ j - 1 > i /\ (j - 1) + 1 = j
        BY <1>2, <3>1
      <4> QED
        BY <1>2, <3>1, <4>1
    <3> QED
      BY <2>5, <3>1
  <2> QED
    BY <2>3, <2>4, <2>5
<1>16. LinksKnown'
  <2> SUFFICES ASSUME NEW v \in Wires
               PROVE  Consistent(Tail(queue), LinkOf(v), LinkTrue(kernel[v]), LinkNow(ifs'[v], kernel[v], LinkAwaited(v)))
    BY <1>1 DEF LinksKnown, LinkAwaited
  <2>1. Consistent(queue, LinkOf(v), LinkTrue(kernel[v]), LinkNow(ifs[v], kernel[v], LinkAwaited(v)))
    BY DEF IfInv, LinksKnown
  <2>2. ASSUME m \in LinkOf(v), m \in LinkTrue(kernel[v]) PROVE LinkNow(ifs'[v], kernel[v], LinkAwaited(v))
    <3>1. v = w /\ m.type \in {"newlink", "dellink"} /\ (m.type = "newlink" <=> kernel[v].there) /\ m.up = kernel[v].up
      BY <1>4, <2>2 DEF LinkOf, LinkTrue, LinkMessages
    <3>2. kernel[v] \in Links /\ (kernel[v].up => kernel[v].there)
      BY <1>1 DEF KernelOK
    <3>3. h.there = kernel[v].there /\ h.ok = kernel[v].up
      BY <1>9, <1>10, <3>1, <3>2 DEF Links, Ifs
    <3> QED
      BY <1>11, <3>1, <3>3 DEF LinkNow
  <2>3. ASSUME m \notin LinkOf(v), LinkNow(ifs[v], kernel[v], LinkAwaited(v)) PROVE LinkNow(ifs'[v], kernel[v], LinkAwaited(v))
    <3>1. ifs'[v].there = ifs[v].there /\ ifs'[v].ok = ifs[v].ok
      <4>1. CASE v # w
        BY <1>11, <4>1
      <4>2. CASE v = w
        <5>1. m \in AddrMessages
          BY <1>4, <2>3, <4>2, OthersMessages
        <5>2. m.type \in {"newaddr", "deladdr"}
          BY <5>1 DEF AddrMessages
        <5> QED
          BY <1>9, <1>11, <4>2, <5>2
      <4> QED
        BY <4>1, <4>2
    <3> QED
      BY <2>3, <3>1 DEF LinkNow
  <2> QED
    BY <1>1, <1>3, <2>1, <2>2, <2>3, ConsistentTail
<1>17. AddrsKnown'
  <2> SUFFICES ASSUME NEW v \in Wires, NEW a \in Addrs
               PROVE  Consistent(Tail(queue), AddrOf(v, a), AddrTrue(kernel[v], a), AddrNow(ifs'[v], kernel[v], a, AddrAwaited(v)))
    BY <1>1 DEF AddrsKnown, AddrAwaited
  <2>1. Consistent(queue, AddrOf(v, a), AddrTrue(kernel[v], a), AddrNow(ifs[v], kernel[v], a, AddrAwaited(v)))
    BY DEF IfInv, AddrsKnown
  <2>2. ASSUME m \in AddrOf(v, a), m \in AddrTrue(kernel[v], a) PROVE AddrNow(ifs'[v], kernel[v], a, AddrAwaited(v))
    <3>1. /\ v = w /\ (m.type = "newaddr" <=> kernel[v].has[a] # "none")
          /\ m.type = "dellink" \/ (m \in AddrMessages /\ m.type \in {"newaddr", "deladdr"} /\ m.addr = a)
      BY <1>4, <2>2 DEF AddrOf, AddrTrue, AddrMessages
    <3>2. CASE m.type \in {"dellink", "deladdr"}
      BY <1>9, <1>11, <3>1, <3>2 DEF AddrNow
    <3>3. CASE m.type = "newaddr" /\ ifs[w].there
      BY <1>9, <1>11, <3>1, <3>3 DEF AddrNow
    <3>4. CASE m.type = "newaddr" /\ ~ifs[w].there
      <4>1. AddrNames(ifs[w]) = {}
        BY <1>8, <3>4, NoIfFacts DEF Whole
      <4>2. 1 \in 1..Len(queue) /\ queue[1] = m
        BY <1>2, <1>3
      <4>3. ~Ahead(queue, LinkOf(w), Newlinks, ifs[w].there, 1)
        <5>1. 1..(1 - 1) = {}
          OBVIOUS
        <5> QED
          BY <3>4, <5>1 DEF Ahead
      <4>4. listing = "iface"
        BY <1>4, <3>4, <4>2, <4>3 DEF IfInv, NewsWelcome
      <4> QED
        BY <1>9, <1>11, <3>1, <3>4, <4>1, <4>4 DEF AddrNow, AddrAwaited
    <3> QED
      BY <3>1, <3>2, <3>3, <3>4
  <2>3. ASSUME m \notin AddrOf(v, a), AddrNow(ifs[v], kernel[v], a, AddrAwaited(v))
        PROVE  AddrNow(ifs'[v], kernel[v], a, AddrAwaited(v))
    <3>1. a \in AddrNames(ifs'[v]) <=> a \in AddrNames(ifs[v])
      <4>1. CASE v # w
        BY <1>11, <4>1
      <4>2. CASE v = w /\ m \in LinkMessages
        <5>1. m.type = "newlink"
          BY <1>4, <2>3, <4>2, OthersMessages DEF LinkMessages
        <5> QED
          BY <1>9, <1>11, <4>2, <5>1
      <4>3. CASE v = w /\ m \in AddrMessages
        <5>1. m.addr # a /\ m.type \in {"newaddr", "deladdr"}
          BY <1>4, <2>3, <4>3, OthersMessages DEF AddrMessages
        <5> QED
          BY <1>9, <1>11, <4>3, <5>1
      <4> QED
        BY <4>1, <4>2, <4>3
    <3> QED
      BY <2>3, <3>1 DEF AddrNow
  <2> QED
    BY <1>1, <1>3, <2>1, <2>2, <2>3, ConsistentTail
<1>18. KernelOK'
  BY <1>1 DEF KernelOK
<1> QED
  BY <1>1, <1>2, <1>12, <1>13, <1>14, <1>15, <1>16, <1>17, <1>18 DEF IfInv

\* Nothing more is to come of a dump that is done.
LEMMA DumpOver ==
    ASSUME IfInv, queue # <<>>, Head(queue) = Done
    PROVE  /\ dump = {} /\ listing # "done" /\ \A i \in 1..Len(Tail(queue)) : Tail(queue)[i] # Done
<1>1. queue \in Seq(Messages) /\ DoneOnce
  BY DEF IfInv
<1>2. /\ Len(Tail(queue)) = Len(queue) - 1 /\ Len(queue) \in Nat /\ Len(queue) > 0 /\ queue[1] = Done
      /\ \A i \in 1..Len(Tail(queue)) : Tail(queue)[i] = queue[i + 1]
  BY <1>1, TailOf
<1>3. 1 \in 1..Len(queue) /\ \A i \in 1..Len(Tail(queue)) : i + 1 \in 1..Len(queue) /\ i + 1 # 1
  BY <1>2
<1> QED
  BY <1>1, <1>2, <1>3 DEF DoneOnce

\* New addresses are welcome still when Done has been read.
LEMMA NewsAfterDone ==
    ASSUME IfInv, queue # <<>>, Head(queue) = Done, queue' = Tail(queue),
           \A w \in Wires : ifs'[w].there = ifs[w].there
    PROVE  NewsWelcome'
<1>1. queue \in Seq(Messages) /\ dump = {} /\ \A i \in 1..Len(queue') : queue'[i] # Done
  BY DumpOver DEF IfInv
<1>2. /\ Len(queue') = Len(queue) - 1 /\ Len(queue) \in Nat /\ Len(queue) > 0
      /\ \A i \in 1..Len(queue') : queue'[i] = queue[i + 1]
  BY <1>1, TailOf
<1> SUFFICES ASSUME NEW i \in 1..Len(queue'), queue'[i].type = "newaddr"
             PROVE  Ahead(queue', LinkOf(queue'[i].wire), Newlinks, ifs'[queue'[i].wire].there, i)
  BY DEF NewsWelcome
<1>3. i + 1 \in 1..Len(queue) /\ queue'[i] = queue[i + 1] /\ queue[i + 1] \in Messages
  BY <1>1, <1>2, ElementOf
<1>4. PICK v \in Wires : v = queue[i + 1].wire
  <2>1. queue[i + 1] \in AddrMessages
    BY <1>3, DoneApart DEF Messages, LinkMessages
  <2> QED
    BY <2>1 DEF AddrMessages
<1>5. \A j \in 1..Len(queue) : j > i + 1 => queue[j] # Done
  <2>1. ASSUME NEW j \in 1..Len(queue), j > i + 1 PROVE queue[j] # Done
    <3>1. j - 1 \in 1..Len(queue') /\ (j - 1) + 1 = j
      BY <1>2, <2>1
    <3> QED
      BY <1>1, <1>2, <3>1
  <2> QED
    BY <2>1
<1>6. Ahead(queue, LinkOf(v), Newlinks, ifs[v].there, i + 1)
  BY <1>1, <1>3, <1>4, <1>5 DEF IfInv, NewsWelcome
<1>7. i \in 1..Len(Tail(queue)) /\ Done \notin LinkOf(v)
  BY DoneApart
<1>8. Ahead(Tail(queue), LinkOf(v), Newlinks, ifs'[v].there, i)
  BY <1>1, <1>6, <1>7, BeforeTail
<1> QED
  BY <1>3, <1>4, <1>8

LEMMA DumpDoneInv == ASSUME IfInv, DumpDone PROVE IfInv'
<1>1. /\ queue # <<>> /\ Head(queue) = Done /\ queue' = Tail(queue) /\ UNCHANGED kernel
      /\ queue \in Seq(Messages) /\ KernelOK /\ dump \subseteq Wires
      /\ IfsOK /\ ifs \in [Wires -> Ifs]
  BY DEF DumpDone, IfInv, IfsOK
<1>2. dump = {} /\ \A i \in 1..Len(queue') : queue'[i] # Done
  BY <1>1, DumpOver
<1>3. DoneOnce'
  BY <1>2 DEF DoneOnce
<1>4. queue' \in Seq(Messages)
  BY <1>1, TailOf
<1>5. KernelOK'
  BY <1>1 DEF KernelOK
<1>6. ASSUME ifs' \in [Wires -> Ifs],
             \A w \in Wires : /\ ifs'[w].there = ifs[w].there /\ ifs'[w].ok = ifs[w].ok
                              /\ AddrNames(ifs'[w]) = AddrNames(ifs[w]),
             listing = "iface" => listing' = "addr" /\ dump' = Wires
      PROVE  LinksKnown' /\ AddrsKnown' /\ NewsWelcome'
  <2>1. ASSUME NEW w \in Wires
        PROVE  Consistent(Tail(queue), LinkOf(w), LinkTrue(kernel[w]), LinkNow(ifs'[w], kernel[w], LinkAwaited(w)'))
    <3>1. Consistent(queue, LinkOf(w), LinkTrue(kernel[w]), LinkNow(ifs[w], kernel[w], LinkAwaited(w)))
      BY DEF IfInv, LinksKnown
    <3>2. LinkNow(ifs[w], kernel[w], LinkAwaited(w)) => LinkNow(ifs'[w], kernel[w], LinkAwaited(w)')
      BY <1>2, <1>6 DEF LinkNow, LinkAwaited
    <3> QED
      BY <1>1, <3>1, <3>2, ConsistentTail, DoneApart
  <2>2. ASSUME NEW w \in Wires, NEW a \in Addrs
        PROVE  Consistent(Tail(queue), AddrOf(w, a), AddrTrue(kernel[w], a), AddrNow(ifs'[w], kernel[w], a, AddrAwaited(w)'))
    <3>1. Consistent(queue, AddrOf(w, a), AddrTrue(kernel[w], a), AddrNow(ifs[w], kernel[w], a, AddrAwaited(w)))
      BY DEF IfInv, AddrsKnown
    <3>2. AddrNow(ifs[w], kernel[w], a, AddrAwaited(w)) => AddrNow(ifs'[w], kernel[w], a, AddrAwaited(w)')
      BY <1>2, <1>6 DEF AddrNow, AddrAwaited
    <3> QED
      BY <1>1, <3>1, <3>2, ConsistentTail, DoneApart
  <2>3. NewsWelcome'
    BY <1>1, <1>6, NewsAfterDone
  <2> QED
    BY <1>1, <2>1, <2>2, <2>3 DEF LinksKnown, AddrsKnown
<1>7. CASE listing = "iface"
  <2>1. listing' = "addr" /\ dump' = Wires /\ UNCHANGED <<ifs, refused>>
    BY <1>7 DEF DumpDone
  <2>2. IfsOK' /\ JoinedUnlessRefused'
    BY <1>1, <1>7, <2>1 DEF IfsOK, JoinedUnlessRefused
  <2>3. LinksKnown' /\ AddrsKnown' /\ NewsWelcome'
    BY <1>1, <1>6, <2>1
  <2> QED
    BY <1>3, <1>4, <1>5, <2>1, <2>2, <2>3 DEF IfInv
<1>8. CASE listing # "iface"
  <2>1. listing = "addr" /\ listing' = "done" /\ UNCHANGED dump
    BY <1>8 DEF DumpDone
  <2>2. PICK f \in [Wires -> UNION {Settle(ifs[w], TRUE) : w \in Wires}] :
           /\ \A w \in Wires : f[w] \in IF ifs[w].there THEN Settle(ifs[w], TRUE) ELSE {NoIf}
           /\ ifs' = f
           /\ refused' = (refused \/ \E w \in Wires : Tried(ifs[w], f[w]))
    BY <1>8 DEF DumpDone
  <2>3. ASSUME NEW w \in Wires
        PROVE  /\ Whole(f[w], TRUE) /\ f[w] \in Ifs /\ f[w].there = ifs[w].there /\ f[w].ok = ifs[w].ok
               /\ AddrNames(f[w]) = AddrNames(ifs[w])
    <3>1. Whole(ifs[w], FALSE) /\ ifs[w] \in Ifs
      BY <1>1, <2>1 DEF IfsOK
    <3>2. CASE ifs[w].there
      <4>1. Half(ifs[w], TRUE) /\ f[w] \in Settle(ifs[w], TRUE)
        BY <2>2, <3>1, <3>2 DEF Whole, Half
      <4>2. Alike(f[w], ifs[w]) /\ Whole(f[w], TRUE)
        BY <3>2, <4>1, SettleFacts
      <4>3. AddrNames(f[w]) = AddrNames(ifs[w])
        BY <3>1, <4>2, AlikeFacts
      <4> QED
        BY <4>2, <4>3 DEF Alike
    <3>3. CASE ~ifs[w].there
      <4>1. f[w] = NoIf /\ ifs[w] = NoIf
        BY <2>2, <3>1, <3>3 DEF Whole
      <4> QED
        BY <4>1, NoIfFacts
    <3> QED
      BY <3>2, <3>3
  <2>4. ifs' \in [Wires -> Ifs]
    BY <2>2, <2>3
  <2>5. IfsOK'
    BY <2>1, <2>2, <2>3, <2>4 DEF IfsOK
  <2>6. JoinedUnlessRefused'
    <3> SUFFICES ASSUME NEW w \in Wires, Relevant(f[w]), ~refused' PROVE f[w].joined
      BY <2>2 DEF JoinedUnlessRefused
    <3>1. ~Tried(ifs[w], f[w])
      BY <2>2
    <3>2. f[w] \in Ifs /\ OneEach(f[w].addrs) /\ (~f[w].there => f[w] = NoIf)
      BY <2>3 DEF Whole, Half
    <3>3. f[w].addrs # <<>> /\ f[w].there
      BY <3>2, RelevantFacts, NoIfFacts
    <3> QED
      BY <3>1, <3>3 DEF Tried
  <2>7. LinksKnown' /\ AddrsKnown' /\ NewsWelcome'
    BY <1>6, <2>1, <2>2, <2>3, <2>4
  <2> QED
    BY <1>1, <1>3, <1>4, <1>5, <2>1, <2>5, <2>6, <2>7 DEF IfInv
<1> QED
  BY <1>7, <1>8

LEMMA IfInitInv == IfInit => IfInv
<1> SUFFICES ASSUME IfInit PROVE IfInv
  OBVIOUS
<1>1. /\ churn = 0 /\ dump = Wires /\ queue = <<>> /\ listing = "iface"
      /\ ifs = [w \in Wires |-> NoIf] /\ refused = FALSE
  BY DEF IfInit
<1>2. queue \in Seq(Messages) /\ Len(queue) = 0 /\ 1..0 = {}
  BY <1>1
<1>3. KernelOK
  <2>1. NoLink \in Links /\ ~NoLink.up /\ ~NoLink.there /\ \A a \in Addrs : NoLink.has[a] = "none"
    <3>1. [a \in Addrs |-> "none"] \in [Addrs -> Scopes]
      BY DEF Scopes
    <3> QED
      BY <3>1 DEF NoLink, Links
  <2>2. ASSUME NEW on \in SUBSET Addrs,
               NEW k, k = [there |-> TRUE, up |-> TRUE, has |-> [a \in Addrs |-> IF a \in on THEN "fresh" ELSE "none"]]
        PROVE  k \in Links /\ k.there
    <3>1. [a \in Addrs |-> IF a \in on THEN "fresh" ELSE "none"] \in [Addrs -> Scopes]
      BY DEF Scopes
    <3> QED
      BY <2>2, <3>1 DEF Links
  <2>3. ASSUME NEW w \in Wires
        PROVE  /\ kernel[w] \in Links /\ (kernel[w].up => kernel[w].there)
               /\ (~kernel[w].there => \A a \in Addrs : kernel[w].has[a] = "none")
    <3>1. kernel[w] = NoLink \/ \E on \in SUBSET Addrs :
              kernel[w] = [there |-> TRUE, up |-> TRUE, has |-> [a \in Addrs |-> IF a \in on THEN "fresh" ELSE "none"]]
      BY DEF IfInit
    <3> QED
      BY <2>1, <2>2, <3>1
  <2>4. kernel = [w \in Wires |-> kernel[w]]
    BY DEF IfInit
  <2> QED
    BY <2>3, <2>4 DEF KernelOK
<1>4. IfsOK
  BY <1>1, NoIfFacts DEF IfsOK
<1>5. JoinedUnlessRefused /\ DoneOnce /\ NewsWelcome
  BY <1>1, <1>2 DEF JoinedUnlessRefused, DoneOnce, NewsWelcome
<1>6. LinksKnown
  BY <1>1, <1>2 DEF LinksKnown, Consistent, LastOf, LinkNow, LinkAwaited, NoIf
<1>7. AddrsKnown
  BY <1>1, <1>2, NoIfFacts DEF AddrsKnown, Consistent, LastOf, AddrNow, AddrAwaited
<1> QED
  BY <1>1, <1>2, <1>3, <1>4, <1>5, <1>6, <1>7 DEF IfInv

LEMMA IfStep == IfInv /\ [IfNext]_wireVars => IfInv'
<1> SUFFICES ASSUME IfInv, [IfNext]_wireVars PROVE IfInv'
  OBVIOUS
<1>1. CASE UNCHANGED wireVars
  BY <1>1 DEF IfInv, wireVars, KernelOK, IfsOK, JoinedUnlessRefused, DoneOnce, NewsWelcome, LinksKnown, AddrsKnown,
              LinkAwaited, AddrAwaited
<1>2. CASE \E w \in Wires : ChangeLink(w)
  BY <1>2, ChangeLinkInv
<1>3. CASE \E w \in Wires, a \in Addrs : ChangeAddress(w, a)
  BY <1>3, ChangeAddressInv
<1>4. CASE DumpNext
  BY <1>4, DumpNextInv
<1>5. CASE LinkEvent
  BY <1>5, LinkEventInv
<1>6. CASE DumpDone
  BY <1>6, DumpDoneInv
<1> QED
  BY <1>1, <1>2, <1>3, <1>4, <1>5, <1>6 DEF IfNext

LEMMA NamesCounted ==
    ASSUME NEW h \in Ifs, OneEach(h.addrs)
    PROVE  Cardinality(AddrNames(h)) = Len(h.addrs)
<1>1. PICK n \in Nat : n = Len(h.addrs)
  BY DEF Ifs, AddressesOf
<1>2. PICK f : f = [i \in 1..n |-> h.addrs[i].addr]
  OBVIOUS
<1>3. f \in [1..n -> AddrNames(h)] /\ \A i \in 1..n : f[i] = h.addrs[i].addr
  BY <1>1, <1>2, NamesAre
<1>4. f \in Bijection(1..n, AddrNames(h))
  <2>1. f \in Injection(1..n, AddrNames(h))
    BY <1>1, <1>3 DEF OneEach, Injection, IsInjective
  <2>2. \A a \in AddrNames(h) : \E i \in 1..n : f[i] = a
    BY <1>1, <1>3, NamesAre
  <2> QED
    BY <1>3, <2>1, <2>2 DEF Bijection, Surjection
<1>5. ExistsBijection(1..n, AddrNames(h))
  BY <1>4 DEF ExistsBijection
<1> QED
  BY <1>1, <1>5, FS_CountingElements

(***************************************************************************)
(* For any links and addresses, and however they change while the kernel   *)
(* dumps them: when nothing is left to read the server knows what there    *)
(* is, it has joined with the best address it has, announces exactly where *)
(* it is relevant and not refused, and publishes the best addresses only.  *)
(***************************************************************************)
THEOREM InterfacesCorrect == IfSpec => []InterfacesSafe
<1>1. IfInv => InterfacesSafe
  <2> SUFFICES ASSUME IfInv PROVE InterfacesSafe
    OBVIOUS
  <2>1. ASSUME NEW w \in Wires
        PROVE  /\ ifs[w] \in Ifs /\ OneEach(ifs[w].addrs) /\ (ifs[w].joined => ifs[w].announcing)
               /\ (ifs[w].announcing => listing = "done") /\ (~ifs[w].there => ifs[w] = NoIf)
               /\ (ifs[w].joined => Best(ifs[w])) /\ (ifs[w].announcing => Relevant(ifs[w]))
               /\ ifs[w].pub = Offered(ifs[w], listing = "done")
    BY DEF IfInv, IfsOK, Whole, Half
  <2>2. IfTypeOK
    BY <2>1, NamesCounted DEF IfInv, IfTypeOK, Ifs, AddressesOf
  <2>3. JoinedWithBest
    BY <2>1 DEF JoinedWithBest, Best
  <2>4. AnnouncesWhereRelevant
    BY <2>1 DEF AnnouncesWhereRelevant, IfInv, JoinedUnlessRefused
  <2>5. BestPublished
    BY <2>1 DEF BestPublished, Offered
  <2>6. KnowsKernel
    <3> SUFFICES ASSUME listing = "done", queue = <<>>, NEW w \in Wires
                 PROVE  /\ ifs[w].there = kernel[w].there /\ ifs[w].ok = kernel[w].up
                        /\ \A a \in Addrs : (a \in AddrNames(ifs[w])) = (kernel[w].has[a] # "none")
      BY DEF KnowsKernel
    <3>1. \A S : NoneOf(queue, S)
      <4>1. Len(queue) = 0 /\ 1..0 = {}
        OBVIOUS
      <4> QED
        BY <4>1 DEF NoneOf
    <3>2. LinkNow(ifs[w], kernel[w], LinkAwaited(w)) /\ ~LinkAwaited(w)
      BY <3>1 DEF IfInv, LinksKnown, Consistent, LinkAwaited
    <3>3. \A a \in Addrs : AddrNow(ifs[w], kernel[w], a, AddrAwaited(w)) /\ ~AddrAwaited(w)
      BY <3>1 DEF IfInv, AddrsKnown, Consistent, AddrAwaited
    <3> QED
      BY <3>2, <3>3 DEF LinkNow, AddrNow
  <2> QED
    BY <2>2, <2>3, <2>4, <2>5, <2>6 DEF InterfacesSafe
<1> QED
  BY <1>1, IfInitInv, IfStep, PTL DEF IfSpec

-----------------------------------------------------------------------------
(***************************************************************************)
(* TimeEvents                                                              *)
(***************************************************************************)
(* The times and the ranks a queue is ordered by, a queue, one with the    *)
(* nodes of another in some order.                                         *)
(***************************************************************************)
Times == [Events -> Int]

Queue(h) == h \in Seq(Events) /\ Unique(h)

Permuted(g, h) ==
    /\ Queue(g) /\ Len(g) = Len(h)
    /\ \A x : (\E i \in 1..Len(g) : g[i] = x) <=> (\E i \in 1..Len(h) : h[i] = x)

\* A node and its parent are in order.
InOrder(h, ex, lr, j) == ~Before(ex, lr, h[j], h[j \div 2])

Ordered(h, ex, lr) == \A j \in 2..Len(h) : InOrder(h, ex, lr, j)

(***************************************************************************)
(* The node at i may be out of place: all nodes but it and its children    *)
(* are in order with their parents, and its children with its parent.      *)
(* Then, once it has risen, all but its children are.                      *)
(***************************************************************************)
Grandchildren(h, ex, lr, i) ==
    i > 1 => \A j \in 2..Len(h) : j \div 2 = i => ~Before(ex, lr, h[j], h[i \div 2])

OrderedBut(h, ex, lr, i) ==
    /\ \A j \in 2..Len(h) : j # i /\ j \div 2 # i => InOrder(h, ex, lr, j)
    /\ Grandchildren(h, ex, lr, i)

OrderedAbove(h, ex, lr, i) ==
    /\ \A j \in 2..Len(h) : j \div 2 # i => InOrder(h, ex, lr, j)
    /\ Grandchildren(h, ex, lr, i)

LEMMA Parents ==
    ASSUME NEW j \in Nat, j > 1
    PROVE  /\ j \div 2 \in Nat /\ j \div 2 >= 1 /\ j \div 2 < j
           /\ j = 2 * (j \div 2) \/ j = 2 * (j \div 2) + 1
  OBVIOUS

LEMMA BeforeIsStrict ==
    ASSUME NEW ex \in Times, NEW lr \in Times
    PROVE  /\ \A a, b \in Events : Before(ex, lr, a, b) => ~Before(ex, lr, b, a)
           /\ \A a, b, c \in Events : ~Before(ex, lr, a, b) /\ ~Before(ex, lr, b, c) => ~Before(ex, lr, a, c)
<1>1. \A a \in Events : ex[a] \in Int /\ lr[a] \in Int
  BY DEF Times
<1> QED
  BY <1>1 DEF Before

LEMMA Exchanged ==
    ASSUME NEW h, Queue(h), NEW i \in 1..Len(h), NEW j \in 1..Len(h), NEW g, g = Exchange(h, i, j), i # j
    PROVE  /\ Permuted(g, h) /\ g[i] = h[j] /\ g[j] = h[i]
           /\ \A k \in 1..Len(h) : k # i /\ k # j => g[k] = h[k]
<1>1. PICK n \in Nat : n = Len(h)
  BY DEF Queue
<1>2. h \in [1..n -> Events] /\ DOMAIN h = 1..n
  BY <1>1 DEF Queue
<1>3. PICK f : f = [h EXCEPT ![i] = h[j]]
  OBVIOUS
<1>4. f \in [1..n -> Events] /\ \A k \in 1..n : f[k] = IF k = i THEN h[j] ELSE h[k]
  BY <1>1, <1>2, <1>3
<1>5. g = [f EXCEPT ![j] = h[i]]
  BY <1>3 DEF Exchange
<1>6. g \in [1..n -> Events] /\ \A k \in 1..n : g[k] = IF k = j THEN h[i] ELSE f[k]
  BY <1>1, <1>2, <1>4, <1>5
<1>7. g \in Seq(Events) /\ Len(g) = n
  BY <1>1, <1>6
<1>8. g[i] = h[j] /\ g[j] = h[i] /\ \A k \in 1..n : k # i /\ k # j => g[k] = h[k]
  BY <1>1, <1>4, <1>6
<1>9. Unique(g)
  <2> SUFFICES ASSUME NEW a \in 1..n, NEW b \in 1..n, g[a] = g[b] PROVE a = b
    BY <1>7 DEF Unique
  <2>1. \A k, l \in 1..n : h[k] = h[l] => k = l
    BY <1>1 DEF Queue, Unique
  <2>2. \A k \in 1..n : g[k] = h[IF k = i THEN j ELSE IF k = j THEN i ELSE k]
    BY <1>1, <1>8
  <2>3. (IF a = i THEN j ELSE IF a = j THEN i ELSE a) = (IF b = i THEN j ELSE IF b = j THEN i ELSE b)
    BY <1>1, <2>1, <2>2
  <2> QED
    BY <2>3
<1>10. \A x : (\E k \in 1..n : g[k] = x) <=> (\E k \in 1..n : h[k] = x)
  <2>1. \A k \in 1..n : \E l \in 1..n : g[k] = h[l]
    BY <1>1, <1>8
  <2>2. \A k \in 1..n : \E l \in 1..n : h[k] = g[l]
    BY <1>1, <1>8
  <2> SUFFICES ASSUME NEW x PROVE (\E k \in 1..n : g[k] = x) <=> (\E k \in 1..n : h[k] = x)
    OBVIOUS
  <2>3. ASSUME NEW k \in 1..n, g[k] = x PROVE \E l \in 1..n : h[l] = x
    BY <2>1, <2>3
  <2>4. ASSUME NEW k \in 1..n, h[k] = x PROVE \E l \in 1..n : g[l] = x
    BY <2>2, <2>4
  <2> QED
    BY <2>3, <2>4
<1> QED
  BY <1>1, <1>7, <1>8, <1>9, <1>10 DEF Permuted, Queue

LEMMA PermutedTwice == ASSUME NEW f, NEW g, NEW h, Permuted(f, g), Permuted(g, h) PROVE Permuted(f, h)
  BY DEF Permuted
LEMMA PermutedSelf == ASSUME NEW h, Queue(h) PROVE Permuted(h, h)
  BY DEF Permuted

\* A step up: where it cannot go further, the node is in order with its parent.
Raised(h, ex, lr, i) == i > 1 => InOrder(h, ex, lr, i)

LEMMA RaiseFacts ==
    ASSUME NEW ex \in Times, NEW lr \in Times, NEW h, Queue(h), NEW i \in 1..Len(h), OrderedBut(h, ex, lr, i),
           NEW p, p = Raise(<<h, i>>, ex, lr)
    PROVE  \/ p = <<h, i>> /\ Raised(h, ex, lr, i)
           \/ \E g, j : p = <<g, j>> /\ Permuted(g, h) /\ j \in 1..Len(g) /\ j < i /\ OrderedBut(g, ex, lr, j)
<1>1. CASE ~(i > 1 /\ Before(ex, lr, h[i], h[i \div 2]))
  BY <1>1 DEF Raise, Raised, InOrder
<1>2. CASE i > 1 /\ Before(ex, lr, h[i], h[i \div 2])
  <2>1. PICK n \in Nat : n = Len(h)
    BY DEF Queue
  <2>2. PICK j : j = i \div 2
    OBVIOUS
  <2>3. i \in Nat /\ j \in 1..n /\ j < i
    BY <1>2, <2>1, <2>2, Parents
  <2>4. PICK g : g = Exchange(h, i, j)
    OBVIOUS
  <2>5. p = <<g, j>>
    BY <1>2, <2>2, <2>4 DEF Raise
  <2>6. Permuted(g, h) /\ g[i] = h[j] /\ g[j] = h[i] /\ \A k \in 1..n : k # i /\ k # j => g[k] = h[k]
    BY <2>1, <2>3, <2>4, Exchanged
  <2>7. Len(g) = n /\ \A k \in 1..n : h[k] \in Events /\ g[k] \in Events
    <3>1. g \in Seq(Events) /\ h \in Seq(Events) /\ Len(g) = n
      BY <2>1, <2>6 DEF Permuted, Queue
    <3> QED
      BY <2>1, <3>1, ElementOf
  <2>8. /\ \A k \in 2..n : k # i /\ k \div 2 # i => ~Before(ex, lr, h[k], h[k \div 2])
        /\ \A k \in 2..n : k \div 2 = i => ~Before(ex, lr, h[k], h[j])
    BY <1>2, <2>1, <2>2 DEF OrderedBut, Grandchildren, InOrder
  <2>9. \A k \in 2..n : k \in 1..n /\ k \div 2 \in 1..n /\ k \div 2 < k
    BY <2>1, Parents
  <2>10. ASSUME NEW k \in 2..n, k # j, k \div 2 # j PROVE ~Before(ex, lr, g[k], g[k \div 2])
    <3>1. k # i
      BY <2>2, <2>10
    <3>2. k \div 2 # i => g[k] = h[k] /\ g[k \div 2] = h[k \div 2] /\ ~Before(ex, lr, h[k], h[k \div 2])
      BY <2>6, <2>8, <2>9, <2>10, <3>1
    <3>3. k \div 2 = i => g[k] = h[k] /\ g[k \div 2] = h[j] /\ ~Before(ex, lr, h[k], h[j])
      BY <2>6, <2>8, <2>9, <2>10, <3>1
    <3> QED
      BY <3>2, <3>3
  <2>11. ASSUME j > 1, NEW k \in 2..n, k \div 2 = j PROVE ~Before(ex, lr, g[k], g[j \div 2])
    <3>1. PICK l : l = j \div 2
      OBVIOUS
    <3>2. j \in 2..n /\ l \in 1..n /\ l # i /\ l # j /\ j # i
      BY <2>3, <2>9, <2>11, <3>1
    <3>3. g[l] = h[l] /\ ~Before(ex, lr, h[j], h[l])
      BY <2>6, <2>8, <3>1, <3>2
    <3>4. k = i => ~Before(ex, lr, g[k], g[l])
      BY <2>6, <3>3
    <3>5. k # i => ~Before(ex, lr, g[k], g[l])
      <4> SUFFICES ASSUME k # i PROVE ~Before(ex, lr, g[k], g[l])
        OBVIOUS
      <4>1. k # j /\ k \in 1..n
        BY <2>9, <2>11
      <4>2. g[k] = h[k] /\ ~Before(ex, lr, h[k], h[j])
        BY <2>6, <2>8, <2>11, <3>2, <4>1
      <4>3. h[k] \in Events /\ h[j] \in Events /\ h[l] \in Events
        BY <2>3, <2>7, <3>2, <4>1
      <4> QED
        BY <3>3, <4>2, <4>3, BeforeIsStrict
    <3> QED
      BY <3>1, <3>4, <3>5
  <2>12. OrderedBut(g, ex, lr, j)
    BY <2>7, <2>10, <2>11 DEF OrderedBut, Grandchildren, InOrder
  <2> QED
    BY <2>3, <2>5, <2>6, <2>7, <2>12
<1> QED
  BY <1>1, <1>2

\* A step down: where it cannot go further, the queue is in order.
LEMMA SinkFacts ==
    ASSUME NEW ex \in Times, NEW lr \in Times, NEW h, Queue(h), NEW i \in 1..Len(h), OrderedAbove(h, ex, lr, i),
           NEW p, p = Sink(<<h, i>>, ex, lr)
    PROVE  \/ p = <<h, i>> /\ Ordered(h, ex, lr)
           \/ \E g, j : p = <<g, j>> /\ Permuted(g, h) /\ j \in 1..Len(g) /\ j > i /\ OrderedAbove(g, ex, lr, j)
<1>1. PICK n \in Nat : n = Len(h)
  BY DEF Queue
<1>2. \A k \in 1..n : h[k] \in Events
  BY <1>1 DEF Queue
<1>3. PICK c : c = Lesser(h, ex, lr, i)
  OBVIOUS
<1>4. \A k \in 2..n : k \in 1..n /\ k \div 2 \in 1..n /\ k \div 2 < k /\ (k = 2 * (k \div 2) \/ k = 2 * (k \div 2) + 1)
  BY <1>1, Parents
<1>5. (2 * i) \div 2 = i /\ (2 * i + 1) \div 2 = i
  BY <1>1
<1>6. ASSUME 2 * i <= n
      PROVE  /\ c \in 2..n /\ c > i /\ c \div 2 = i
             /\ \A k \in 2..n : k \div 2 = i => ~Before(ex, lr, h[k], h[c])
  <2>1. \A k \in 2..n : k \div 2 = i => k = 2 * i \/ k = 2 * i + 1
    BY <1>4
  <2>2. 2 * i \in 2..n /\ (2 * i + 1 <= n => 2 * i + 1 \in 2..n)
    BY <1>1, <1>6
  <2>3. CASE 2 * i + 1 <= n /\ Before(ex, lr, h[2 * i + 1], h[2 * i])
    <3>1. c = 2 * i + 1
      BY <1>1, <1>3, <2>3 DEF Lesser
    <3>2. h[2 * i] \in Events /\ h[2 * i + 1] \in Events
      BY <1>2, <1>4, <2>2, <2>3
    <3>3. ~Before(ex, lr, h[2 * i], h[c]) /\ ~Before(ex, lr, h[c], h[c])
      BY <2>3, <3>1, <3>2, BeforeIsStrict
    <3>4. c \in 2..n /\ c > i /\ c \div 2 = i
      BY <1>1, <1>5, <2>2, <2>3, <3>1
    <3> QED
      BY <2>1, <3>1, <3>3, <3>4
  <2>4. CASE ~(2 * i + 1 <= n /\ Before(ex, lr, h[2 * i + 1], h[2 * i]))
    <3>1. c = 2 * i
      BY <1>1, <1>3, <2>4 DEF Lesser
    <3>2. h[c] \in Events
      BY <1>2, <1>4, <2>2, <3>1
    <3>3. ~Before(ex, lr, h[c], h[c]) /\ (2 * i + 1 <= n => ~Before(ex, lr, h[2 * i + 1], h[c]))
      BY <2>4, <3>1, <3>2, BeforeIsStrict
    <3>4. c \in 2..n /\ c > i /\ c \div 2 = i
      BY <1>1, <1>5, <2>2, <3>1
    <3>5. ASSUME NEW k \in 2..n, k \div 2 = i PROVE ~Before(ex, lr, h[k], h[c])
      <4>1. k = c \/ (k = 2 * i + 1 /\ 2 * i + 1 <= n)
        BY <2>1, <3>1, <3>5
      <4> QED
        BY <3>3, <4>1
    <3> QED
      BY <3>4, <3>5
  <2> QED
    BY <2>3, <2>4
<1>7. \A k \in 2..n : k \div 2 # i => ~Before(ex, lr, h[k], h[k \div 2])
  BY <1>1 DEF OrderedAbove, InOrder
<1>8. CASE ~(2 * i <= n /\ Before(ex, lr, h[c], h[i]))
  <2>1. p = <<h, i>>
    BY <1>1, <1>3, <1>8 DEF Sink
  <2>2. ASSUME NEW k \in 2..n, k \div 2 = i PROVE ~Before(ex, lr, h[k], h[k \div 2])
    <3>1. 2 * i <= n
      BY <1>1, <1>4, <2>2
    <3>2. c \in 2..n /\ ~Before(ex, lr, h[k], h[c]) /\ ~Before(ex, lr, h[c], h[i])
      BY <1>6, <1>8, <2>2, <3>1
    <3>3. h[k] \in Events /\ h[c] \in Events /\ h[i] \in Events
      BY <1>1, <1>2, <1>4, <3>2
    <3> QED
      BY <2>2, <3>2, <3>3, BeforeIsStrict
  <2> QED
    BY <1>1, <1>7, <2>1, <2>2 DEF Ordered, InOrder
<1>9. CASE 2 * i <= n /\ Before(ex, lr, h[c], h[i])
  <2>1. /\ c \in 2..n /\ c > i /\ c \div 2 = i
        /\ \A k \in 2..n : k \div 2 = i => ~Before(ex, lr, h[k], h[c])
    BY <1>6, <1>9
  <2>2. PICK g : g = Exchange(h, i, c)
    OBVIOUS
  <2>3. p = <<g, c>>
    BY <1>1, <1>3, <1>9, <2>2 DEF Sink
  <2>4. i \in 1..n /\ c \in 1..n /\ i # c /\ i \in Nat /\ c \in Nat
    BY <1>1, <1>4, <2>1
  <2>5. Permuted(g, h) /\ g[i] = h[c] /\ g[c] = h[i] /\ \A k \in 1..n : k # i /\ k # c => g[k] = h[k]
    BY <1>1, <2>2, <2>4, Exchanged
  <2>6. Len(g) = n
    BY <1>1, <2>5 DEF Permuted
  <2>7. ASSUME NEW k \in 2..n, k \div 2 # c PROVE ~Before(ex, lr, g[k], g[k \div 2])
    <3>1. PICK l : l = k \div 2
      OBVIOUS
    <3>2. l \in 1..n /\ k \in 1..n /\ l # k /\ l # c
      BY <1>4, <2>7, <3>1
    <3>3. CASE k = c
      <4>1. l = i
        BY <2>1, <3>1, <3>3
      <4>2. h[c] \in Events /\ h[i] \in Events
        BY <1>2, <2>4
      <4> QED
        BY <1>9, <2>5, <3>1, <3>3, <4>1, <4>2, BeforeIsStrict
    <3>4. CASE k # c /\ l = i
      <4>1. g[k] = h[k] /\ g[l] = h[c]
        BY <2>5, <3>2, <3>4
      <4> QED
        BY <2>1, <3>1, <3>4, <4>1
    <3>5. CASE k = i
      <4>1. g[k] = h[c] /\ g[l] = h[l]
        BY <2>5, <3>2, <3>5
      <4>2. i > 1
        BY <2>4, <3>5
      <4>3. ~Before(ex, lr, h[c], h[l])
        BY <1>1, <2>1, <3>1, <3>5, <4>2 DEF OrderedAbove, Grandchildren
      <4> QED
        BY <3>1, <4>1, <4>3
    <3>6. CASE k # c /\ k # i /\ l # i
      <4>1. g[k] = h[k] /\ g[l] = h[l]
        BY <2>5, <3>2, <3>6
      <4> QED
        BY <1>7, <3>1, <3>6, <4>1
    <3> QED
      BY <3>3, <3>4, <3>5, <3>6
  <2>8. ASSUME NEW k \in 2..n, k \div 2 = c PROVE ~Before(ex, lr, g[k], g[c \div 2])
    <3>1. k \in 1..n /\ k > c
      BY <1>4, <2>8
    <3>2. k # i /\ k # c
      BY <2>1, <2>4, <3>1
    <3>3. g[k] = h[k] /\ ~Before(ex, lr, h[k], h[c])
      BY <1>7, <2>4, <2>5, <2>8, <3>1, <3>2
    <3> QED
      BY <2>1, <2>5, <3>3
  <2>9. OrderedAbove(g, ex, lr, c)
    BY <2>6, <2>7, <2>8 DEF OrderedAbove, Grandchildren, InOrder
  <2> QED
    BY <2>1, <2>3, <2>4, <2>5, <2>6, <2>9
<1> QED
  BY <1>8, <1>9

LEMMA RootFirst ==
    ASSUME NEW ex \in Times, NEW lr \in Times, NEW h, Queue(h), Ordered(h, ex, lr)
    PROVE  \A j \in 1..Len(h) : ex[h[1]] <= ex[h[j]]
<1>1. PICK n \in Nat : n = Len(h)
  BY DEF Queue
<1> DEFINE Wrong == {j \in 1..n : ~(ex[h[1]] <= ex[h[j]])}
<1>2. \A k \in 1..n : ex[h[k]] \in Int /\ lr[h[k]] \in Int
  BY <1>1 DEF Queue, Times
<1> SUFFICES ASSUME Wrong # {} PROVE FALSE
  BY <1>1
<1>3. PICK j \in Wrong : \A k \in Wrong : j <= k
  BY LeastNatural, Wrong \subseteq Nat
<1>4. j \in 2..n
  BY <1>2, <1>3
<1>5. j \div 2 \in 1..n /\ j \div 2 < j
  BY <1>4, Parents
<1>6. ex[h[1]] <= ex[h[j \div 2]]
  BY <1>3, <1>5
<1>7. ex[h[j \div 2]] <= ex[h[j]]
  BY <1>1, <1>2, <1>4, <1>5 DEF Ordered, InOrder, Before
<1> QED
  BY <1>2, <1>3, <1>4, <1>5, <1>6, <1>7

\* The queues and places a node can be at on its way.
OnTheWay(h, ex, lr) ==
    {p \in Seq(Events) \X (1..Len(h)) : Permuted(p[1], h) /\ OrderedBut(p[1], ex, lr, p[2])}

OnTheWayDown(h, ex, lr) ==
    {p \in Seq(Events) \X (1..Len(h)) : Permuted(p[1], h) /\ OrderedAbove(p[1], ex, lr, p[2])}

\* Up's and Down's functions.
UpRec(f, h, ex, lr, i) == [n \in 0..Len(h) |-> IF n = 0 THEN <<h, i>> ELSE Raise(f[n - 1], ex, lr)]

DownRec(f, p, ex, lr) == [n \in 0..Len(p[1]) |-> IF n = 0 THEN p ELSE Sink(f[n - 1], ex, lr)]

LEMMA RaiseStays ==
    ASSUME NEW ex \in Times, NEW lr \in Times, NEW h, Queue(h), NEW p \in OnTheWay(h, ex, lr),
           NEW q, q = Raise(p, ex, lr)
    PROVE  q \in OnTheWay(h, ex, lr) /\ ((q = p /\ Raised(p[1], ex, lr, p[2])) \/ q[2] < p[2])
<1>1. PICK g, i : p = <<g, i>> /\ g \in Seq(Events) /\ i \in 1..Len(h) /\ Permuted(g, h)
                 /\ OrderedBut(g, ex, lr, i)
  BY DEF OnTheWay
<1>2. Queue(g) /\ Len(g) = Len(h)
  BY <1>1 DEF Permuted
<1>3. CASE q = <<g, i>> /\ Raised(g, ex, lr, i)
  BY <1>1, <1>3
<1>4. CASE \E f, j : q = <<f, j>> /\ Permuted(f, g) /\ j \in 1..Len(f) /\ j < i /\ OrderedBut(f, ex, lr, j)
  <2>1. PICK f, j : q = <<f, j>> /\ Permuted(f, g) /\ j \in 1..Len(f) /\ j < i /\ OrderedBut(f, ex, lr, j)
    BY <1>4
  <2>2. Permuted(f, h) /\ f \in Seq(Events) /\ Len(f) = Len(h)
    BY <1>1, <1>2, <2>1, PermutedTwice DEF Permuted, Queue
  <2>3. q \in OnTheWay(h, ex, lr)
    BY <2>1, <2>2 DEF OnTheWay
  <2> QED
    BY <1>1, <2>1, <2>3
<1> QED
  BY <1>1, <1>2, <1>3, <1>4, RaiseFacts

LEMMA SinkStays ==
    ASSUME NEW ex \in Times, NEW lr \in Times, NEW h, Queue(h), NEW p \in OnTheWayDown(h, ex, lr),
           NEW q, q = Sink(p, ex, lr)
    PROVE  q \in OnTheWayDown(h, ex, lr) /\ ((q = p /\ Ordered(p[1], ex, lr)) \/ q[2] > p[2])
<1>1. PICK g, i : p = <<g, i>> /\ g \in Seq(Events) /\ i \in 1..Len(h) /\ Permuted(g, h)
                 /\ OrderedAbove(g, ex, lr, i)
  BY DEF OnTheWayDown
<1>2. Queue(g) /\ Len(g) = Len(h)
  BY <1>1 DEF Permuted
<1>3. CASE q = <<g, i>> /\ Ordered(g, ex, lr)
  BY <1>1, <1>3
<1>4. CASE \E f, j : q = <<f, j>> /\ Permuted(f, g) /\ j \in 1..Len(f) /\ j > i /\ OrderedAbove(f, ex, lr, j)
  <2>1. PICK f, j : q = <<f, j>> /\ Permuted(f, g) /\ j \in 1..Len(f) /\ j > i /\ OrderedAbove(f, ex, lr, j)
    BY <1>4
  <2>2. Permuted(f, h) /\ f \in Seq(Events) /\ Len(f) = Len(h)
    BY <1>1, <1>2, <2>1, PermutedTwice DEF Permuted, Queue
  <2>3. q \in OnTheWayDown(h, ex, lr)
    BY <2>1, <2>2 DEF OnTheWayDown
  <2> QED
    BY <1>1, <2>1, <2>3
<1> QED
  BY <1>1, <1>2, <1>3, <1>4, SinkFacts

LEMMA UpFacts ==
    ASSUME NEW ex \in Times, NEW lr \in Times, NEW h, Queue(h), NEW i \in 1..Len(h), OrderedBut(h, ex, lr, i),
           NEW q, q = Up(h, ex, lr, i)
    PROVE  q \in OnTheWay(h, ex, lr) /\ Raised(q[1], ex, lr, q[2])
<1> PICK n \in Nat : n = Len(h)
  BY DEF Queue
<1> PICK W : W = OnTheWay(h, ex, lr)
  OBVIOUS
<1>1. <<h, i>> \in W
  BY PermutedSelf DEF OnTheWay, Queue
<1> DEFINE step == [p \in W \X (1..n) |-> Raise(p[1], ex, lr)]
<1>2. step \in [W \X (1..n) -> W]
  BY RaiseStays
<1>3. \A p \in W, k \in 1..n : step[<<p, k>>] = Raise(p, ex, lr)
  OBVIOUS
<1> HIDE DEF step
<1>4. \E f : f = UpRec(f, h, ex, lr, i)
  <2>1. PICK f : Folded(f, W, <<h, i>>, step, n)
    BY <1>1, <1>2, FoldExists
  <2>2. f \in [0..n -> W] /\ f[0] = <<h, i>> /\ \A k \in 1..n : f[k] = step[<<f[k - 1], k>>]
    BY <2>1 DEF Folded
  <2>3. ASSUME NEW k \in 0..n
        PROVE  f[k] = IF k = 0 THEN <<h, i>> ELSE Raise(f[k - 1], ex, lr)
    <3>1. k # 0 => k \in 1..n /\ f[k - 1] \in W
      BY <2>2
    <3> QED
      BY <1>3, <2>2, <3>1
  <2>4. f = [k \in 0..n |-> f[k]]
    BY <2>2
  <2> QED
    BY <2>3, <2>4 DEF UpRec
<1> DEFINE f == CHOOSE g : g = UpRec(g, h, ex, lr, i)
<1>5. q = f[n]
  BY DEF Up, UpRec
<1>6. f = UpRec(f, h, ex, lr, i)
  BY <1>4
<1> HIDE DEF f
<1>7. f[0] = <<h, i>> /\ \A k \in 1..n : f[k] = Raise(f[k - 1], ex, lr)
  <2>1. \A k \in 0..n : f[k] = IF k = 0 THEN <<h, i>> ELSE Raise(f[k - 1], ex, lr)
    BY <1>6 DEF UpRec
  <2> QED
    BY <2>1
<1> DEFINE G == {k \in 0..n : /\ f[k] \in W
                            /\ \/ Raise(f[k], ex, lr) = f[k] /\ Raised(f[k][1], ex, lr, f[k][2])
                               \/ f[k][2] + k <= i}
<1>8. 0 \in G
  <2>1. f[0][2] = i /\ i + 0 <= i /\ 0 \in 0..n
    BY <1>7
  <2> QED
    BY <1>1, <1>7, <2>1
<1>9. ASSUME NEW k \in 1..n, k - 1 \in G PROVE k \in G
  <2>1. PICK p : p = f[k - 1]
    OBVIOUS
  <2>2. PICK r : r = Raise(p, ex, lr)
    OBVIOUS
  <2>3. f[k] = r
    BY <1>7, <2>1, <2>2
  <2>4. p \in W /\ ((r = p /\ Raised(p[1], ex, lr, p[2])) \/ p[2] + (k - 1) <= i)
    BY <1>9, <2>1, <2>2
  <2>5. r \in W /\ ((r = p /\ Raised(p[1], ex, lr, p[2])) \/ r[2] < p[2])
    BY <2>2, <2>4, RaiseStays
  <2>6. p[2] \in 1..n /\ r[2] \in 1..n
    BY <2>4, <2>5 DEF OnTheWay
  <2>7. (Raise(r, ex, lr) = r /\ Raised(r[1], ex, lr, r[2])) \/ r[2] + k <= i
    BY <2>2, <2>4, <2>5, <2>6
  <2> QED
    BY <2>3, <2>5, <2>7
<1>10. n \in G
  <2>1. \A k \in 0..n : k \in G
    BY <1>8, <1>9, UpTo
  <2> QED
    BY <2>1
<1>11. f[n] \in W /\ f[n][2] \in 1..n
  BY <1>10 DEF OnTheWay
<1>12. Raised(f[n][1], ex, lr, f[n][2])
  BY <1>10, <1>11
<1> QED
  BY <1>5, <1>11, <1>12

LEMMA DownFacts ==
    ASSUME NEW ex \in Times, NEW lr \in Times, NEW h, Queue(h), NEW i \in 1..Len(h), OrderedAbove(h, ex, lr, i),
           NEW q, q = Down(<<h, i>>, ex, lr)
    PROVE  q \in OnTheWayDown(h, ex, lr) /\ Ordered(q[1], ex, lr)
<1> PICK n \in Nat : n = Len(h)
  BY DEF Queue
<1> PICK W : W = OnTheWayDown(h, ex, lr)
  OBVIOUS
<1>1. <<h, i>> \in W
  BY PermutedSelf DEF OnTheWayDown, Queue
<1> DEFINE step == [p \in W \X (1..n) |-> Sink(p[1], ex, lr)]
<1>2. step \in [W \X (1..n) -> W]
  BY SinkStays
<1>3. \A p \in W, k \in 1..n : step[<<p, k>>] = Sink(p, ex, lr)
  OBVIOUS
<1> HIDE DEF step
<1>4. \E f : f = DownRec(f, <<h, i>>, ex, lr)
  <2>1. PICK f : Folded(f, W, <<h, i>>, step, n)
    BY <1>1, <1>2, FoldExists
  <2>2. f \in [0..n -> W] /\ f[0] = <<h, i>> /\ \A k \in 1..n : f[k] = step[<<f[k - 1], k>>]
    BY <2>1 DEF Folded
  <2>3. ASSUME NEW k \in 0..n
        PROVE  f[k] = IF k = 0 THEN <<h, i>> ELSE Sink(f[k - 1], ex, lr)
    <3>1. k # 0 => k \in 1..n /\ f[k - 1] \in W
      BY <2>2
    <3> QED
      BY <1>3, <2>2, <3>1
  <2>4. f = [k \in 0..n |-> f[k]]
    BY <2>2
  <2> QED
    BY <2>3, <2>4 DEF DownRec
<1> DEFINE f == CHOOSE g : g = DownRec(g, <<h, i>>, ex, lr)
<1>5. q = f[n]
  BY DEF Down, DownRec
<1>6. f = DownRec(f, <<h, i>>, ex, lr)
  BY <1>4
<1> HIDE DEF f
<1>7. f[0] = <<h, i>> /\ \A k \in 1..n : f[k] = Sink(f[k - 1], ex, lr)
  <2>1. \A k \in 0..n : f[k] = IF k = 0 THEN <<h, i>> ELSE Sink(f[k - 1], ex, lr)
    BY <1>6 DEF DownRec
  <2> QED
    BY <2>1
<1> DEFINE G == {k \in 0..n : /\ f[k] \in W
                            /\ \/ Sink(f[k], ex, lr) = f[k] /\ Ordered(f[k][1], ex, lr)
                               \/ f[k][2] >= i + k}
<1>8. 0 \in G
  BY <1>1, <1>7
<1>9. ASSUME NEW k \in 1..n, k - 1 \in G PROVE k \in G
  <2>1. PICK p : p = f[k - 1]
    OBVIOUS
  <2>2. PICK r : r = Sink(p, ex, lr)
    OBVIOUS
  <2>3. f[k] = r
    BY <1>7, <2>1, <2>2
  <2>4. p \in W /\ ((r = p /\ Ordered(p[1], ex, lr)) \/ p[2] >= i + (k - 1))
    BY <1>9, <2>1, <2>2
  <2>5. r \in W /\ ((r = p /\ Ordered(p[1], ex, lr)) \/ r[2] > p[2])
    BY <2>2, <2>4, SinkStays
  <2>6. p[2] \in 1..n /\ r[2] \in 1..n
    BY <2>4, <2>5 DEF OnTheWayDown
  <2>7. (Sink(r, ex, lr) = r /\ Ordered(r[1], ex, lr)) \/ r[2] >= i + k
    BY <2>2, <2>4, <2>5, <2>6
  <2> QED
    BY <2>3, <2>5, <2>7
<1>10. n \in G
  <2>1. \A k \in 0..n : k \in G
    BY <1>8, <1>9, UpTo
  <2> QED
    BY <2>1
<1>11. f[n] \in W /\ f[n][2] \in 1..n
  BY <1>10 DEF OnTheWayDown
<1>12. Ordered(f[n][1], ex, lr)
  BY <1>10, <1>11
<1> QED
  BY <1>5, <1>11, <1>12

\* Wherever one node is out of place, Shuffle puts the queue in order.
LEMMA Shuffled ==
    ASSUME NEW ex \in Times, NEW lr \in Times, NEW h, Queue(h), NEW i \in 1..Len(h), OrderedBut(h, ex, lr, i),
           NEW g, g = Shuffle(h, ex, lr, i)
    PROVE  Permuted(g, h) /\ Ordered(g, ex, lr)
<1>1. PICK p : p = Up(h, ex, lr, i)
  OBVIOUS
<1>2. p \in OnTheWay(h, ex, lr) /\ Raised(p[1], ex, lr, p[2])
  BY <1>1, UpFacts
<1>3. PICK u, j : p = <<u, j>> /\ j \in 1..Len(h) /\ Permuted(u, h) /\ OrderedBut(u, ex, lr, j) /\ Raised(u, ex, lr, j)
  BY <1>2 DEF OnTheWay
<1>4. Queue(u) /\ Len(u) = Len(h)
  BY <1>3 DEF Permuted
<1>5. OrderedAbove(u, ex, lr, j)
  <2>1. \A k \in 2..Len(u) : k = j => k > 1
    BY <1>4 DEF Queue
  <2> QED
    BY <1>3, <2>1 DEF OrderedBut, OrderedAbove, Raised
<1>6. PICK q : q = Down(<<u, j>>, ex, lr)
  OBVIOUS
<1>7. q \in OnTheWayDown(u, ex, lr) /\ Ordered(q[1], ex, lr)
  BY <1>3, <1>4, <1>5, <1>6, DownFacts
<1>8. g = q[1] /\ Permuted(q[1], u)
  BY <1>1, <1>3, <1>6, <1>7 DEF Shuffle, OnTheWayDown
<1> QED
  BY <1>3, <1>7, <1>8, PermutedTwice

(***************************************************************************)
(* The operations of the queue                                             *)
(***************************************************************************)
LEMMA PutFacts ==
    ASSUME NEW ex \in Times, NEW lr \in Times, NEW ex2 \in Times, NEW lr2 \in Times,
           NEW h, Queue(h), Ordered(h, ex, lr), NEW e \in Events, ~\E i \in 1..Len(h) : h[i] = e,
           \A o \in Events : o # e => ex2[o] = ex[o] /\ lr2[o] = lr[o],
           NEW g, g = Put(h, ex2, lr2, e)
    PROVE  /\ Queue(g) /\ Ordered(g, ex2, lr2) /\ Len(g) = Len(h) + 1
           /\ \A x : (\E i \in 1..Len(g) : g[i] = x) <=> (x = e \/ \E i \in 1..Len(h) : h[i] = x)
<1> PICK n \in Nat : n = Len(h)
  BY DEF Queue
<1> PICK u : u = Append(h, e)
  OBVIOUS
<1>1. u \in Seq(Events) /\ Len(u) = n + 1 /\ u[n + 1] = e /\ \A k \in 1..n : u[k] = h[k] /\ h[k] \in Events /\ h[k] # e
  BY ElementOf DEF Queue
<1>2. \A k \in 1..(n + 1) : k \in 1..n \/ k = n + 1
  OBVIOUS
<1>3. Queue(u)
  <2>1. \A a, b \in 1..n : h[a] = h[b] => a = b
    BY DEF Queue, Unique
  <2> SUFFICES ASSUME NEW a \in 1..(n + 1), NEW b \in 1..(n + 1), u[a] = u[b] PROVE a = b
    BY <1>1 DEF Queue, Unique
  <2> QED
    BY <1>1, <1>2, <2>1
<1>4. \A x : (\E i \in 1..Len(u) : u[i] = x) <=> (x = e \/ \E i \in 1..n : h[i] = x)
  <2> SUFFICES ASSUME NEW x PROVE (\E i \in 1..(n + 1) : u[i] = x) <=> (x = e \/ \E i \in 1..n : h[i] = x)
    BY <1>1
  <2>1. ASSUME NEW i \in 1..(n + 1), u[i] = x PROVE x = e \/ \E k \in 1..n : h[k] = x
    BY <1>1, <1>2, <2>1
  <2>2. ASSUME NEW i \in 1..n, h[i] = x PROVE \E k \in 1..(n + 1) : u[k] = x
    BY <1>1, <2>2, i \in 1..(n + 1)
  <2>3. n + 1 \in 1..(n + 1) /\ u[n + 1] = e
    BY <1>1
  <2> QED
    BY <2>1, <2>2, <2>3
<1>5. OrderedBut(u, ex2, lr2, n + 1)
  <2>1. ASSUME NEW j \in 2..(n + 1), j # n + 1 PROVE ~Before(ex2, lr2, u[j], u[j \div 2])
    <3>1. j \in 2..n /\ j \in 1..n /\ j \div 2 \in 1..n
      BY <2>1, Parents
    <3>2. ~Before(ex, lr, h[j], h[j \div 2])
      BY <3>1 DEF Ordered, InOrder
    <3>3. PICK a \in Events : a = h[j] /\ a # e
      BY <1>1, <3>1
    <3>4. PICK b \in Events : b = h[j \div 2] /\ b # e
      BY <1>1, <3>1
    <3>5. Before(ex2, lr2, a, b) <=> Before(ex, lr, a, b)
      BY <3>3, <3>4 DEF Before
    <3> QED
      BY <1>1, <3>1, <3>2, <3>3, <3>4, <3>5
  <2>2. \A j \in 2..(n + 1) : j \div 2 # n + 1
    BY Parents
  <2> QED
    BY <1>1, <2>1, <2>2 DEF OrderedBut, Grandchildren, InOrder
<1>6. Permuted(g, u) /\ Ordered(g, ex2, lr2)
  <2>1. g = Shuffle(u, ex2, lr2, n + 1) /\ n + 1 \in 1..Len(u)
    BY <1>1 DEF Put
  <2> QED
    BY <1>3, <1>5, <2>1, Shuffled
<1> QED
  BY <1>1, <1>4, <1>6 DEF Permuted

LEMMA TakeFacts ==
    ASSUME NEW ex \in Times, NEW lr \in Times, NEW h, Queue(h), Ordered(h, ex, lr), NEW i \in 1..Len(h),
           NEW g, g = Take(h, ex, lr, i)
    PROVE  /\ Queue(g) /\ Ordered(g, ex, lr)
           /\ \A x : (\E k \in 1..Len(g) : g[k] = x) <=> (x # h[i] /\ \E k \in 1..Len(h) : h[k] = x)
<1> PICK n \in Nat : n = Len(h)
  BY DEF Queue
<1> PICK w : w = Exchange(h, i, n)
  OBVIOUS
<1> PICK u : u = SubSeq(w, 1, n - 1)
  OBVIOUS
<1>1. \A k \in 1..n : h[k] \in Events
  BY ElementOf DEF Queue
<1>2. /\ w \in Seq(Events) /\ Len(w) = n /\ w[i] = h[n] /\ w[n] = h[i] /\ \A k \in 1..n : k # i /\ k # n => w[k] = h[k]
      /\ Queue(w) /\ \A x : (\E k \in 1..n : w[k] = x) <=> (\E k \in 1..n : h[k] = x)
  <2>1. CASE i # n
    <3>1. n \in 1..n /\ i \in 1..n
      OBVIOUS
    <3>2. Permuted(w, h) /\ w[i] = h[n] /\ w[n] = h[i] /\ \A k \in 1..n : k # i /\ k # n => w[k] = h[k]
      BY <2>1, <3>1, Exchanged
    <3>3. Queue(w) /\ w \in Seq(Events) /\ Len(w) = n
      BY <3>2 DEF Permuted, Queue
    <3>4. \A x : (\E k \in 1..n : w[k] = x) <=> (\E k \in 1..n : h[k] = x)
      BY <3>2, <3>3 DEF Permuted
    <3> QED
      BY <3>2, <3>3, <3>4
  <2>2. CASE i = n
    <3>1. w = h
      BY <2>2 DEF Exchange, Queue
    <3> QED
      BY <2>2, <3>1 DEF Queue
  <2> QED
    BY <2>1, <2>2
<1>3. /\ u \in Seq(Events) /\ Len(u) = n - 1 /\ \A k \in 1..(n - 1) : u[k] = w[k]
  BY <1>2
<1>4. \A a, b \in 1..n : w[a] = w[b] => a = b
  BY <1>2 DEF Queue, Unique
<1>5. Queue(u)
  BY <1>3, <1>4 DEF Queue, Unique
<1>6. \A x : (\E k \in 1..(n - 1) : u[k] = x) <=> (x # h[i] /\ \E k \in 1..n : h[k] = x)
  <2> SUFFICES ASSUME NEW x PROVE (\E k \in 1..(n - 1) : u[k] = x) <=> (x # h[i] /\ \E k \in 1..n : w[k] = x)
    BY <1>2
  <2>1. ASSUME NEW k \in 1..(n - 1), u[k] = x PROVE x # h[i] /\ w[k] = x /\ k \in 1..n
    BY <1>2, <1>3, <1>4, <2>1
  <2>2. ASSUME x # h[i], NEW k \in 1..n, w[k] = x PROVE k \in 1..(n - 1) /\ u[k] = x
    BY <1>2, <1>3, <2>2
  <2> QED
    BY <2>1, <2>2
<1>7. \A k \in 1..(n - 1) : k # i => u[k] = h[k]
  BY <1>2, <1>3
<1>8. \A k \in 2..(n - 1) : k \in 2..n /\ k \in 1..(n - 1) /\ k \div 2 \in 1..(n - 1) /\ k \div 2 < k
  BY Parents
<1>9. CASE i = n
  <2>1. g = u
    BY <1>9 DEF Take
  <2>2. ASSUME NEW k \in 2..(n - 1) PROVE InOrder(u, ex, lr, k)
    BY <1>7, <1>8, <1>9 DEF Ordered, InOrder
  <2> QED
    BY <1>3, <1>5, <1>6, <2>1, <2>2 DEF Ordered
<1>10. CASE i # n
  <2>1. g = Shuffle(u, ex, lr, i) /\ i \in 1..(n - 1)
    BY <1>10 DEF Take
  <2>2. ASSUME NEW k \in 2..(n - 1), k # i, k \div 2 # i PROVE InOrder(u, ex, lr, k)
    BY <1>7, <1>8, <2>2 DEF Ordered, InOrder
  <2>3. ASSUME i > 1, NEW k \in 2..(n - 1), k \div 2 = i PROVE ~Before(ex, lr, u[k], u[i \div 2])
    <3>1. PICK l : l = i \div 2
      OBVIOUS
    <3>2. i \in 2..n /\ l \in 1..(n - 1) /\ l # i /\ k # i /\ l \in 1..n
      BY <1>8, <2>1, <2>3, <3>1
    <3>3. u[k] = h[k] /\ u[l] = h[l]
      BY <1>7, <1>8, <3>2
    <3>4. ~Before(ex, lr, h[k], h[i]) /\ ~Before(ex, lr, h[i], h[l])
      BY <1>8, <2>3, <3>1, <3>2 DEF Ordered, InOrder
    <3>5. h[k] \in Events /\ h[i] \in Events /\ h[l] \in Events
      BY <1>1, <1>8, <3>2
    <3> QED
      BY <3>1, <3>3, <3>4, <3>5, BeforeIsStrict
  <2>4. OrderedBut(u, ex, lr, i)
    BY <1>3, <2>2, <2>3 DEF OrderedBut, Grandchildren
  <2>5. Permuted(g, u) /\ Ordered(g, ex, lr)
    BY <1>3, <1>5, <2>1, <2>4, Shuffled
  <2>6. Queue(g) /\ Len(g) = Len(u) /\ \A x : (\E k \in 1..Len(g) : g[k] = x) <=> (\E k \in 1..Len(u) : u[k] = x)
    BY <2>5 DEF Permuted
  <2>7. \A x : (\E k \in 1..Len(g) : g[k] = x) <=> (\E k \in 1..(n - 1) : u[k] = x)
    <3>1. 1..Len(u) = 1..(n - 1)
      BY <1>3
    <3> QED
      BY ONLY <2>6, <3>1
  <2> QED
    BY <1>6, <2>5, <2>6, <2>7
<1> QED
  BY <1>9, <1>10

\* Only the node at i has another time or rank.
LEMMA MovedFacts ==
    ASSUME NEW ex \in Times, NEW lr \in Times, NEW ex2 \in Times, NEW lr2 \in Times,
           NEW h, Queue(h), Ordered(h, ex, lr), NEW i \in 1..Len(h),
           \A a, b \in Events : a # h[i] /\ b # h[i] /\ ~Before(ex, lr, a, b) => ~Before(ex2, lr2, a, b),
           NEW g, g = Shuffle(h, ex2, lr2, i)
    PROVE  Permuted(g, h) /\ Ordered(g, ex2, lr2)
<1> PICK n \in Nat : n = Len(h)
  BY DEF Queue
<1>1. \A k \in 1..n : h[k] \in Events /\ (h[k] = h[i] => k = i)
  BY ElementOf DEF Queue, Unique
<1>2. \A k \in 2..n : k \in 1..n /\ k \div 2 \in 1..n /\ k \div 2 < k
  BY Parents
<1>3. \A k \in 2..n : ~Before(ex, lr, h[k], h[k \div 2])
  BY DEF Ordered, InOrder
<1>4. ASSUME NEW k \in 2..n, k # i, k \div 2 # i PROVE InOrder(h, ex2, lr2, k)
  <2>1. h[k] \in Events /\ h[k \div 2] \in Events /\ h[k] # h[i] /\ h[k \div 2] # h[i]
    BY <1>1, <1>2, <1>4
  <2> QED
    BY <1>3, <2>1 DEF InOrder
<1>5. ASSUME i > 1, NEW k \in 2..n, k \div 2 = i PROVE ~Before(ex2, lr2, h[k], h[i \div 2])
  <2>1. PICK l : l = i \div 2
    OBVIOUS
  <2>2. i \in 2..n /\ l \in 1..n /\ l # i /\ k # i /\ k \in 1..n
    BY <1>2, <1>5, <2>1
  <2>3. ~Before(ex, lr, h[k], h[i]) /\ ~Before(ex, lr, h[i], h[l])
    BY <1>3, <1>5, <2>1, <2>2
  <2>4. h[k] \in Events /\ h[i] \in Events /\ h[l] \in Events /\ h[k] # h[i] /\ h[l] # h[i]
    BY <1>1, <2>2
  <2>5. ~Before(ex, lr, h[k], h[l])
    BY <2>3, <2>4, BeforeIsStrict
  <2> QED
    BY <2>1, <2>4, <2>5
<1>6. OrderedBut(h, ex2, lr2, i)
  BY <1>4, <1>5 DEF OrderedBut, Grandchildren
<1> QED
  BY <1>6, Shuffled

\* The one that ran is last, and the others stay as they were to each other.
LEMMA RunLastFacts ==
    ASSUME lastRun \in [Events -> 0..Cardinality(Events)], NEW e \in Events, NEW lr, lr = RunLast(e)
    PROVE  /\ lr \in [Events -> 0..Cardinality(Events)]
           /\ \A a, b \in Events : a # e /\ b # e /\ lastRun[a] <= lastRun[b] => lr[a] <= lr[b]
<1>1. PICK N \in Nat : N = Cardinality(Events)
  BY TimeAssumption, FS_CardinalityType
<1>2. PICK r0 : r0 = [lastRun EXCEPT ![e] = N + 1]
  OBVIOUS
<1>3. r0 \in [Events -> 0..(N + 1)] /\ \A o \in Events : o # e => r0[o] = lastRun[o]
  BY <1>1, <1>2
<1>4. PICK T : T = {r0[o] : o \in Events}
  OBVIOUS
<1>5. IsFiniteSet(T) /\ Cardinality(T) <= N
  <2>1. r0 \in Surjection(Events, T)
    BY <1>3, <1>4 DEF Surjection
  <2> QED
    BY <1>1, <2>1, TimeAssumption, FS_Surjection
<1>6. PICK R : R = T \ {0}
  OBVIOUS
<1>7. IsFiniteSet(R) /\ Cardinality(R) \in 0..N /\ R \subseteq Nat
  <2>1. R \in SUBSET T
    BY <1>6
  <2>2. IsFiniteSet(R) /\ Cardinality(R) <= Cardinality(T)
    BY <1>5, <2>1, FS_Subset
  <2>3. Cardinality(R) \in Nat /\ Cardinality(T) \in Nat
    BY <1>5, <2>2, FS_CardinalityType
  <2>4. R \subseteq Nat
    BY <1>3, <1>4, <1>6
  <2> QED
    BY <1>1, <1>5, <2>2, <2>3, <2>4
<1>8. lr = [o \in Events |-> IF r0[o] = 0 THEN 0 ELSE Cardinality({r \in R : r <= r0[o]})]
  BY <1>1, <1>2, <1>4, <1>6 DEF RunLast
<1>9. \A v \in Nat : IsFiniteSet({r \in R : r <= v}) /\ Cardinality({r \in R : r <= v}) \in 0..N
  <2> SUFFICES ASSUME NEW v \in Nat, NEW Q, Q = {r \in R : r <= v} PROVE IsFiniteSet(Q) /\ Cardinality(Q) \in 0..N
    OBVIOUS
  <2>1. Q \in SUBSET R
    OBVIOUS
  <2>2. IsFiniteSet(Q) /\ Cardinality(Q) <= Cardinality(R)
    BY <1>7, <2>1, FS_Subset
  <2>3. Cardinality(Q) \in Nat
    BY <2>2, FS_CardinalityType
  <2> QED
    BY <1>1, <1>7, <2>2, <2>3
<1>10. \A v, w \in Nat : v <= w => Cardinality({r \in R : r <= v}) <= Cardinality({r \in R : r <= w})
  <2> SUFFICES ASSUME NEW v \in Nat, NEW w \in Nat, v <= w, NEW Q, Q = {r \in R : r <= v}, NEW P, P = {r \in R : r <= w}
               PROVE  Cardinality(Q) <= Cardinality(P)
    OBVIOUS
  <2>1. IsFiniteSet(P)
    BY <1>9
  <2>2. \A r \in Q : r \in P
    <3>1. \A r \in R : r \in Nat /\ (r <= v => r <= w)
      BY <1>7
    <3> QED
      BY <3>1
  <2> QED
    BY <2>1, <2>2, FS_Subset
<1>11. \A o \in Events : r0[o] \in Nat
  BY <1>3
<1>12. ASSUME NEW o \in Events
       PROVE  lr[o] = (IF r0[o] = 0 THEN 0 ELSE Cardinality({r \in R : r <= r0[o]})) /\ lr[o] \in 0..N
  <2>1. lr[o] = IF r0[o] = 0 THEN 0 ELSE Cardinality({r \in R : r <= r0[o]})
    BY <1>8
  <2>2. Cardinality({r \in R : r <= r0[o]}) \in 0..N
    BY <1>9, <1>11
  <2> QED
    BY <1>1, <2>1, <2>2
<1>13. ASSUME NEW a \in Events, NEW b \in Events, a # e, b # e, lastRun[a] <= lastRun[b] PROVE lr[a] <= lr[b]
  <2>1. PICK v \in Nat, w \in Nat : v = r0[a] /\ w = r0[b] /\ v <= w
    BY <1>3, <1>11, <1>13
  <2>2. CASE v = 0
    <3>1. lr[a] = 0 /\ lr[b] \in 0..N
      BY <1>12, <2>1, <2>2
    <3> QED
      BY <3>1
  <2>3. CASE v # 0
    <3>1. lr[a] = Cardinality({r \in R : r <= v}) /\ lr[b] = Cardinality({r \in R : r <= w})
      BY <1>12, <2>1, <2>3
    <3> QED
      BY <1>10, <2>1, <3>1
  <2> QED
    BY <2>2, <2>3
<1>14. lr \in [Events -> 0..N]
  <2>1. lr = [o \in Events |-> lr[o]]
    BY <1>8
  <2> QED
    BY <1>12, <2>1
<1> QED
  BY <1>1, <1>13, <1>14

\* The Qt timer fires by the time it is set for, or at once.
LEMMA SetTimerFacts ==
    ASSUME now \in 0..MaxTime, NEW t \in 0..MaxTime, NEW m, m = SetTimer(t)
    PROVE  m \in 0..MaxTime /\ (m <= t \/ m <= now)
<1>1. t <= now => m = now
  BY DEF SetTimer
<1>2. ASSUME t > now PROVE m \in 0..t
  <2>1. PICK d \in Nat : d = t - now
    BY <1>2, TimeAssumption
  <2>2. PICK k : k = d \div 2
    OBVIOUS
  <2>3. k \in Nat /\ 2 * k <= d
    BY <2>1, <2>2
  <2>4. m = now + 2 * k
    BY <1>2, <2>1, <2>2, TimeAssumption DEF SetTimer
  <2> QED
    BY <2>1, <2>3, <2>4, TimeAssumption
<1> QED
  BY <1>1, <1>2, TimeAssumption

(***************************************************************************)
(* TimeInv, in the words of the lemmas, and what a step leaves of the      *)
(* queue and then sets the timer for.                                      *)
(***************************************************************************)
QueueOK == /\ Queue(heap) /\ Ordered(heap, expiry, lastRun)
           /\ expiry \in [Events -> 0..MaxTime] /\ lastRun \in [Events -> 0..Cardinality(Events)]

ClockOK == now \in 0..MaxTime /\ timer \in -1..MaxTime /\ ran \in Events \cup {"none"} /\ turn \in BOOLEAN

InTime == \A i \in 1..Len(heap) : timer # -1 /\ (timer <= expiry[heap[i]] \/ timer <= now)

LEMMA TimeParts == TimeSafe <=> QueueOK /\ ClockOK /\ InTime
<1>1. heap \in Seq(Events) => DOMAIN heap = 1..Len(heap)
  OBVIOUS
<1>2. heap \in Seq(Events) => (TimerInTime <=> InTime)
  BY <1>1 DEF TimerInTime, InTime, Queued
<1>3. heap \in Seq(Events) => (HeapOrdered <=> Ordered(heap, expiry, lastRun))
  <2> SUFFICES ASSUME heap \in Seq(Events) PROVE HeapOrdered <=> Ordered(heap, expiry, lastRun)
    OBVIOUS
  <2>1. \A i : i \in 2..Len(heap) <=> i \in 1..Len(heap) /\ i > 1
    OBVIOUS
  <2> QED
    BY <1>1, <2>1 DEF HeapOrdered, Ordered, InOrder
<1>4. TimeTypeOK <=> /\ Queue(heap) /\ ClockOK
                     /\ expiry \in [Events -> 0..MaxTime] /\ lastRun \in [Events -> 0..Cardinality(Events)]
  BY <1>1 DEF TimeTypeOK, Queue, Unique, ClockOK
<1> QED
  BY <1>2, <1>3, <1>4 DEF TimeSafe, QueueOK, Queue

LEMMA TimePartsNext == ASSUME QueueOK', ClockOK', InTime' PROVE TimeSafe'
<1>1. heap' \in Seq(Events) /\ DOMAIN heap' = 1..Len(heap')
  BY DEF QueueOK, Queue
<1>2. \A i : i \in 2..Len(heap') <=> i \in 1..Len(heap') /\ i > 1
  BY <1>1
<1>3. TimerInTime'
  BY <1>1 DEF TimerInTime, InTime, Queued
<1>4. HeapOrdered'
  BY <1>1, <1>2 DEF QueueOK, HeapOrdered, Ordered, InOrder
<1>5. TimeTypeOK'
  BY <1>1 DEF TimeTypeOK, QueueOK, Queue, Unique, ClockOK
<1> QED
  BY <1>3, <1>4, <1>5 DEF TimeSafe

LEMMA AreTimes ==
    ASSUME NEW ex \in [Events -> 0..MaxTime], NEW lr \in [Events -> 0..Cardinality(Events)] PROVE ex \in Times /\ lr \in Times
<1>1. MaxTime \in Nat /\ Cardinality(Events) \in Nat
  BY TimeAssumption, FS_CardinalityType
<1>2. \A o \in Events : ex[o] \in Int /\ lr[o] \in Int
  BY <1>1
<1> QED
  BY <1>2 DEF Times

LEMMA TimerOK ==
    ASSUME QueueOK', now \in 0..MaxTime, now' = now, timer' = UpdateTimeout(heap', expiry')
    PROVE  InTime' /\ timer' \in -1..MaxTime
<1> PICK h, ex, lr : h = heap' /\ ex = expiry' /\ lr = lastRun'
  OBVIOUS
<1> PICK m : m = timer'
  OBVIOUS
<1> PICK n \in Nat : n = Len(h)
  BY DEF QueueOK, Queue
<1>1. /\ Queue(h) /\ Ordered(h, ex, lr) /\ ex \in [Events -> 0..MaxTime] /\ ex \in Times /\ lr \in Times
  BY AreTimes DEF QueueOK
<1>2. \A i \in 1..n : h[i] \in Events
  BY <1>1, ElementOf DEF Queue
<1>3. m = UpdateTimeout(h, ex)
  OBVIOUS
<1>4. ASSUME NEW i \in 1..n PROVE m # -1 /\ (m <= ex[h[i]] \/ m <= now)
  <2>1. h # <<>> /\ 1 \in 1..n
    OBVIOUS
  <2>2. m = SetTimer(ex[h[1]])
    BY <1>3, <2>1 DEF UpdateTimeout
  <2>3. ex[h[1]] \in 0..MaxTime /\ ex[h[i]] \in 0..MaxTime
    BY <1>1, <1>2, <2>1
  <2>4. m \in 0..MaxTime /\ (m <= ex[h[1]] \/ m <= now)
    BY <2>2, <2>3, SetTimerFacts
  <2>5. ex[h[1]] <= ex[h[i]]
    BY <1>1, RootFirst
  <2> QED
    BY <2>3, <2>4, <2>5, TimeAssumption
<1>5. m \in -1..MaxTime
  <2>1. CASE h = <<>>
    BY <1>3, <2>1, TimeAssumption DEF UpdateTimeout
  <2>2. CASE h # <<>>
    <3>1. 1 \in 1..n
      BY <1>1, <2>2 DEF Queue
    <3>2. ex[h[1]] \in 0..MaxTime
      BY <1>1, <1>2, <3>1
    <3> QED
      BY <1>3, <2>2, <3>2, SetTimerFacts DEF UpdateTimeout
  <2> QED
    BY <2>1, <2>2
<1> QED
  BY <1>4, <1>5 DEF InTime

LEMMA PlaceIs ==
    ASSUME NEW h, Queue(h), NEW e, \E i \in 1..Len(h) : h[i] = e, NEW p, p = Place(h, e)
    PROVE  p \in 1..Len(h) /\ h[p] = e
<1>1. DOMAIN h = 1..Len(h)
  BY DEF Queue
<1> QED
  BY <1>1 DEF Place

LEMMA TimeNewOK ==
    ASSUME TimeSafe, NEW e \in Events, NEW t \in 0..MaxTime, TimeEventNew(e, t) PROVE TimeSafe' /\ ran' = "none"
<1>1. QueueOK /\ ClockOK
  BY TimeParts
<1>2. PICK ex, lr, g : ex = expiry' /\ lr = lastRun' /\ g = heap'
  OBVIOUS
<1>3. ex \in [Events -> 0..MaxTime] /\ lr \in [Events -> 0..Cardinality(Events)]
  <2>1. 0 \in 0..Cardinality(Events)
    BY TimeAssumption, FS_CardinalityType
  <2> QED
    BY <1>1, <1>2, <2>1 DEF TimeEventNew, QueueOK
<1>4. \A o \in Events : o # e => ex[o] = expiry[o] /\ lr[o] = lastRun[o]
  BY <1>1, <1>2 DEF TimeEventNew, QueueOK
<1>5. g = Put(heap, ex, lr, e) /\ ~\E i \in 1..Len(heap) : heap[i] = e
  <2>1. DOMAIN heap = 1..Len(heap)
    BY <1>1 DEF QueueOK, Queue
  <2> QED
    BY <1>2, <2>1 DEF TimeEventNew, Queued
<1>6. Queue(g) /\ Ordered(g, ex, lr)
  <2>1. ex \in Times /\ lr \in Times /\ expiry \in Times /\ lastRun \in Times
    BY <1>1, <1>3, AreTimes DEF QueueOK
  <2> QED
    BY <1>1, <1>4, <1>5, <2>1, PutFacts DEF QueueOK
<1>7. QueueOK'
  BY <1>2, <1>3, <1>6 DEF QueueOK
<1>8. now \in 0..MaxTime /\ now' = now /\ timer' = UpdateTimeout(heap', expiry')
  BY <1>1 DEF TimeEventNew, ClockOK
<1>9. InTime' /\ timer' \in -1..MaxTime
  BY <1>7, <1>8, TimerOK
<1>10. ClockOK' /\ ran' = "none"
  BY <1>1, <1>9 DEF TimeEventNew, ClockOK
<1> QED
  BY <1>7, <1>9, <1>10, TimePartsNext

LEMMA TimeFreeOK ==
    ASSUME TimeSafe, NEW e \in Events, TimeEventFree(e) PROVE TimeSafe' /\ ran' = "none"
<1>1. QueueOK /\ ClockOK
  BY TimeParts
<1>2. PICK p : p = Place(heap, e)
  OBVIOUS
<1>3. p \in 1..Len(heap)
  <2>1. DOMAIN heap = 1..Len(heap)
    BY <1>1 DEF QueueOK, Queue
  <2>2. \E i \in 1..Len(heap) : heap[i] = e
    BY <2>1 DEF TimeEventFree, Queued
  <2> QED
    BY <1>1, <1>2, <2>2, PlaceIs DEF QueueOK
<1>4. PICK g : g = Take(heap, expiry, lastRun, p) /\ g = heap'
  BY <1>2 DEF TimeEventFree
<1>5. Queue(g) /\ Ordered(g, expiry, lastRun)
  <2>1. expiry \in Times /\ lastRun \in Times
    BY <1>1, AreTimes DEF QueueOK
  <2> QED
    <3>1. Queue(heap) /\ Ordered(heap, expiry, lastRun) /\ g = Take(heap, expiry, lastRun, p)
      BY <1>1, <1>4 DEF QueueOK
    <3> QED
      BY <1>3, <2>1, <3>1, TakeFacts
<1>6. QueueOK'
  BY <1>1, <1>4, <1>5 DEF QueueOK, TimeEventFree
<1>7. now \in 0..MaxTime /\ now' = now /\ timer' = UpdateTimeout(heap', expiry')
  BY <1>1 DEF TimeEventFree, ClockOK
<1>8. InTime' /\ timer' \in -1..MaxTime
  BY <1>6, <1>7, TimerOK
<1>9. ClockOK' /\ ran' = "none"
  BY <1>1, <1>8 DEF TimeEventFree, ClockOK
<1> QED
  BY <1>6, <1>8, <1>9, TimePartsNext

\* Shuffle, for an event of the queue that is set for another time.
LEMMA Rescheduled ==
    ASSUME NEW ex \in [Events -> 0..MaxTime], NEW lr \in [Events -> 0..Cardinality(Events)],
           NEW h, Queue(h), Ordered(h, ex, lr), NEW e, \E i \in 1..Len(h) : h[i] = e, NEW t \in 0..MaxTime,
           NEW ex2, ex2 = [ex EXCEPT ![e] = t], NEW g, g = Shuffle(h, ex2, lr, Place(h, e))
    PROVE  ex2 \in [Events -> 0..MaxTime] /\ Queue(g) /\ Ordered(g, ex2, lr)
<1>1. PICK p : p = Place(h, e)
  OBVIOUS
<1>2. p \in 1..Len(h) /\ h[p] = e
  BY <1>1, PlaceIs
<1>3. ex2 \in [Events -> 0..MaxTime]
  OBVIOUS
<1>4. ex \in Times /\ lr \in Times /\ ex2 \in Times
  BY <1>3, AreTimes
<1>5. \A a, b \in Events : a # e /\ b # e /\ ~Before(ex, lr, a, b) => ~Before(ex2, lr, a, b)
  BY DEF Before
<1>6. Permuted(g, h) /\ Ordered(g, ex2, lr)
  BY <1>1, <1>2, <1>4, <1>5, MovedFacts
<1> QED
  BY <1>3, <1>6 DEF Permuted

LEMMA TimeUpdateOK ==
    ASSUME TimeSafe, NEW e \in Events, NEW t \in 0..MaxTime, TimeEventUpdate(e, t) PROVE TimeSafe' /\ ran' = "none"
<1>1. QueueOK /\ ClockOK
  BY TimeParts
<1>2. \E i \in 1..Len(heap) : heap[i] = e
  <2>1. DOMAIN heap = 1..Len(heap)
    BY <1>1 DEF QueueOK, Queue
  <2> QED
    BY <2>1 DEF TimeEventUpdate, Queued
<1>3. PICK ex, g : ex = expiry' /\ g = heap' /\ ex = [expiry EXCEPT ![e] = t] /\ g = Shuffle(heap, ex, lastRun, Place(heap, e))
  BY DEF TimeEventUpdate
<1>4. ex \in [Events -> 0..MaxTime] /\ Queue(g) /\ Ordered(g, ex, lastRun)
  BY <1>1, <1>2, <1>3, Rescheduled DEF QueueOK
<1>5. QueueOK'
  BY <1>1, <1>3, <1>4 DEF QueueOK, TimeEventUpdate
<1>6. now \in 0..MaxTime /\ now' = now /\ timer' = UpdateTimeout(heap', expiry')
  BY <1>1 DEF TimeEventUpdate, ClockOK
<1>7. InTime' /\ timer' \in -1..MaxTime
  BY <1>5, <1>6, TimerOK
<1>8. ClockOK' /\ ran' = "none"
  BY <1>1, <1>7 DEF TimeEventUpdate, ClockOK
<1> QED
  BY <1>5, <1>7, <1>8, TimePartsNext

LEMMA ExpirationOK ==
    ASSUME TimeSafe, ExpirationEvent
    PROVE  TimeSafe' /\ (ran' = "none" \/ (Len(heap) > 0 /\ ran' = heap[1] /\ expiry[heap[1]] <= now))
<1>1. QueueOK /\ ClockOK
  BY TimeParts
<1>2. expiry \in Times /\ lastRun \in Times
  BY <1>1, AreTimes DEF QueueOK
<1>3. QueueOK' /\ (ran' = "none" \/ (Len(heap) > 0 /\ ran' = heap[1] /\ ran' \in Events /\ expiry[heap[1]] <= now))
  <2>1. CASE heap = <<>> \/ now < expiry[heap[1]]
    <3>1. heap' = heap /\ expiry' = expiry /\ lastRun' = lastRun /\ ran' = "none"
      BY <2>1 DEF ExpirationEvent
    <3> QED
      BY <1>1, <3>1 DEF QueueOK
  <2>2. CASE ~(heap = <<>> \/ now < expiry[heap[1]])
    <3>1. PICK e, lr, h : /\ e = heap[1] /\ lr = RunLast(e) /\ h = Shuffle(heap, expiry, lr, 1)
                          /\ lastRun' = lr /\ ran' = e
                          /\ \/ \E t \in now..MaxTime : expiry' = [expiry EXCEPT ![e] = t] /\ heap' = Shuffle(h, expiry', lr, Place(h, e))
                             \/ heap' = Take(h, expiry, lr, Place(h, e)) /\ expiry' = expiry
      BY <2>2 DEF ExpirationEvent
    <3>2. 1 \in 1..Len(heap) /\ Len(heap) > 0 /\ e \in Events /\ expiry[e] \in 0..MaxTime /\ expiry[e] <= now
      <4>1. 1 \in 1..Len(heap) /\ Len(heap) > 0
        BY <1>1, <2>2 DEF QueueOK, Queue
      <4>2. e \in Events
        BY <1>1, <3>1, <4>1, ElementOf DEF QueueOK, Queue
      <4>3. expiry[e] \in 0..MaxTime /\ now \in 0..MaxTime /\ ~(now < expiry[e])
        BY <1>1, <2>2, <3>1, <4>2 DEF QueueOK, ClockOK
      <4> QED
        BY <4>1, <4>2, <4>3, TimeAssumption
    <3>3. /\ lr \in [Events -> 0..Cardinality(Events)]
          /\ \A a, b \in Events : a # e /\ b # e /\ lastRun[a] <= lastRun[b] => lr[a] <= lr[b]
      BY <1>1, <3>1, <3>2, RunLastFacts DEF QueueOK
    <3>4. lr \in Times
      BY <1>1, <3>3, AreTimes DEF QueueOK
    <3>5. ASSUME NEW a \in Events, NEW b \in Events, a # e, b # e, ~Before(expiry, lastRun, a, b) PROVE ~Before(expiry, lr, a, b)
      <4>1. /\ expiry[a] \in Int /\ expiry[b] \in Int /\ lastRun[a] \in Int /\ lastRun[b] \in Int
            /\ lr[a] \in Int /\ lr[b] \in Int
        BY <1>2, <3>4 DEF Times
      <4>2. lastRun[b] <= lastRun[a] => lr[b] <= lr[a]
        BY <3>3, <3>5
      <4> QED
        BY <3>5, <4>1, <4>2 DEF Before
    <3>6. Permuted(h, heap) /\ Ordered(h, expiry, lr)
      BY <1>1, <1>2, <3>1, <3>2, <3>4, <3>5, MovedFacts DEF QueueOK
    <3>7. Queue(h) /\ \E i \in 1..Len(h) : h[i] = e
      BY <3>1, <3>2, <3>6 DEF Permuted
    <3>8. QueueOK'
      <4>1. ASSUME NEW t \in now..MaxTime, expiry' = [expiry EXCEPT ![e] = t], heap' = Shuffle(h, expiry', lr, Place(h, e))
            PROVE  QueueOK'
        <5>1. t \in 0..MaxTime
          BY <1>1, TimeAssumption DEF ClockOK
        <5>2. PICK ex, g : ex = expiry' /\ g = heap'
          OBVIOUS
        <5>3. ex \in [Events -> 0..MaxTime] /\ Queue(g) /\ Ordered(g, ex, lr)
          BY <1>1, <3>3, <3>6, <3>7, <4>1, <5>1, <5>2, Rescheduled DEF QueueOK
        <5> QED
          BY <3>1, <3>3, <5>2, <5>3 DEF QueueOK
      <4>2. ASSUME heap' = Take(h, expiry, lr, Place(h, e)), expiry' = expiry PROVE QueueOK'
        <5>1. PICK p, g : p = Place(h, e) /\ g = heap' /\ g = Take(h, expiry, lr, p)
          BY <4>2
        <5>2. p \in 1..Len(h)
          BY <3>7, <5>1, PlaceIs
        <5>3. Queue(g) /\ Ordered(g, expiry, lr)
          BY <1>2, <3>4, <3>6, <3>7, <5>1, <5>2, TakeFacts
        <5> QED
          BY <1>1, <3>1, <3>3, <4>2, <5>1, <5>3 DEF QueueOK
      <4> QED
        BY <3>1, <4>1, <4>2
    <3> QED
      BY <3>1, <3>2, <3>8
  <2> QED
    BY <2>1, <2>2
<1>4. now \in 0..MaxTime /\ now' = now /\ timer' = UpdateTimeout(heap', expiry') /\ turn' = ~turn
  BY <1>1 DEF ExpirationEvent, Fires, ClockOK
<1>5. InTime' /\ timer' \in -1..MaxTime
  BY <1>3, <1>4, TimerOK
<1>6. ClockOK'
  BY <1>1, <1>3, <1>4, <1>5 DEF ClockOK
<1> QED
  BY <1>3, <1>5, <1>6, TimePartsNext

LEMMA ClockRuns == ASSUME TimeSafe, Clock PROVE TimeSafe' /\ ran' = "none"
<1>1. QueueOK /\ ClockOK /\ InTime
  BY TimeParts
<1>2. /\ heap' = heap /\ expiry' = expiry /\ lastRun' = lastRun /\ timer' = timer /\ turn' = turn
      /\ ran' = "none" /\ now' = now + 1 /\ now < MaxTime
  BY DEF Clock
<1>3. QueueOK'
  BY <1>1, <1>2 DEF QueueOK
<1>4. ClockOK'
  BY <1>1, <1>2, TimeAssumption DEF ClockOK
<1>5. InTime'
  <2>1. timer \in Int /\ now \in Int
    BY <1>1, TimeAssumption DEF ClockOK
  <2> QED
    BY <1>1, <1>2, <2>1 DEF InTime
<1> QED
  BY <1>2, <1>3, <1>4, <1>5, TimePartsNext

LEMMA TimeInitOK == TimeInit => TimeSafe
<1> SUFFICES ASSUME TimeInit PROVE QueueOK /\ ClockOK /\ InTime
  BY TimeParts
<1>1. heap = <<>> /\ Len(heap) = 0 /\ heap \in Seq(Events)
  BY DEF TimeInit
<1>2. Cardinality(Events) \in Nat /\ MaxTime \in Nat
  BY TimeAssumption, FS_CardinalityType
<1>3. QueueOK
  BY <1>1, <1>2 DEF TimeInit, QueueOK, Queue, Unique, Ordered
<1>4. ClockOK
  <2>1. now \in 0..MaxTime /\ timer \in -1..MaxTime
    BY <1>2 DEF TimeInit
  <2>2. ran \in Events \cup {"none"} /\ turn \in BOOLEAN
    BY DEF TimeInit
  <2> QED
    BY <2>1, <2>2 DEF ClockOK
<1>5. InTime
  BY <1>1 DEF InTime
<1> QED
  BY <1>3, <1>4, <1>5

LEMMA TimeStep ==
    TimeSafe /\ [TimeNext]_timeVars =>
        /\ TimeSafe'
        /\ UNCHANGED timeVars \/ ran' = "none" \/ (Len(heap) > 0 /\ ran' = heap[1] /\ expiry[heap[1]] <= now)
<1> SUFFICES ASSUME TimeSafe, [TimeNext]_timeVars
             PROVE  /\ TimeSafe'
                    /\ UNCHANGED timeVars \/ ran' = "none" \/ (Len(heap) > 0 /\ ran' = heap[1] /\ expiry[heap[1]] <= now)
  OBVIOUS
<1>1. CASE UNCHANGED timeVars
  <2>1. QueueOK /\ ClockOK /\ InTime
    BY TimeParts
  <2>2. /\ heap' = heap /\ expiry' = expiry /\ lastRun' = lastRun /\ timer' = timer /\ turn' = turn
        /\ ran' = ran /\ now' = now
    BY <1>1 DEF timeVars
  <2>3. QueueOK' /\ ClockOK' /\ InTime'
    BY <2>1, <2>2 DEF QueueOK, ClockOK, InTime
  <2> QED
    BY <1>1, <2>3, TimePartsNext
<1>2. ASSUME NEW e \in Events, TimeEventFree(e) PROVE TimeSafe' /\ ran' = "none"
  BY <1>2, TimeFreeOK
<1>3. ASSUME NEW e \in Events, NEW t \in 0..MaxTime, TimeEventNew(e, t) PROVE TimeSafe' /\ ran' = "none"
  BY <1>3, TimeNewOK
<1>4. ASSUME NEW e \in Events, NEW t \in 0..MaxTime, TimeEventUpdate(e, t) PROVE TimeSafe' /\ ran' = "none"
  BY <1>4, TimeUpdateOK
<1>5. CASE ExpirationEvent
  BY <1>5, ExpirationOK
<1>6. CASE Clock
  BY <1>6, ClockRuns
<1> QED
  BY <1>1, <1>2, <1>3, <1>4, <1>5, <1>6 DEF TimeNext

(***************************************************************************)
(* Whatever is put, freed or set for another time, in whatever order and   *)
(* however many events there are, the queue holds each once, no node comes *)
(* before its parent, and while one waits the timer is set in time for it  *)
(* (timeeventq.c, prioq.c).                                                *)
(***************************************************************************)
THEOREM TimeCorrect == TimeSpec => []TimeSafe
<1>1. TimeInit => TimeSafe
  BY TimeInitOK
<1>2. TimeSafe /\ [TimeNext]_timeVars => TimeSafe'
  BY TimeStep
<1> QED
  BY <1>1, <1>2, PTL DEF TimeSpec

(***************************************************************************)
(* The event whose callback runs has expired and none that waits expired   *)
(* before it (expiration_event): the root of the queue is the least, as no *)
(* node, least of all the first that would be, comes before its parent.    *)
(***************************************************************************)
THEOREM EarliestFirst == TimeSpec => EarliestRuns
<1>1. TimeInit => TimeSafe
  BY TimeInitOK
<1>2. TimeSafe /\ [TimeNext]_timeVars => TimeSafe'
  BY TimeStep
<1>3. TimeSafe /\ [TimeNext]_timeVars =>
        [ran' # "none" => expiry[ran'] <= now /\ \A e \in Queued : expiry[ran'] <= expiry[e]]_timeVars
  <2> SUFFICES ASSUME TimeSafe, [TimeNext]_timeVars, ~UNCHANGED timeVars, ran' # "none"
               PROVE  expiry[ran'] <= now /\ \A e \in Queued : expiry[ran'] <= expiry[e]
    OBVIOUS
  <2>1. ran' = heap[1] /\ expiry[heap[1]] <= now
    BY TimeStep
  <2>2. QueueOK
    BY TimeParts
  <2>3. expiry \in Times /\ lastRun \in Times /\ DOMAIN heap = 1..Len(heap)
    BY <2>2, AreTimes DEF QueueOK, Queue
  <2>4. \A j \in 1..Len(heap) : expiry[heap[1]] <= expiry[heap[j]]
    BY <2>2, <2>3, RootFirst DEF QueueOK
  <2> QED
    BY <2>1, <2>3, <2>4 DEF Queued
<1> QED
  BY <1>1, <1>2, <1>3, PTL DEF TimeSpec, EarliestRuns

=============================================================================
