---------------------------- MODULE Browse_proofs ----------------------------
(***************************************************************************)
(* RecordBrowser: for any interfaces, records and browsers, clients and    *)
(* queriers agree with the caches (BrowseSafe).                            *)
(*                                                                         *)
(* The model folds handlers over sets of records, lookups, interfaces and  *)
(* browsers.  A fold is a function that CHOOSE picks: FoldExists shows     *)
(* that there is one, so that its equation holds, and AllSubsets goes      *)
(* along it one element at a time.  Every handler then has a lemma that    *)
(* says what it leaves of the lookups of its browser (Grow, Longer), of    *)
(* what its client knows (Came, Went) and of what the queriers count       *)
(* (Counts), and the folds of the handlers have the same lemma.            *)
(*                                                                         *)
(* The invariant, BrowseInv, is BrowseSafe and what it rests on: the first *)
(* lookup of a browser is for its own key, the others follow CNAMEs to     *)
(* keys whose records are never its own (Rooted), and between two steps no *)
(* lookup is left to start (Runs), so that all that are there are counted. *)
(***************************************************************************)
EXTENDS RecordBrowser, FiniteSetTheorems, WellFoundedInduction, TLAPS

(***************************************************************************)
(* Folds                                                                   *)
(***************************************************************************)
\* A set of numbers has a least one.
LEMMA LeastNumber ==
    ASSUME NEW T, T \subseteq Nat, T # {}
    PROVE  \E n \in T : \A m \in T : n <= m
<1> DEFINE R == OpToRel(<, Nat)
<1>1. PICK n \in T : \A m \in T : ~ (<<m, n>> \in R)
  BY WFMin, NatLessThanWellFounded
<1>2. \A m \in T : ~ (m < n)
  BY <1>1 DEF OpToRel
<1> QED
  BY <1>2

\* What holds of the empty set, and of a set if it does without one element, holds of them all.
LEMMA AllSubsets ==
    ASSUME NEW S, IsFiniteSet(S), NEW G, {} \in G,
           \A s \in SUBSET S : s # {} => \E x \in s : s \ {x} \in G => s \in G
    PROVE  S \in G
<1> SUFFICES ASSUME S \notin G PROVE FALSE
  OBVIOUS
<1> DEFINE Wrong == {n \in Nat : \E s \in SUBSET S : s \notin G /\ Cardinality(s) = n}
<1>1. \A s \in SUBSET S : IsFiniteSet(s) /\ Cardinality(s) \in Nat
  BY FS_Subset, FS_CardinalityType
<1>2. Wrong \subseteq Nat /\ Wrong # {}
  BY <1>1
<1>3. PICK n \in Wrong : \A m \in Wrong : n <= m
  BY <1>2, LeastNumber
<1>4. PICK s \in SUBSET S : s \notin G /\ Cardinality(s) = n
  BY <1>3
<1>5. PICK x \in s : s \ {x} \in G => s \in G
  BY <1>4
<1>6. s \ {x} \in SUBSET S /\ s \ {x} \notin G
  BY <1>4, <1>5
<1>7. Cardinality(s \ {x}) = Cardinality(s) - 1
  BY <1>1, <1>5, FS_RemoveElement
<1>8. Cardinality(s \ {x}) \in Wrong
  BY <1>1, <1>6
<1> HIDE DEF Wrong
<1>9. n <= Cardinality(s \ {x})
  BY <1>3, <1>8
<1>10. n \in Nat
  BY <1>1, <1>4
<1> QED
  BY <1>4, <1>7, <1>9, <1>10

LEMMA EachSubset ==
    ASSUME NEW S, IsFiniteSet(S), NEW G, {} \in G,
           \A s \in SUBSET S : s # {} => \E x \in s : s \ {x} \in G => s \in G
    PROVE  \A s \in SUBSET S : s \in G
<1> SUFFICES ASSUME NEW s \in SUBSET S PROVE s \in G
  OBVIOUS
<1>1. IsFiniteSet(s)
  BY FS_Subset
<1>2. \A q \in SUBSET s : q # {} => \E x \in q : q \ {x} \in G => q \in G
  OBVIOUS
<1> QED
  BY <1>1, <1>2, AllSubsets

\* The function by which a fold is defined.
Fold(f, D, base, pick, step) ==
    [s \in D |-> IF s = {} THEN base ELSE step[<<pick[s], f[s \ {pick[s]}]>>]]

Picks(pick, S) == \A s \in SUBSET S : s # {} => pick[s] \in s
Steps(step, S, T) == step \in [S \X T -> T]
Folds(f, S, T, base, pick, step) == f \in [SUBSET S -> T] /\ f = Fold(f, SUBSET S, base, pick, step)

LEMMA FoldExists ==
    ASSUME NEW S, IsFiniteSet(S), NEW T, NEW base \in T, NEW pick, Picks(pick, S), NEW step, Steps(step, S, T)
    PROVE  \E f : Folds(f, S, T, base, pick, step)
<1> SUFFICES \E f \in [SUBSET S -> T] : f = Fold(f, SUBSET S, base, pick, step)
  BY DEF Folds
<1>0. (\A s \in SUBSET S : s # {} => pick[s] \in s) /\ step \in [S \X T -> T]
  BY DEF Picks, Steps
<1> DEFINE UpTo(n) == {s \in SUBSET S : Cardinality(s) <= n}
           Has(n) == \E f \in [UpTo(n) -> T] : f = Fold(f, UpTo(n), base, pick, step)
<1>1. \A s \in SUBSET S : /\ IsFiniteSet(s) /\ Cardinality(s) \in Nat
                          /\ (Cardinality(s) = 0 <=> s = {})
  BY FS_Subset, FS_CardinalityType, FS_EmptySet
<1>2. \A s \in SUBSET S : s # {} => /\ s \ {pick[s]} \in SUBSET S
                                    /\ Cardinality(s \ {pick[s]}) = Cardinality(s) - 1
  BY <1>0, <1>1, FS_RemoveElement
<1>3. Has(0)
  <2>1. UpTo(0) = {{}}
    BY <1>1
  <2> DEFINE g == [s \in UpTo(0) |-> base]
  <2>2. g \in [UpTo(0) -> T]
    OBVIOUS
  <2>3. g = Fold(g, UpTo(0), base, pick, step)
    BY <2>1 DEF Fold
  <2> QED
    BY <2>2, <2>3
<1>4. ASSUME NEW n \in Nat, Has(n) PROVE Has(n + 1)
  <2>1. PICK f \in [UpTo(n) -> T] : f = Fold(f, UpTo(n), base, pick, step)
    BY <1>4
  <2>2. \A s \in UpTo(n) : f[s] = IF s = {} THEN base ELSE step[<<pick[s], f[s \ {pick[s]}]>>]
    BY <2>1 DEF Fold
  <2> DEFINE g == Fold(f, UpTo(n + 1), base, pick, step)
  <2>3. ASSUME NEW s \in UpTo(n + 1), s # {}
        PROVE  s \ {pick[s]} \in UpTo(n) /\ pick[s] \in S
    <3>1. s \in SUBSET S /\ Cardinality(s) <= n + 1
      OBVIOUS
    <3>2. s \ {pick[s]} \in SUBSET S /\ Cardinality(s \ {pick[s]}) = Cardinality(s) - 1 /\ pick[s] \in S
      BY <1>0, <1>2, <2>3, <3>1
    <3>3. Cardinality(s) \in Nat
      BY <1>1, <3>1
    <3> QED
      BY <3>1, <3>2, <3>3
  <2>4. \A s \in UpTo(n + 1) : g[s] = IF s = {} THEN base ELSE step[<<pick[s], f[s \ {pick[s]}]>>]
    BY DEF Fold
  <2>5. ASSUME NEW s \in UpTo(n + 1) PROVE g[s] \in T
    <3>1. CASE s = {}
      BY <2>4, <3>1
    <3>2. CASE s # {}
      <4>1. <<pick[s], f[s \ {pick[s]}]>> \in S \X T
        BY <2>1, <2>3, <3>2
      <4>2. g[s] = step[<<pick[s], f[s \ {pick[s]}]>>]
        BY <2>4, <3>2
      <4> QED
        BY <1>0, <4>1, <4>2
    <3> QED
      BY <3>1, <3>2
  <2>6. g = [s \in UpTo(n + 1) |-> g[s]]
    BY DEF Fold
  <2>7. \A s \in UpTo(n) : s \in UpTo(n + 1) /\ g[s] = f[s]
    <3>1. \A s \in UpTo(n) : s \in UpTo(n + 1)
      BY <1>1
    <3> QED
      BY <2>2, <2>4, <3>1
  <2> HIDE DEF g
  <2>8. \A s \in UpTo(n + 1) : g[s] = IF s = {} THEN base ELSE step[<<pick[s], g[s \ {pick[s]}]>>]
    <3> SUFFICES ASSUME NEW s \in UpTo(n + 1), s # {}
                 PROVE  g[s] = step[<<pick[s], g[s \ {pick[s]}]>>]
      BY <2>4
    <3>1. g[s \ {pick[s]}] = f[s \ {pick[s]}]
      BY <2>3, <2>7
    <3> QED
      BY <2>4, <3>1
  <2>9. g = Fold(g, UpTo(n + 1), base, pick, step)
    BY <2>6, <2>8 DEF Fold
  <2>10. g \in [UpTo(n + 1) -> T]
    BY <2>5, <2>6
  <2> QED
    BY <2>9, <2>10
<1> DEFINE G == {n \in Nat : Has(n)}
<1>5. \A n \in Nat : n \in G
  <2> SUFFICES ASSUME Nat \ G # {} PROVE FALSE
    OBVIOUS
  <2> HIDE DEF Has
  <2>1. PICK n \in Nat \ G : \A m \in Nat \ G : n <= m
    BY LeastNumber
  <2>2. n # 0
    BY <1>3, <2>1
  <2>3. n - 1 \in Nat /\ (n - 1) + 1 = n /\ ~ (n <= n - 1)
    BY <2>2
  <2>4. n - 1 \in G
    BY <2>1, <2>3
  <2> QED
    BY <1>4, <2>1, <2>3, <2>4
<1>6. Cardinality(S) \in Nat /\ UpTo(Cardinality(S)) = SUBSET S
  BY <1>1, FS_Subset
<1>7. Has(Cardinality(S))
  <2> HIDE DEF Has
  <2> QED
    BY <1>5, <1>6
<1> HIDE DEF UpTo
<1> QED
  BY <1>6, <1>7

-----------------------------------------------------------------------------
(***************************************************************************)
(* The engine                                                              *)
(***************************************************************************)
LookupSet == [key : Keys, on : Ifaces \cup {Unspec}, flags : {"multicast"}, ref : {1}, todo : BOOLEAN, now : BOOLEAN]

Engine == [cache : [Ifaces -> SUBSET Records], look : [Browsers -> Seq(LookupSet)],
           known : [Browsers -> SUBSET (Ifaces \X Records)], again : BOOLEAN,
           used : [Ifaces -> [Keys -> Nat]], aborted : BOOLEAN]

\* What a CNAME stands for that a browser may follow.
Stands(b, k) == \E c \in Records : IsCname(c) /\ c.key = KeyFor[b] /\ k = c.target

\* The records a browser tells its client of, and what it told it of its own key.
Fresh(b, r) == r.key = KeyFor[b] /\ ~ IsCname(r) /\ r \notin NoServices
Mine(b, K) == {x \in K : x[2].key = KeyFor[b]}

\* More lookups of CNAMEs, which have not started.
Longer(b, s, q) ==
    /\ Len(s) <= Len(q) /\ Len(q) <= MaxLookups
    /\ \A n \in 1..Len(s) : q[n] = s[n]
    /\ \A n \in (Len(s) + 1)..Len(q) : q[n].todo /\ Stands(b, q[n].key)

\* A step of browser b, and one that asks for nothing yet.
StepOf(b, t, u) ==
    /\ u \in Engine /\ u.cache = t.cache
    /\ \A c \in Browsers \ {b} : u.look[c] = t.look[c] /\ u.known[c] = t.known[c]
Grow(b, t, u) == StepOf(b, t, u) /\ u.used = t.used /\ Longer(b, t.look[b], u.look[b])

LEMMA Constants ==
    ASSUME BrowserAssumption
    PROVE  /\ MaxLookups \in Nat /\ MaxLookups >= 1
           /\ \A b \in Browsers : KeyFor[b] \in Keys /\ IfaceFor[b] \in Ifaces \cup {Unspec}
           /\ \A b \in Browsers : FlagsFor[b] \in {"none", "multicast"}
           /\ \A r \in Records : r.key \in Keys /\ (IsCname(r) => r.target \in Keys)
           /\ \A r, c \in Records : IsCname(r) /\ IsCname(c) => r.target # c.key
           /\ IsFiniteSet(Ifaces) /\ IsFiniteSet(Browsers) /\ IsFiniteSet(Records)
           /\ Unspec \notin Ifaces
  BY DEF BrowserAssumption, IsCname

\* What a CNAME stands for is no key of the browser's, and no CNAME's.
LEMMA StandsFor ==
    ASSUME BrowserAssumption, NEW b \in Browsers, NEW k, Stands(b, k)
    PROVE  k \in Keys /\ k # KeyFor[b] /\ \A r \in Records : r.key = k => ~ IsCname(r)
  BY Constants DEF Stands

LEMMA EngineFields ==
    ASSUME NEW t \in Engine
    PROVE  /\ t.cache \in [Ifaces -> SUBSET Records] /\ t.look \in [Browsers -> Seq(LookupSet)]
           /\ t.known \in [Browsers -> SUBSET (Ifaces \X Records)] /\ t.again \in BOOLEAN
           /\ t.used \in [Ifaces -> [Keys -> Nat]] /\ t.aborted \in BOOLEAN
  BY DEF Engine

\* The lookups of a browser.
LEMMA LookFields ==
    ASSUME NEW t \in Engine, NEW b \in Browsers
    PROVE  /\ t.look[b] \in Seq(LookupSet) /\ Len(t.look[b]) \in Nat
           /\ DOMAIN t.look[b] = 1..Len(t.look[b])
           /\ \A n \in 1..Len(t.look[b]) :
                 /\ t.look[b][n] \in LookupSet
                 /\ t.look[b][n].key \in Keys /\ t.look[b][n].on \in Ifaces \cup {Unspec}
                 /\ t.look[b][n].flags = "multicast" /\ t.look[b][n].ref = 1
                 /\ t.look[b][n].todo \in BOOLEAN
<1>1. t.look[b] \in Seq(LookupSet)
  BY EngineFields
<1>2. \A n \in 1..Len(t.look[b]) : t.look[b][n] \in LookupSet
  BY <1>1
<1>3. \A l \in LookupSet : /\ l.key \in Keys /\ l.on \in Ifaces \cup {Unspec}
                           /\ l.flags = "multicast" /\ l.ref = 1 /\ l.todo \in BOOLEAN
  BY DEF LookupSet
<1> QED
  BY <1>1, <1>2, <1>3

LEMMA GrowSelf ==
    ASSUME NEW b \in Browsers, NEW t \in Engine, Len(t.look[b]) <= MaxLookups
    PROVE  Grow(b, t, t)
<1>1. (Len(t.look[b]) + 1)..Len(t.look[b]) = {} /\ Len(t.look[b]) <= Len(t.look[b])
  BY LookFields
<1> QED
  BY <1>1 DEF Grow, StepOf, Longer

LEMMA GrowTrans ==
    ASSUME NEW b \in Browsers, NEW t \in Engine, NEW u, NEW v, Grow(b, t, u), Grow(b, u, v)
    PROVE  Grow(b, t, v)
<1>1. u \in Engine /\ v \in Engine /\ StepOf(b, t, v) /\ v.used = t.used
  BY DEF Grow, StepOf
<1> PICK k \in Nat : k = Len(t.look[b])
  BY LookFields
<1> PICK l \in Nat : l = Len(u.look[b])
  BY <1>1, LookFields
<1> PICK m \in Nat : m = Len(v.look[b])
  BY <1>1, LookFields
<1>2. k <= l /\ l <= m /\ m <= MaxLookups
  BY DEF Grow, Longer
<1>3. \A n \in 1..k : u.look[b][n] = t.look[b][n]
  BY DEF Grow, Longer
<1>4. \A n \in 1..l : v.look[b][n] = u.look[b][n]
  BY DEF Grow, Longer
<1>5. \A n \in (k + 1)..l : u.look[b][n].todo /\ Stands(b, u.look[b][n].key)
  BY DEF Grow, Longer
<1>6. \A n \in (l + 1)..m : v.look[b][n].todo /\ Stands(b, v.look[b][n].key)
  BY DEF Grow, Longer
<1>7. \A n \in 1..k : v.look[b][n] = t.look[b][n]
  BY <1>2, <1>3, <1>4
<1>8. ASSUME NEW n \in (k + 1)..m PROVE v.look[b][n].todo /\ Stands(b, v.look[b][n].key)
  <2>1. CASE n <= l
    <3>1. n \in 1..l /\ n \in (k + 1)..l
      BY <1>2, <2>1
    <3> QED
      BY <3>1, <1>4, <1>5
  <2>2. CASE ~ (n <= l)
    <3>1. n \in (l + 1)..m
      BY <1>2, <2>2
    <3> QED
      BY <3>1, <1>6
  <2> QED
    BY <2>1, <2>2
<1>9. k <= m
  BY <1>2
<1>10. Longer(b, t.look[b], v.look[b])
  BY <1>2, <1>7, <1>8, <1>9 DEF Longer
<1> QED
  BY <1>1, <1>10 DEF Grow

-----------------------------------------------------------------------------
(***************************************************************************)
(* Events                                                                  *)
(***************************************************************************)
LEMMA Changed ==
    ASSUME NEW B, NEW P, NEW f \in [B -> P], NEW b \in B, NEW x \in P
    PROVE  [f EXCEPT ![b] = x] \in [B -> P]
  OBVIOUS

LEMMA ToldNew ==
    ASSUME NEW b \in Browsers, NEW t \in Engine, NEW r \in Records, NEW i \in Ifaces, ~ IsCname(r),
           Len(t.look[b]) <= MaxLookups
    PROVE  LET u == Told(b, t, "NEW", r, i)
           IN  /\ Grow(b, t, u)
               /\ Mine(b, u.known[b]) = Mine(b, t.known[b]) \cup (IF Fresh(b, r) THEN {<<i, r>>} ELSE {})
               /\ ~ t.again /\ (Fresh(b, r) => <<i, r>> \notin Mine(b, t.known[b])) => ~ u.again
<1>1. CASE r \in NoServices
  <2>1. Told(b, t, "NEW", r, i) = t
    BY <1>1 DEF Told
  <2> QED
    BY <1>1, <2>1, GrowSelf DEF Fresh
<1>2. CASE r \notin NoServices
  <2> PICK u : u = Told(b, t, "NEW", r, i)
    OBVIOUS
  <2>1. u = [t EXCEPT !.known[b] = @ \cup {<<i, r>>},
                      !.again = @ \/ (r.key = KeyFor[b] /\ <<i, r>> \in t.known[b])]
    BY <1>2 DEF Told
  <2>2. /\ u.known = [t.known EXCEPT ![b] = @ \cup {<<i, r>>}]
        /\ u.again = (t.again \/ (r.key = KeyFor[b] /\ <<i, r>> \in t.known[b]))
        /\ u.cache = t.cache /\ u.look = t.look /\ u.used = t.used /\ u.aborted = t.aborted
    BY <2>1 DEF Engine
  <2>3. u \in Engine
    <3> PICK K : K = t.known[b] \cup {<<i, r>>}
      OBVIOUS
    <3>1. K \in SUBSET (Ifaces \X Records) /\ u.known = [t.known EXCEPT ![b] = K]
      BY <2>2, EngineFields
    <3>2. u.known \in [Browsers -> SUBSET (Ifaces \X Records)]
      <4>1. [t.known EXCEPT ![b] = K] \in [Browsers -> SUBSET (Ifaces \X Records)]
        BY <3>1, EngineFields, Changed
      <4> QED
        BY <3>1, <4>1
    <3>3. u.again \in BOOLEAN
      BY <2>2, EngineFields
    <3> QED
      BY <2>1, <3>2, <3>3 DEF Engine
  <2>4. u.known[b] = t.known[b] \cup {<<i, r>>} /\ \A c \in Browsers \ {b} : u.known[c] = t.known[c]
    BY <2>2, EngineFields
  <2>5. Grow(b, t, u)
    <3>1. Grow(b, t, t)
      BY GrowSelf
    <3> QED
      BY <2>2, <2>3, <2>4, <3>1 DEF Grow, StepOf
  <2>6. Mine(b, u.known[b]) = Mine(b, t.known[b]) \cup (IF Fresh(b, r) THEN {<<i, r>>} ELSE {})
    BY <1>2, <2>4 DEF Mine, Fresh
  <2>7. ~ t.again /\ (Fresh(b, r) => <<i, r>> \notin Mine(b, t.known[b])) => ~ u.again
    BY <1>2, <2>2 DEF Mine, Fresh
  <2> QED
    BY <2>5, <2>6, <2>7
<1> QED
  BY <1>1, <1>2

LEMMA CnameHandled ==
    ASSUME BrowserAssumption, NEW b \in Browsers, NEW t \in Engine, NEW r \in Records, NEW i \in Ifaces,
           IsCname(r), r.key = KeyFor[b], Len(t.look[b]) <= MaxLookups
    PROVE  LET u == HandleCname(b, t, r, i)
           IN  Grow(b, t, u) /\ u.known = t.known /\ u.again = t.again
<1> PICK u : u = HandleCname(b, t, r, i)
  OBVIOUS
<1>1. \/ u = [t EXCEPT !.aborted = TRUE]
      \/ u = t
      \/ Len(t.look[b]) < MaxLookups /\ u = [t EXCEPT !.look[b] = Append(@, NewLookup(i, r.target))]
  <2>1. Len(t.look[b]) \in Nat /\ MaxLookups \in Nat
    BY LookFields, Constants
  <2> QED
    BY <2>1 DEF HandleCname
<1>2. Grow(b, t, t)
  BY GrowSelf
<1>3. CASE u = [t EXCEPT !.aborted = TRUE]
  <2>1. u \in Engine /\ u.known = t.known /\ u.again = t.again /\ u.look = t.look /\ u.used = t.used /\ u.cache = t.cache
    BY <1>3 DEF Engine
  <2> QED
    BY <1>2, <2>1 DEF Grow, StepOf
<1>4. CASE Len(t.look[b]) < MaxLookups /\ u = [t EXCEPT !.look[b] = Append(@, NewLookup(i, r.target))]
  <2> PICK l : l = NewLookup(i, r.target)
    OBVIOUS
  <2>1. l \in LookupSet /\ l.todo /\ l.key = r.target
    BY Constants DEF NewLookup, LookupSet
  <2>2. t.look[b] \in Seq(LookupSet) /\ Len(t.look[b]) \in Nat /\ MaxLookups \in Nat
    BY LookFields, Constants
  <2> PICK s : s = t.look[b]
    OBVIOUS
  <2> PICK q : q = Append(s, l)
    OBVIOUS
  <2>3. /\ q \in Seq(LookupSet) /\ Len(q) = Len(s) + 1 /\ q[Len(s) + 1] = l
        /\ \A n \in 1..Len(s) : q[n] = s[n]
    BY <2>1, <2>2
  <2>4. /\ u.look = [t.look EXCEPT ![b] = q] /\ u.known = t.known /\ u.again = t.again
        /\ u.cache = t.cache /\ u.used = t.used /\ u.aborted = t.aborted
    BY <1>4 DEF Engine
  <2>5. u.look \in [Browsers -> Seq(LookupSet)] /\ u.look[b] = q /\ \A c \in Browsers \ {b} : u.look[c] = t.look[c]
    BY <2>3, <2>4, EngineFields
  <2>6. u \in Engine
    BY <1>4, <2>5 DEF Engine
  <2>7. Stands(b, l.key)
    BY <2>1 DEF Stands
  <2>8. \A n \in (Len(s) + 1)..Len(q) : n = Len(s) + 1
    BY <2>2, <2>3
  <2>9. Longer(b, s, q)
    BY <1>4, <2>1, <2>2, <2>3, <2>7, <2>8 DEF Longer
  <2> QED
    BY <2>4, <2>5, <2>6, <2>9 DEF Grow, StepOf
<1> QED
  BY <1>1, <1>2, <1>3, <1>4

\* The records F, which are new to it, come to a browser's client.
Came(b, t, u, F) ==
    /\ Grow(b, t, u)
    /\ Mine(b, u.known[b]) = Mine(b, t.known[b]) \cup F
    /\ ~ t.again /\ F \cap Mine(b, t.known[b]) = {} => ~ u.again

LEMMA CameNone ==
    ASSUME NEW b \in Browsers, NEW t \in Engine, Len(t.look[b]) <= MaxLookups
    PROVE  Came(b, t, t, {})
  BY GrowSelf DEF Came

LEMMA CameTrans ==
    ASSUME NEW b \in Browsers, NEW t \in Engine, NEW u, NEW v, NEW F, NEW H,
           Came(b, t, u, F), Came(b, u, v, H), F \cap H = {}
    PROVE  Came(b, t, v, F \cup H)
<1>1. Grow(b, t, v)
  BY GrowTrans DEF Came
<1>2. Mine(b, v.known[b]) = Mine(b, t.known[b]) \cup (F \cup H)
  BY DEF Came
<1>3. ASSUME ~ t.again, (F \cup H) \cap Mine(b, t.known[b]) = {} PROVE ~ v.again
  <2>1. ~ u.again
    BY <1>3 DEF Came
  <2>2. H \cap Mine(b, u.known[b]) = {}
    BY <1>3 DEF Came
  <2> QED
    BY <2>1, <2>2 DEF Came
<1> QED
  BY <1>1, <1>2, <1>3 DEF Came

News(b, i, r) == IF Fresh(b, r) THEN {<<i, r>>} ELSE {}

\* A record comes to a lookup.
LEMMA EventNew ==
    ASSUME BrowserAssumption, NEW b \in Browsers, NEW t \in Engine, NEW n, NEW r \in Records, NEW i \in Ifaces,
           IsCname(r) => r.key = KeyFor[b], Len(t.look[b]) <= MaxLookups
    PROVE  Came(b, t, Event(b, t, n, "NEW", r, i), News(b, i, r))
<1>1. CASE IsCname(r)
  <2>1. Event(b, t, n, "NEW", r, i) = HandleCname(b, t, r, i)
    BY <1>1 DEF Event
  <2>2. News(b, i, r) = {}
    BY <1>1 DEF Fresh, News
  <2> QED
    BY <1>1, <2>1, <2>2, CnameHandled DEF Came
<1>2. CASE ~ IsCname(r)
  <2>1. Event(b, t, n, "NEW", r, i) = Told(b, t, "NEW", r, i)
    BY <1>2 DEF Event
  <2> PICK u : u = Told(b, t, "NEW", r, i)
    OBVIOUS
  <2>2. /\ Grow(b, t, u)
        /\ Mine(b, u.known[b]) = Mine(b, t.known[b]) \cup (IF Fresh(b, r) THEN {<<i, r>>} ELSE {})
        /\ ~ t.again /\ (Fresh(b, r) => <<i, r>> \notin Mine(b, t.known[b])) => ~ u.again
    BY <1>2, ToldNew
  <2>3. News(b, i, r) \cap Mine(b, t.known[b]) = {} => (Fresh(b, r) => <<i, r>> \notin Mine(b, t.known[b]))
    BY DEF News
  <2>4. Came(b, t, u, News(b, i, r))
    BY <2>2, <2>3 DEF Came, News
  <2> QED
    BY <2>1, <2>4
<1> QED
  BY <1>1, <1>2

\* A record goes from a lookup.
LEMMA EventRemove ==
    ASSUME BrowserAssumption, NEW b \in Browsers, NEW t \in Engine, NEW n \in DOMAIN t.look[b],
           NEW r \in Records, NEW i \in Ifaces, t.look[b][n].key = r.key
    PROVE  LET u == Event(b, t, n, "REMOVE", r, i)
           IN  /\ StepOf(b, t, u) /\ u.look = t.look /\ u.used = t.used
               /\ Mine(b, u.known[b]) = Mine(b, t.known[b]) \ (IF Fresh(b, r) THEN {<<i, r>>} ELSE {})
               /\ ~ t.again /\ (Fresh(b, r) => <<i, r>> \in Mine(b, t.known[b])) => ~ u.again
<1>1. CASE IsCname(r)
  <2>1. Find(b, t, i, r.target, "none") = {}
    BY LookFields DEF Find
  <2>2. Event(b, t, n, "REMOVE", r, i) = t
    BY <1>1, <2>1 DEF Event, DropCname
  <2> QED
    BY <1>1, <2>2 DEF StepOf, Fresh
<1>2. CASE ~ IsCname(r) /\ r.key # KeyFor[b]
  <2> PICK u : u = Event(b, t, n, "REMOVE", r, i)
    OBVIOUS
  <2>1. u = [t EXCEPT !.aborted = TRUE]
    BY <1>2 DEF Event
  <2>2. u \in Engine /\ u.known = t.known /\ u.again = t.again /\ u.look = t.look /\ u.used = t.used /\ u.cache = t.cache
    BY <2>1 DEF Engine
  <2> QED
    BY <1>2, <2>2 DEF StepOf, Fresh
<1>3. CASE ~ IsCname(r) /\ r.key = KeyFor[b]
  <2> PICK u : u = Event(b, t, n, "REMOVE", r, i)
    OBVIOUS
  <2>1. u = Told(b, t, "REMOVE", r, i)
    BY <1>3 DEF Event
  <2>2. CASE r \in NoServices
    <3>1. u = t
      BY <2>1, <2>2 DEF Told
    <3> QED
      BY <2>2, <3>1 DEF StepOf, Fresh
  <2>3. CASE r \notin NoServices
    <3>1. u = [t EXCEPT !.known[b] = @ \ {<<i, r>>},
                        !.again = @ \/ (r.key = KeyFor[b] /\ ~ (<<i, r>> \in t.known[b]))]
      BY <2>1, <2>3 DEF Told
    <3>2. /\ u.known = [t.known EXCEPT ![b] = @ \ {<<i, r>>}]
          /\ u.again = (t.again \/ (r.key = KeyFor[b] /\ ~ (<<i, r>> \in t.known[b])))
          /\ u.cache = t.cache /\ u.look = t.look /\ u.used = t.used /\ u.aborted = t.aborted
      BY <3>1 DEF Engine
    <3>3. u \in Engine
      <4> PICK K : K = t.known[b] \ {<<i, r>>}
        OBVIOUS
      <4>1. K \in SUBSET (Ifaces \X Records) /\ u.known = [t.known EXCEPT ![b] = K]
        BY <3>2, EngineFields
      <4>2. u.known \in [Browsers -> SUBSET (Ifaces \X Records)]
        <5>1. [t.known EXCEPT ![b] = K] \in [Browsers -> SUBSET (Ifaces \X Records)]
          BY <4>1, EngineFields, Changed
        <5> QED
          BY <4>1, <5>1
      <4>3. u.again \in BOOLEAN
        BY <3>2, EngineFields
      <4> QED
        BY <3>1, <4>2, <4>3 DEF Engine
    <3>4. u.known[b] = t.known[b] \ {<<i, r>>} /\ \A c \in Browsers \ {b} : u.known[c] = t.known[c]
      BY <3>2, EngineFields
    <3>5. Mine(b, u.known[b]) = Mine(b, t.known[b]) \ (IF Fresh(b, r) THEN {<<i, r>>} ELSE {})
      BY <1>3, <2>3, <3>4 DEF Mine, Fresh
    <3>6. ~ t.again /\ (Fresh(b, r) => <<i, r>> \in Mine(b, t.known[b])) => ~ u.again
      BY <1>3, <2>3, <3>2 DEF Mine, Fresh
    <3>7. StepOf(b, t, u)
      BY <3>2, <3>3, <3>4 DEF StepOf
    <3> QED
      BY <3>2, <3>5, <3>6, <3>7
  <2> QED
    BY <2>2, <2>3
<1> QED
  BY <1>1, <1>2, <1>3

-----------------------------------------------------------------------------
(***************************************************************************)
(* Scans                                                                   *)
(***************************************************************************)
Fit(b) == {t \in Engine : Len(t.look[b]) <= MaxLookups}

LEMMA GrowFits ==
    ASSUME NEW b \in Browsers, NEW t, NEW u, Grow(b, t, u)
    PROVE  u \in Fit(b)
  BY DEF Grow, StepOf, Longer, Fit

\* The records of R, on interface i, that a browser tells its client of.
NewsOf(b, i, R) == {x \in {i} \X R : Fresh(b, x[2])}

ScanOf(b, t, n, i, R) == FoldSet(LAMBDA r, v : Event(b, v, n, "NEW", r, i), t, R)

\* The records a lookup finds in the cache of an interface come to it one by one.
LEMMA RecordsScanned ==
    ASSUME BrowserAssumption, NEW b \in Browsers, NEW t \in Fit(b), NEW n, NEW i \in Ifaces,
           NEW R \in SUBSET Records, \A r \in R : IsCname(r) => r.key = KeyFor[b]
    PROVE  Came(b, t, ScanOf(b, t, n, i, R), NewsOf(b, i, R))
<1> DEFINE Rec(f) == [s \in SUBSET R |-> IF s = {} THEN t
                              ELSE Event(b, f[s \ {CHOOSE x \in s : TRUE}], n, "NEW", CHOOSE x \in s : TRUE, i)]
           iter == CHOOSE f : f = Rec(f)
           pick == [s \in SUBSET R |-> CHOOSE x \in s : TRUE]
           step == [p \in R \X Fit(b) |-> Event(b, p[2], n, "NEW", p[1], i)]
<1>1. ScanOf(b, t, n, i, R) = iter[R]
  BY DEF ScanOf, FoldSet, MapThenFoldSet
<1>2. \A s \in SUBSET R : s # {} => pick[s] \in s
  OBVIOUS
<1>3. IsFiniteSet(R)
  BY Constants, FS_Subset
<1>4. ASSUME NEW r \in R, NEW v \in Fit(b)
      PROVE  Came(b, v, Event(b, v, n, "NEW", r, i), News(b, i, r))
  <2>1. v \in Engine /\ Len(v.look[b]) <= MaxLookups /\ r \in Records
    BY DEF Fit
  <2> QED
    BY <2>1, EventNew
<1>5. \A p \in R \X Fit(b) : Event(b, p[2], n, "NEW", p[1], i) \in Fit(b)
  <2> SUFFICES ASSUME NEW p \in R \X Fit(b) PROVE Event(b, p[2], n, "NEW", p[1], i) \in Fit(b)
    OBVIOUS
  <2>1. p[1] \in R /\ p[2] \in Fit(b)
    OBVIOUS
  <2> QED
    BY <1>4, <2>1, GrowFits DEF Came
<1>6. Steps(step, R, Fit(b)) /\ Picks(pick, R)
  BY <1>2, <1>5 DEF Steps, Picks
<1>7. PICK f : Folds(f, R, Fit(b), t, pick, step)
  <2> HIDE DEF pick, step
  <2> QED
    BY <1>3, <1>6, FoldExists
<1>8. f = Rec(f)
  <2>1. ASSUME NEW s \in SUBSET R, s # {}
        PROVE  step[<<pick[s], f[s \ {pick[s]}]>>]
                 = Event(b, f[s \ {CHOOSE x \in s : TRUE}], n, "NEW", CHOOSE x \in s : TRUE, i)
    <3>1. pick[s] = (CHOOSE x \in s : TRUE) /\ pick[s] \in R /\ f[s \ {pick[s]}] \in Fit(b)
      BY <1>2, <1>7, <2>1 DEF Folds
    <3> HIDE DEF pick
    <3> QED
      BY <3>1
  <2> HIDE DEF step, pick
  <2> QED
    BY <1>7, <2>1 DEF Fold, Folds
<1>9. iter = Rec(iter)
  <2> HIDE DEF Rec
  <2> QED
    BY <1>8
<1> HIDE DEF iter
<1>10. iter[{}] = t
  BY <1>9
<1>11. ASSUME NEW s \in SUBSET R, s # {}
       PROVE  \E r \in s : iter[s] = Event(b, iter[s \ {r}], n, "NEW", r, i)
  <2>1. iter[s] = Event(b, iter[s \ {CHOOSE x \in s : TRUE}], n, "NEW", CHOOSE x \in s : TRUE, i)
    BY <1>9, <1>11
  <2>2. (CHOOSE x \in s : TRUE) \in s
    BY <1>11
  <2> QED
    BY <2>1, <2>2
<1> DEFINE G == {s \in SUBSET R : Came(b, t, iter[s], NewsOf(b, i, s))}
<1>12. {} \in G
  <2>1. NewsOf(b, i, {}) = {}
    BY DEF NewsOf
  <2>2. Came(b, t, t, {})
    BY CameNone DEF Fit
  <2> QED
    BY <1>10, <2>1, <2>2
<1>13. ASSUME NEW s \in SUBSET R, s # {}
       PROVE  \E r \in s : s \ {r} \in G => s \in G
  <2>1. PICK r \in s : iter[s] = Event(b, iter[s \ {r}], n, "NEW", r, i)
    BY <1>11, <1>13
  <2> SUFFICES ASSUME s \ {r} \in G PROVE s \in G
    OBVIOUS
  <2>2. Came(b, t, iter[s \ {r}], NewsOf(b, i, s \ {r}))
    OBVIOUS
  <2>3. iter[s \ {r}] \in Fit(b) /\ r \in R
    BY <2>2, GrowFits DEF Came
  <2>4. Came(b, iter[s \ {r}], iter[s], News(b, i, r))
    BY <1>4, <2>1, <2>3
  <2>5. /\ NewsOf(b, i, s) = NewsOf(b, i, s \ {r}) \cup News(b, i, r)
        /\ NewsOf(b, i, s \ {r}) \cap News(b, i, r) = {}
    BY DEF NewsOf, News
  <2>6. Came(b, t, iter[s], NewsOf(b, i, s \ {r}) \cup News(b, i, r))
    BY <2>2, <2>4, <2>5, CameTrans DEF Fit
  <2> QED
    BY <2>5, <2>6
<1> HIDE DEF G
<1>14. R \in G
  BY <1>3, <1>12, <1>13, AllSubsets
<1> USE DEF G
<1> QED
  BY <1>1, <1>14

\* What the caches of the interfaces J hold for a key, and the client is told of.
Found(b, J, C, k) == {x \in Ifaces \X Records : x[1] \in J /\ x[2] \in C[x[1]] /\ x[2].key = k /\ Fresh(b, x[2])}

\* A lookup scans the caches of its interfaces.
LEMMA CacheScanned ==
    ASSUME BrowserAssumption, NEW b \in Browsers, NEW t \in Fit(b), NEW n,
           NEW k, k = t.look[b][n].key, k = KeyFor[b] \/ Stands(b, k),
           NEW J, J = {i \in Ifaces : Match(t.look[b][n].on, i)}
    PROVE  Came(b, t, ScanCache(b, t, n), Found(b, J, t.cache, k))
<1> DEFINE Scan(v, i) == ScanOf(b, v, n, i, {r \in v.cache[i] : r.key = k})
           Rec(f) == [s \in SUBSET J |-> IF s = {} THEN t
                                         ELSE Scan(f[s \ {CHOOSE x \in s : TRUE}], CHOOSE x \in s : TRUE)]
           iter == CHOOSE f : f = Rec(f)
           pick == [s \in SUBSET J |-> CHOOSE x \in s : TRUE]
           step == [p \in J \X Fit(b) |-> Scan(p[2], p[1])]
<1>1. ScanCache(b, t, n) = iter[J]
  BY DEF ScanCache, ScanOf, FoldSet, MapThenFoldSet
<1>2. \A s \in SUBSET J : s # {} => pick[s] \in s
  OBVIOUS
<1>3. IsFiniteSet(J)
  BY Constants, FS_Subset
<1>4. ASSUME NEW i \in J, NEW v \in Fit(b)
      PROVE  Came(b, v, Scan(v, i), Found(b, {i}, v.cache, k))
  <2> DEFINE R == {r \in v.cache[i] : r.key = k}
  <2>1. v.cache[i] \subseteq Records
    BY EngineFields DEF Fit
  <2>2. R \in SUBSET Records /\ \A r \in R : IsCname(r) => r.key = KeyFor[b]
    BY <2>1, StandsFor
  <2>3. Came(b, v, Scan(v, i), NewsOf(b, i, R))
    BY <2>2, RecordsScanned
  <2>4. NewsOf(b, i, R) = Found(b, {i}, v.cache, k)
    BY <2>1 DEF Found, NewsOf
  <2> QED
    BY <2>3, <2>4
<1> HIDE DEF Scan
<1>5. \A p \in J \X Fit(b) : Scan(p[2], p[1]) \in Fit(b)
  <2> SUFFICES ASSUME NEW p \in J \X Fit(b) PROVE Scan(p[2], p[1]) \in Fit(b)
    OBVIOUS
  <2>1. p[1] \in J /\ p[2] \in Fit(b)
    OBVIOUS
  <2> QED
    BY <1>4, <2>1, GrowFits DEF Came
<1>6. Steps(step, J, Fit(b)) /\ Picks(pick, J)
  BY <1>2, <1>5 DEF Steps, Picks
<1>7. PICK f : Folds(f, J, Fit(b), t, pick, step)
  <2> HIDE DEF pick, step
  <2> QED
    BY <1>3, <1>6, FoldExists
<1>8. f = Rec(f)
  <2>1. ASSUME NEW s \in SUBSET J, s # {}
        PROVE  step[<<pick[s], f[s \ {pick[s]}]>>] = Scan(f[s \ {CHOOSE x \in s : TRUE}], CHOOSE x \in s : TRUE)
    <3>1. pick[s] = (CHOOSE x \in s : TRUE) /\ pick[s] \in J /\ f[s \ {pick[s]}] \in Fit(b)
      BY <1>2, <1>7, <2>1 DEF Folds
    <3> HIDE DEF pick
    <3> QED
      BY <3>1
  <2>2. f = [s \in SUBSET J |-> IF s = {} THEN t ELSE step[<<pick[s], f[s \ {pick[s]}]>>]]
    BY <1>7 DEF Fold, Folds
  <2> HIDE DEF step, pick
  <2> QED
    BY <2>1, <2>2
<1>9. iter = Rec(iter)
  <2> HIDE DEF Rec
  <2> QED
    BY <1>8
<1> HIDE DEF iter
<1>10. iter[{}] = t
  BY <1>9
<1>11. ASSUME NEW s \in SUBSET J, s # {}
       PROVE  \E i \in s : iter[s] = Scan(iter[s \ {i}], i)
  <2> PICK i : i = CHOOSE x \in s : TRUE
    OBVIOUS
  <2>1. i \in s
    BY <1>11
  <2>2. iter[s] = Scan(iter[s \ {i}], i)
    BY <1>9, <1>11
  <2> QED
    BY <2>1, <2>2
<1> DEFINE G == {s \in SUBSET J : Came(b, t, iter[s], Found(b, s, t.cache, k))}
<1>12. {} \in G
  <2>1. Found(b, {}, t.cache, k) = {}
    BY DEF Found
  <2>2. Came(b, t, t, {})
    BY CameNone DEF Fit
  <2> QED
    BY <1>10, <2>1, <2>2
<1>13. ASSUME NEW s \in SUBSET J, s # {}
       PROVE  \E i \in s : s \ {i} \in G => s \in G
  <2>1. PICK i \in s : iter[s] = Scan(iter[s \ {i}], i)
    BY <1>11, <1>13
  <2> SUFFICES ASSUME s \ {i} \in G PROVE s \in G
    OBVIOUS
  <2>2. Came(b, t, iter[s \ {i}], Found(b, s \ {i}, t.cache, k))
    OBVIOUS
  <2>3. iter[s \ {i}] \in Fit(b) /\ i \in J /\ iter[s \ {i}].cache = t.cache
    BY <2>2, GrowFits DEF Came, Grow, StepOf
  <2>4. Came(b, iter[s \ {i}], iter[s], Found(b, {i}, t.cache, k))
    <3> PICK v : v = iter[s \ {i}]
      OBVIOUS
    <3>1. Came(b, v, Scan(v, i), Found(b, {i}, v.cache, k)) /\ v.cache = t.cache
      BY <1>4, <2>3
    <3> QED
      BY <2>1, <3>1
  <2>5. /\ Found(b, s, t.cache, k) = Found(b, s \ {i}, t.cache, k) \cup Found(b, {i}, t.cache, k)
        /\ Found(b, s \ {i}, t.cache, k) \cap Found(b, {i}, t.cache, k) = {}
    BY DEF Found
  <2>6. Came(b, t, iter[s], Found(b, s \ {i}, t.cache, k) \cup Found(b, {i}, t.cache, k))
    BY <2>2, <2>4, <2>5, CameTrans DEF Fit
  <2> QED
    BY <2>5, <2>6
<1> HIDE DEF G
<1>14. J \in G
  BY <1>3, <1>12, <1>13, AllSubsets
<1> USE DEF G
<1> QED
  BY <1>1, <1>14

-----------------------------------------------------------------------------
(***************************************************************************)
(* Queriers                                                                *)
(***************************************************************************)
\* Each querier of the interfaces W counts the lookups that want it.
Counts(t, W) == \A i \in W, k \in Keys : t.used[i][k] = Cardinality(Asking(t, i, k))

Wants(l, i, k) == l.key = k /\ Match(l.on, i)

LEMMA Asks ==
    ASSUME NEW t \in Engine, NEW i, NEW k, NEW c \in Browsers, NEW n
    PROVE  <<c, n>> \in Asking(t, i, k) <=> n \in 1..Len(t.look[c]) /\ ~ t.look[c][n].todo /\ Wants(t.look[c][n], i, k)
<1>1. \A d \in Browsers : DOMAIN t.look[d] = 1..Len(t.look[d])
  BY LookFields
<1>2. <<c, n>> \in UNION {{d} \X DOMAIN t.look[d] : d \in Browsers} <=> n \in DOMAIN t.look[c]
  OBVIOUS
<1> QED
  BY <1>1, <1>2 DEF Asking, Wants

LEMMA AskingPairs ==
    ASSUME NEW t \in Engine, NEW i, NEW k
    PROVE  \A x \in Asking(t, i, k) : \E c \in Browsers : \E n \in 1..Len(t.look[c]) : x = <<c, n>>
<1> SUFFICES ASSUME NEW x \in Asking(t, i, k) PROVE \E c \in Browsers : \E n \in 1..Len(t.look[c]) : x = <<c, n>>
  OBVIOUS
<1>1. PICK c \in Browsers : x \in {c} \X DOMAIN t.look[c]
  BY DEF Asking
<1>2. PICK n \in DOMAIN t.look[c] : x = <<c, n>>
  BY <1>1
<1>3. n \in 1..Len(t.look[c])
  BY LookFields
<1> QED
  BY <1>2, <1>3

LEMMA AskingFinite ==
    ASSUME BrowserAssumption, NEW t \in Engine, NEW i, NEW k
    PROVE  IsFiniteSet(Asking(t, i, k)) /\ Cardinality(Asking(t, i, k)) \in Nat
<1> DEFINE f == [c \in Browsers |-> {c} \X DOMAIN t.look[c]]
           U == {f[c] : c \in Browsers}
<1>1. IsFiniteSet(Browsers)
  BY Constants
<1>2. f \in [Browsers -> {f[c] : c \in Browsers}]
  OBVIOUS
<1>3. IsFiniteSet(U)
  <2>1. \A S, T, g : IsFiniteSet(S) /\ g \in [S -> T] /\ (\A y \in T : \E x \in S : g[x] = y) => IsFiniteSet(T)
    BY FS_Surjection DEF Surjection, ExistsSurjection
  <2>2. \A y \in U : \E x \in Browsers : f[x] = y
    OBVIOUS
  <2> HIDE DEF f
  <2> QED
    BY <1>1, <1>2, <2>1, <2>2
<1>4. ASSUME NEW c \in Browsers PROVE IsFiniteSet(f[c])
  <2>1. IsFiniteSet(1..Len(t.look[c])) /\ DOMAIN t.look[c] = 1..Len(t.look[c])
    BY LookFields, FS_Interval
  <2>2. IsFiniteSet({c})
    BY FS_Singleton
  <2> QED
    BY <2>1, <2>2, FS_Product
<1>5. IsFiniteSet(UNION U)
  <2> HIDE DEF f
  <2>1. \A S \in U : IsFiniteSet(S)
    BY <1>4
  <2> HIDE DEF U
  <2> QED
    BY <1>3, <2>1, FS_UNION
<1>6. Asking(t, i, k) \in SUBSET (UNION U)
  BY DEF Asking
<1> HIDE DEF U
<1> QED
  BY <1>5, <1>6, FS_Subset, FS_CardinalityType

\* Two engines in which the same lookups ask.
LEMMA AskingSame ==
    ASSUME NEW t \in Engine, NEW u \in Engine, NEW i, NEW k,
           \A c \in Browsers : \A n : <<c, n>> \in Asking(t, i, k) <=> <<c, n>> \in Asking(u, i, k)
    PROVE  Asking(t, i, k) = Asking(u, i, k)
<1>1. \A x \in Asking(t, i, k) : x \in Asking(u, i, k)
  BY AskingPairs
<1>2. \A x \in Asking(u, i, k) : x \in Asking(t, i, k)
  BY AskingPairs
<1> QED
  BY <1>1, <1>2

\* Two engines in which the lookups differ only in what nobody asks for.
Alike(q, s) ==
    /\ Len(q) = Len(s)
    /\ \A m \in 1..Len(s) : q[m].key = s[m].key /\ q[m].on = s[m].on /\ q[m].todo = s[m].todo

LEMMA AskingAlike ==
    ASSUME NEW t \in Engine, NEW u \in Engine, \A c \in Browsers : Alike(u.look[c], t.look[c]), NEW i, NEW k
    PROVE  Asking(u, i, k) = Asking(t, i, k)
<1>1. ASSUME NEW c \in Browsers, NEW n PROVE <<c, n>> \in Asking(u, i, k) <=> <<c, n>> \in Asking(t, i, k)
  <2>1. <<c, n>> \in Asking(u, i, k) <=> n \in 1..Len(u.look[c]) /\ ~ u.look[c][n].todo /\ Wants(u.look[c][n], i, k)
    BY Asks
  <2>2. <<c, n>> \in Asking(t, i, k) <=> n \in 1..Len(t.look[c]) /\ ~ t.look[c][n].todo /\ Wants(t.look[c][n], i, k)
    BY Asks
  <2>3. Len(u.look[c]) = Len(t.look[c])
    BY DEF Alike
  <2>4. ASSUME NEW m \in 1..Len(t.look[c])
        PROVE  u.look[c][m].todo = t.look[c][m].todo /\ (Wants(u.look[c][m], i, k) <=> Wants(t.look[c][m], i, k))
    BY DEF Alike, Wants
  <2> QED
    BY <2>1, <2>2, <2>3, <2>4
<1> QED
  BY <1>1, AskingSame

\* Lookups that have not started ask for nothing.
LEMMA AskingGrow ==
    ASSUME NEW b \in Browsers, NEW t \in Engine, NEW u, Grow(b, t, u), NEW i, NEW k
    PROVE  Asking(t, i, k) = Asking(u, i, k)
<1>1. u \in Engine
  BY DEF Grow, StepOf
<1>2. ASSUME NEW c \in Browsers, NEW n PROVE <<c, n>> \in Asking(t, i, k) <=> <<c, n>> \in Asking(u, i, k)
  <2>1. CASE c # b
    <3>1. u.look[c] = t.look[c]
      BY <2>1 DEF Grow, StepOf
    <3> QED
      BY <1>1, <3>1, Asks
  <2>2. CASE c = b
    <3> PICK l \in Nat : l = Len(t.look[b])
      BY LookFields
    <3> PICK m \in Nat : m = Len(u.look[b])
      BY <1>1, LookFields
    <3>1. l <= m
      BY DEF Grow, Longer
    <3>2. \A j \in 1..l : u.look[b][j] = t.look[b][j]
      BY DEF Grow, Longer
    <3>3. \A j \in (l + 1)..m : u.look[b][j].todo
      BY DEF Grow, Longer
    <3>4. <<b, n>> \in Asking(t, i, k) <=> n \in 1..l /\ ~ t.look[b][n].todo /\ Wants(t.look[b][n], i, k)
      BY Asks
    <3>5. <<b, n>> \in Asking(u, i, k) <=> n \in 1..m /\ ~ u.look[b][n].todo /\ Wants(u.look[b][n], i, k)
      BY <1>1, Asks
    <3>6. n \in 1..m => n \in 1..l \/ n \in (l + 1)..m
      BY <3>1
    <3>7. n \in 1..l => n \in 1..m
      BY <3>1
    <3> QED
      BY <2>2, <3>2, <3>3, <3>4, <3>5, <3>6, <3>7
  <2> QED
    BY <2>1, <2>2
<1> QED
  BY <1>1, <1>2, AskingSame

LEMMA QueriersAdded ==
    ASSUME NEW t \in Engine, NEW l \in LookupSet, up \subseteq Ifaces
    PROVE  LET u == AddQueriers(t, l)
           IN  /\ u \in Engine /\ u.cache = t.cache /\ u.look = t.look /\ u.known = t.known /\ u.again = t.again
               /\ \A i \in up, k \in Keys :
                     u.used[i][k] = IF Wants(l, i, k) THEN t.used[i][k] + 1 ELSE t.used[i][k]
<1> PICK u : u = AddQueriers(t, l)
  OBVIOUS
<1> DEFINE U == [i \in Ifaces |-> IF i \in up /\ Match(l.on, i) THEN [t.used[i] EXCEPT ![l.key] = @ + 1] ELSE t.used[i]]
<1>1. u = [t EXCEPT !.used = U]
  BY DEF AddQueriers
<1>2. \A i \in Ifaces : t.used[i] \in [Keys -> Nat]
  BY EngineFields
<1>3. l.key \in Keys
  BY DEF LookupSet
<1>4. \A i \in Ifaces : [t.used[i] EXCEPT ![l.key] = @ + 1] \in [Keys -> Nat]
  BY <1>2, <1>3
<1>5. U \in [Ifaces -> [Keys -> Nat]]
  BY <1>2, <1>4
<1>6. /\ u \in Engine /\ u.cache = t.cache /\ u.look = t.look /\ u.known = t.known /\ u.again = t.again /\ u.used = U
  BY <1>1, <1>5 DEF Engine
<1>7. ASSUME NEW i \in up, NEW k \in Keys
      PROVE  U[i][k] = IF Wants(l, i, k) THEN t.used[i][k] + 1 ELSE t.used[i][k]
  <2>1. i \in Ifaces
    OBVIOUS
  <2>2. U[i] = IF Match(l.on, i) THEN [t.used[i] EXCEPT ![l.key] = @ + 1] ELSE t.used[i]
    BY <2>1
  <2> QED
    BY <1>2, <1>3, <2>1, <2>2 DEF Wants
<1> QED
  BY <1>6, <1>7

LEMMA QueriersRemoved ==
    ASSUME NEW t \in Engine, NEW l \in LookupSet, up \subseteq Ifaces
    PROVE  LET u == RemoveQueriers(t, l)
           IN  /\ u \in Engine /\ u.cache = t.cache /\ u.look = t.look /\ u.known = t.known /\ u.again = t.again
               /\ \A i \in up, k \in Keys :
                     u.used[i][k] = IF Wants(l, i, k) /\ t.used[i][k] > 0 THEN t.used[i][k] - 1 ELSE t.used[i][k]
<1> PICK u : u = RemoveQueriers(t, l)
  OBVIOUS
<1> DEFINE U == [i \in Ifaces |-> IF i \in up /\ Match(l.on, i) /\ t.used[i][l.key] > 0
                               THEN [t.used[i] EXCEPT ![l.key] = @ - 1] ELSE t.used[i]]
<1>1. u = [t EXCEPT !.used = U]
  BY DEF RemoveQueriers
<1>2. \A i \in Ifaces : t.used[i] \in [Keys -> Nat]
  BY EngineFields
<1>3. l.key \in Keys
  BY DEF LookupSet
<1>4. \A i \in Ifaces : t.used[i][l.key] > 0 => [t.used[i] EXCEPT ![l.key] = @ - 1] \in [Keys -> Nat]
  BY <1>2, <1>3
<1>5. U \in [Ifaces -> [Keys -> Nat]]
  BY <1>2, <1>4
<1>6. /\ u \in Engine /\ u.cache = t.cache /\ u.look = t.look /\ u.known = t.known /\ u.again = t.again /\ u.used = U
  BY <1>1, <1>5 DEF Engine
<1>7. ASSUME NEW i \in up, NEW k \in Keys
      PROVE  U[i][k] = IF Wants(l, i, k) /\ t.used[i][k] > 0 THEN t.used[i][k] - 1 ELSE t.used[i][k]
  <2>1. i \in Ifaces
    OBVIOUS
  <2>2. U[i] = IF Match(l.on, i) /\ t.used[i][l.key] > 0 THEN [t.used[i] EXCEPT ![l.key] = @ - 1] ELSE t.used[i]
    BY <2>1
  <2> QED
    BY <1>2, <1>3, <2>1, <2>2 DEF Wants
<1> QED
  BY <1>6, <1>7

-----------------------------------------------------------------------------
(***************************************************************************)
(* Lookups that start                                                      *)
(***************************************************************************)
\* The lookups of a browser that runs: the first is for its key, the others follow CNAMEs.
Rooted(b, s) ==
    /\ 1 <= Len(s) /\ Len(s) <= MaxLookups
    /\ s[1].key = KeyFor[b] /\ s[1].on = IfaceFor[b]
    /\ \A n \in 2..Len(s) : Stands(b, s[n].key)

\* What the client is to know.
Seen(b, C) == Found(b, {i \in Ifaces : Match(IfaceFor[b], i)}, C, KeyFor[b])

\* It knows that as soon as the first lookup has started.
Working(b, t) ==
    /\ t \in Engine /\ Rooted(b, t.look[b]) /\ ~ t.again
    /\ Mine(b, t.known[b]) = IF t.look[b][1].todo THEN {} ELSE Seen(b, t.cache)

LEMMA LeastOf ==
    ASSUME NEW S, S \subseteq Nat, S # {}
    PROVE  Min(S) \in S /\ \A x \in S : Min(S) <= x
<1>1. \E x \in S : \A y \in S : x <= y
  BY LeastNumber
<1> QED
  BY <1>1 DEF Min

LEMMA GrownRoot ==
    ASSUME BrowserAssumption, NEW b \in Browsers, NEW t \in Engine, NEW u, Grow(b, t, u), Rooted(b, t.look[b])
    PROVE  Rooted(b, u.look[b]) /\ u.look[b][1] = t.look[b][1]
<1>1. u \in Engine
  BY DEF Grow, StepOf
<1> PICK k \in Nat : k = Len(t.look[b])
  BY LookFields
<1> PICK m \in Nat : m = Len(u.look[b])
  BY <1>1, LookFields
<1>2. 1 <= k /\ k <= m /\ m <= MaxLookups
  BY DEF Grow, Longer, Rooted
<1>3. \A n \in 1..k : u.look[b][n] = t.look[b][n]
  BY DEF Grow, Longer
<1>4. \A n \in (k + 1)..m : Stands(b, u.look[b][n].key)
  BY DEF Grow, Longer
<1>5. \A n \in 2..k : Stands(b, t.look[b][n].key)
  BY DEF Rooted
<1>6. u.look[b][1] = t.look[b][1]
  BY <1>2, <1>3
<1>7. ASSUME NEW n \in 2..m PROVE Stands(b, u.look[b][n].key)
  <2>1. CASE n <= k
    <3>1. n \in 1..k /\ n \in 2..k
      BY <2>1
    <3> QED
      BY <1>3, <1>5, <3>1
  <2>2. CASE ~ (n <= k)
    <3>1. n \in (k + 1)..m
      BY <2>2
    <3> QED
      BY <1>4, <3>1
  <2> QED
    BY <2>1, <2>2
<1>8. 1 <= m
  BY <1>2
<1>9. t.look[b][1].key = KeyFor[b] /\ t.look[b][1].on = IfaceFor[b]
  BY DEF Rooted
<1>10. Rooted(b, u.look[b])
  BY <1>2, <1>6, <1>7, <1>8, <1>9 DEF Rooted
<1> QED
  BY <1>6, <1>10

\* The engine in which lookup n of b is to start no more.
Started(b, t, n) == [t EXCEPT !.look[b][n].todo = FALSE]

LEMMA StartedFacts ==
    ASSUME NEW b \in Browsers, NEW t \in Engine, NEW n \in 1..Len(t.look[b])
    PROVE  LET u == Started(b, t, n)
           IN  /\ StepOf(b, t, u) /\ u.used = t.used /\ u.known = t.known /\ u.again = t.again
               /\ Len(u.look[b]) = Len(t.look[b])
               /\ \A m \in 1..Len(t.look[b]) :
                     /\ u.look[b][m].key = t.look[b][m].key /\ u.look[b][m].on = t.look[b][m].on
                     /\ u.look[b][m].todo = (t.look[b][m].todo /\ m # n)
<1> PICK u : u = Started(b, t, n)
  OBVIOUS
<1> PICK s : s = t.look[b]
  OBVIOUS
<1> PICK l : l = [s[n] EXCEPT !.todo = FALSE]
  OBVIOUS
<1> PICK q : q = [s EXCEPT ![n] = l]
  OBVIOUS
<1>1. s \in Seq(LookupSet) /\ \A m \in 1..Len(s) : s[m] \in LookupSet /\ s[m].todo \in BOOLEAN
  BY LookFields
<1>2. l \in LookupSet /\ l.key = s[n].key /\ l.on = s[n].on /\ l.todo = FALSE
  BY <1>1 DEF LookupSet
<1>3. /\ q \in Seq(LookupSet) /\ Len(q) = Len(s) /\ q[n] = l
      /\ \A m \in 1..Len(s) : m # n => q[m] = s[m]
  BY <1>1, <1>2
<1>4. /\ u.look = [t.look EXCEPT ![b] = q]
      /\ u.known = t.known /\ u.again = t.again /\ u.cache = t.cache /\ u.used = t.used /\ u.aborted = t.aborted
  BY DEF Started, Engine
<1>5. u.look \in [Browsers -> Seq(LookupSet)] /\ u.look[b] = q /\ \A c \in Browsers \ {b} : u.look[c] = t.look[c]
  BY <1>3, <1>4, EngineFields
<1>6. u \in Engine
  <2>1. u = [t EXCEPT !.look = u.look]
    BY <1>4 DEF Started, Engine
  <2> QED
    BY <1>5, <2>1 DEF Engine
<1>7. StepOf(b, t, u)
  BY <1>4, <1>5, <1>6 DEF StepOf
<1>8. \A m \in 1..Len(s) : /\ q[m].key = s[m].key /\ q[m].on = s[m].on
                           /\ q[m].todo = (s[m].todo /\ m # n)
  BY <1>1, <1>2, <1>3
<1>9. Len(u.look[b]) = Len(t.look[b])
  BY <1>3, <1>5
<1>10. \A m \in 1..Len(t.look[b]) : /\ u.look[b][m].key = t.look[b][m].key /\ u.look[b][m].on = t.look[b][m].on
                                    /\ u.look[b][m].todo = (t.look[b][m].todo /\ m # n)
  <2>1. u.look[b] = q
    BY <1>5
  <2> QED
    BY <1>8, <2>1
<1> QED
  BY <1>4, <1>7, <1>9, <1>10

LEMMA AskingStarted ==
    ASSUME NEW b \in Browsers, NEW t \in Engine, NEW n \in 1..Len(t.look[b]), t.look[b][n].todo, NEW i, NEW k
    PROVE  /\ <<b, n>> \notin Asking(t, i, k)
           /\ Asking(Started(b, t, n), i, k)
                = Asking(t, i, k) \cup (IF Wants(t.look[b][n], i, k) THEN {<<b, n>>} ELSE {})
<1> PICK u : u = Started(b, t, n)
  OBVIOUS
<1>1. /\ u \in Engine /\ Len(u.look[b]) = Len(t.look[b])
      /\ \A c \in Browsers \ {b} : u.look[c] = t.look[c]
      /\ \A m \in 1..Len(t.look[b]) :
            /\ u.look[b][m].key = t.look[b][m].key /\ u.look[b][m].on = t.look[b][m].on
            /\ u.look[b][m].todo = (t.look[b][m].todo /\ m # n)
  BY StartedFacts DEF StepOf
<1>2. <<b, n>> \notin Asking(t, i, k)
  BY Asks
<1> PICK X : X = Asking(t, i, k) \cup (IF Wants(t.look[b][n], i, k) THEN {<<b, n>>} ELSE {})
  OBVIOUS
<1>3. ASSUME NEW c \in Browsers, NEW m PROVE <<c, m>> \in Asking(u, i, k) <=> <<c, m>> \in X
  <2>1. <<c, m>> \in Asking(t, i, k) <=> m \in 1..Len(t.look[c]) /\ ~ t.look[c][m].todo /\ Wants(t.look[c][m], i, k)
    BY Asks
  <2>2. <<c, m>> \in Asking(u, i, k) <=> m \in 1..Len(u.look[c]) /\ ~ u.look[c][m].todo /\ Wants(u.look[c][m], i, k)
    BY <1>1, Asks
  <2>3. <<c, m>> = <<b, n>> <=> c = b /\ m = n
    OBVIOUS
  <2>4. <<c, m>> \in X <=> <<c, m>> \in Asking(t, i, k) \/ (Wants(t.look[b][n], i, k) /\ c = b /\ m = n)
    BY <2>3
  <2>5. CASE c # b
    <3>1. u.look[c] = t.look[c]
      BY <1>1, <2>5
    <3> QED
      BY <2>1, <2>2, <2>4, <2>5, <3>1
  <2>6. CASE c = b
    <3>1. ASSUME NEW j \in 1..Len(t.look[b]) PROVE Wants(u.look[b][j], i, k) <=> Wants(t.look[b][j], i, k)
      BY <1>1 DEF Wants
    <3>2. \A j \in 1..Len(t.look[b]) : ~ u.look[b][j].todo <=> ~ t.look[b][j].todo \/ j = n
      BY <1>1
    <3> QED
      BY <1>1, <2>1, <2>2, <2>4, <2>6, <3>1, <3>2
  <2> QED
    BY <2>5, <2>6
<1>4. \A x \in Asking(u, i, k) : x \in X
  BY <1>1, <1>3, AskingPairs
<1>5. \A x \in X : x \in Asking(u, i, k)
  <2>1. \A x \in X : \E c \in Browsers : \E m : x = <<c, m>>
    BY AskingPairs
  <2> QED
    BY <1>3, <2>1
<1> QED
  BY <1>2, <1>4, <1>5

\* The engines in which the lookups are the same ask the same.
LEMMA AskingLook ==
    ASSUME NEW t, NEW u, u.look = t.look, NEW i, NEW k
    PROVE  Asking(u, i, k) = Asking(t, i, k)
  BY DEF Asking

\* A lookup starts: it is counted.
LEMMA StartCounted ==
    ASSUME BrowserAssumption, up \subseteq Ifaces, NEW b \in Browsers, NEW t \in Engine, Counts(t, up),
           NEW n \in 1..Len(t.look[b]), t.look[b][n].todo, NEW v, Grow(b, Started(b, t, n), v)
    PROVE  Counts(AddQueriers(v, t.look[b][n]), up)
<1> PICK l \in LookupSet : l = t.look[b][n]
  BY LookFields
<1> PICK w : w = AddQueriers(v, l)
  OBVIOUS
<1>1. v \in Engine /\ v.used = t.used
  BY StartedFacts DEF Grow, StepOf
<1>2. /\ w.look = v.look
      /\ \A i \in up, k \in Keys : w.used[i][k] = IF Wants(l, i, k) THEN v.used[i][k] + 1 ELSE v.used[i][k]
  BY <1>1, QueriersAdded
<1> SUFFICES ASSUME NEW i \in up, NEW k \in Keys PROVE w.used[i][k] = Cardinality(Asking(w, i, k))
  BY DEF Counts
<1>3. Started(b, t, n) \in Engine
  BY StartedFacts DEF StepOf
<1>4. Asking(w, i, k) = Asking(Started(b, t, n), i, k)
  BY <1>2, <1>3, AskingLook, AskingGrow
<1>5. /\ <<b, n>> \notin Asking(t, i, k)
      /\ Asking(w, i, k) = Asking(t, i, k) \cup (IF Wants(l, i, k) THEN {<<b, n>>} ELSE {})
  BY <1>4, AskingStarted
<1>6. v.used[i][k] = Cardinality(Asking(t, i, k))
  BY <1>1 DEF Counts
<1>7. IsFiniteSet(Asking(t, i, k))
  BY AskingFinite
<1>8. CASE Wants(l, i, k)
  <2>1. Cardinality(Asking(t, i, k) \cup {<<b, n>>}) = Cardinality(Asking(t, i, k)) + 1
    BY <1>5, <1>7, FS_AddElement
  <2> QED
    BY <1>2, <1>5, <1>6, <1>8, <2>1
<1>9. CASE ~ Wants(l, i, k)
  <2>1. Asking(w, i, k) = Asking(t, i, k)
    BY <1>5, <1>9
  <2> QED
    BY <1>2, <1>6, <1>9, <2>1
<1> QED
  BY <1>8, <1>9

\* Every lookup of b that is to start comes after the first p.
After(b, t, p) == \A m \in 1..Len(t.look[b]) : t.look[b][m].todo => m > p

Works(b) == {t \in Engine : Working(b, t) /\ Counts(t, up)}

ToStart(b, t) == {n \in DOMAIN t.look[b] : t.look[b][n].todo}

LEMMA NothingToStart ==
    ASSUME NEW b, NEW t, ToStart(b, t) = {}
    PROVE  Go(b, t) = t
  BY DEF Go, ToStart

\* The first lookup that is to start does.
LEMMA FirstStarts ==
    ASSUME BrowserAssumption, up \subseteq Ifaces, NEW b \in Browsers, NEW t \in Works(b),
           ToStart(b, t) # {}, NEW p \in Nat, After(b, t, p)
    PROVE  StepOf(b, t, Go(b, t)) /\ Go(b, t) \in Works(b) /\ After(b, Go(b, t), p + 1)
<1> PICK n : n = Min(ToStart(b, t))
  OBVIOUS
<1>1. t \in Engine /\ Working(b, t) /\ Counts(t, up) /\ Rooted(b, t.look[b]) /\ ~ t.again
  BY DEF Works, Working
<1>2. DOMAIN t.look[b] = 1..Len(t.look[b]) /\ Len(t.look[b]) \in Nat
  BY <1>1, LookFields
<1>3. /\ n \in 1..Len(t.look[b]) /\ t.look[b][n].todo
      /\ \A m \in 1..Len(t.look[b]) : t.look[b][m].todo => n <= m
  <2>1. ToStart(b, t) \subseteq Nat
    BY <1>2 DEF ToStart
  <2>2. n \in ToStart(b, t) /\ \A m \in ToStart(b, t) : n <= m
    BY <2>1, LeastOf
  <2> QED
    BY <1>2, <2>2 DEF ToStart
<1> PICK l : l = t.look[b][n]
  OBVIOUS
<1> PICK a : a = Started(b, t, n)
  OBVIOUS
<1> PICK v : v = ScanCache(b, a, n)
  OBVIOUS
<1> PICK u : u = AddQueriers(v, l)
  OBVIOUS
<1>4. Go(b, t) = u
  BY DEF Go, ToStart, Started
<1>5. /\ StepOf(b, t, a) /\ a.used = t.used /\ a.known = t.known /\ a.again = t.again
      /\ Len(a.look[b]) = Len(t.look[b])
      /\ \A m \in 1..Len(t.look[b]) :
            /\ a.look[b][m].key = t.look[b][m].key /\ a.look[b][m].on = t.look[b][m].on
            /\ a.look[b][m].todo = (t.look[b][m].todo /\ m # n)
  BY <1>1, <1>3, StartedFacts
<1>6. a \in Engine /\ a.cache = t.cache
  BY <1>5 DEF StepOf
<1>7. l \in LookupSet /\ a.look[b][n].key = l.key /\ a.look[b][n].on = l.on
  BY <1>1, <1>3, <1>5, LookFields
<1>8. (n = 1 /\ l.key = KeyFor[b] /\ l.on = IfaceFor[b]) \/ (n \in 2..Len(t.look[b]) /\ Stands(b, l.key))
  <2>1. n = 1 \/ n \in 2..Len(t.look[b])
    BY <1>2, <1>3
  <2> QED
    BY <1>1, <2>1 DEF Rooted
<1>9. a \in Fit(b)
  BY <1>1, <1>5, <1>6 DEF Fit, Rooted
<1> PICK J : J = {i \in Ifaces : Match(a.look[b][n].on, i)}
  OBVIOUS
<1> PICK F : F = Found(b, J, a.cache, l.key)
  OBVIOUS
<1>10. Came(b, a, v, F)
  BY <1>7, <1>8, <1>9, CacheScanned
<1>11. Grow(b, a, v) /\ v \in Engine /\ v.cache = t.cache
  BY <1>6, <1>10 DEF Came, Grow, StepOf
<1>12. u \in Engine /\ u.cache = v.cache /\ u.look = v.look /\ u.known = v.known /\ u.again = v.again
  BY <1>7, <1>11, QueriersAdded
<1>13. StepOf(b, t, u)
  BY <1>5, <1>11, <1>12 DEF Grow, StepOf
<1>14. Counts(u, up)
  BY <1>1, <1>3, <1>11, StartCounted
<1>15. Rooted(b, a.look[b])
  <2>1. 1 <= Len(t.look[b]) /\ 1 \in 1..Len(t.look[b])
    BY <1>1, <1>2 DEF Rooted
  <2>2. \A m \in 2..Len(t.look[b]) : m \in 1..Len(t.look[b])
    BY <1>2
  <2> QED
    BY <1>1, <1>5, <2>1, <2>2 DEF Rooted
<1>16. Rooted(b, u.look[b]) /\ u.look[b][1] = a.look[b][1]
  BY <1>6, <1>11, <1>12, <1>15, GrownRoot
<1>17. 1 \in 1..Len(t.look[b])
  BY <1>1, <1>2 DEF Rooted
<1>18. Mine(b, u.known[b]) = (IF u.look[b][1].todo THEN {} ELSE Seen(b, u.cache)) /\ ~ u.again
  <2>1. CASE n = 1 /\ l.key = KeyFor[b] /\ l.on = IfaceFor[b]
    <3>1. Mine(b, a.known[b]) = {}
      BY <1>1, <1>3, <1>5, <2>1 DEF Working
    <3>2. F = Seen(b, u.cache)
      BY <1>6, <1>7, <1>11, <1>12, <2>1 DEF Seen
    <3>3. Mine(b, v.known[b]) = F /\ ~ v.again
      BY <1>1, <1>5, <1>10, <3>1 DEF Came
    <3>4. ~ u.look[b][1].todo
      BY <1>5, <1>16, <1>17, <2>1
    <3> QED
      BY <1>12, <3>2, <3>3, <3>4
  <2>2. CASE n \in 2..Len(t.look[b]) /\ Stands(b, l.key)
    <3>1. F = {}
      BY <2>2, StandsFor DEF Found, Fresh
    <3>2. Mine(b, v.known[b]) = Mine(b, t.known[b]) /\ ~ v.again
      BY <1>1, <1>5, <1>10, <3>1 DEF Came
    <3>3. ~ t.look[b][1].todo
      <4>1. ~ (n <= 1)
        BY <2>2
      <4> QED
        BY <1>3, <1>17, <4>1
    <3>4. ~ u.look[b][1].todo
      BY <1>5, <1>16, <1>17, <3>3
    <3>5. Mine(b, t.known[b]) = Seen(b, t.cache)
      BY <1>1, <3>3 DEF Working
    <3> QED
      BY <1>11, <1>12, <3>2, <3>4, <3>5
  <2> QED
    BY <1>8, <2>1, <2>2
<1>19. Working(b, u)
  BY <1>12, <1>16, <1>18 DEF Working
<1>20. After(b, u, p + 1)
  <2> PICK k \in Nat : k = Len(a.look[b])
    BY <1>6, LookFields
  <2> PICK q \in Nat : q = Len(v.look[b])
    BY <1>11, LookFields
  <2>1. n \in 1..k /\ n > p
    BY <1>3, <1>5 DEF After
  <2>2. \A m \in 1..k : v.look[b][m] = a.look[b][m]
    BY <1>11 DEF Grow, Longer
  <2> SUFFICES ASSUME NEW m \in 1..q, v.look[b][m].todo PROVE m > p + 1
    BY <1>12 DEF After
  <2>3. CASE m <= k
    <3>1. m \in 1..Len(t.look[b]) /\ m \in 1..k
      BY <1>5, <2>3
    <3>2. t.look[b][m].todo /\ m # n
      BY <1>5, <2>2, <3>1
    <3>3. n <= m
      BY <1>3, <3>1, <3>2
    <3> QED
      BY <2>1, <3>2, <3>3
  <2>4. CASE ~ (m <= k)
    BY <2>1, <2>4
  <2> QED
    BY <2>3, <2>4
<1> QED
  BY <1>4, <1>12, <1>13, <1>14, <1>19, <1>20 DEF Works

\* If nothing is to start, nothing does.
LEMMA AllIdle ==
    ASSUME BrowserAssumption, NEW b \in Browsers, NEW t \in Engine, ToStart(b, t) = {}
    PROVE  GoAll(b, t) = t
<1> DEFINE S == 1..MaxLookups
           Rec(f) == [s \in SUBSET S |-> IF s = {} THEN t ELSE Go(b, f[s \ {CHOOSE x \in s : TRUE}])]
           iter == CHOOSE f : f = Rec(f)
<1>1. GoAll(b, t) = iter[S]
  BY DEF GoAll, FoldFunction, FoldFunctionOnSet, MapThenFoldSet
<1> DEFINE g == [s \in SUBSET S |-> t]
<1>2. g = Rec(g)
  <2>1. ASSUME NEW s \in SUBSET S, s # {} PROVE Go(b, g[s \ {CHOOSE x \in s : TRUE}]) = t
    <3>1. s \ {CHOOSE x \in s : TRUE} \in SUBSET S
      OBVIOUS
    <3> QED
      BY <3>1, NothingToStart
  <2>2. \A s \in SUBSET S : (IF s = {} THEN t ELSE Go(b, g[s \ {CHOOSE x \in s : TRUE}])) = t
    BY <2>1
  <2> HIDE DEF S
  <2> QED
    BY <2>2
<1>3. iter = Rec(iter)
  <2> HIDE DEF Rec
  <2> QED
    BY <1>2
<1> HIDE DEF iter
<1>4. IsFiniteSet(S)
  BY Constants, FS_Interval
<1> DEFINE G == {s \in SUBSET S : iter[s] = t}
<1>5. {} \in G
  BY <1>3
<1>6. ASSUME NEW s \in SUBSET S, s # {}
      PROVE  \E x \in s : s \ {x} \in G => s \in G
  <2> PICK x : x = CHOOSE y \in s : TRUE
    OBVIOUS
  <2>1. x \in s
    BY <1>6
  <2>2. iter[s] = Go(b, iter[s \ {x}])
    BY <1>3, <1>6
  <2> QED
    BY <2>1, <2>2, NothingToStart
<1> HIDE DEF G
<1>7. S \in G
  BY <1>4, <1>5, <1>6, AllSubsets
<1> USE DEF G
<1> QED
  BY <1>1, <1>7

\* In MaxLookups rounds all do that are to, those too that are added meanwhile.
LEMMA AllStart ==
    ASSUME BrowserAssumption, up \subseteq Ifaces, NEW b \in Browsers, NEW t \in Works(b)
    PROVE  StepOf(b, t, GoAll(b, t)) /\ GoAll(b, t) \in Works(b) /\ ToStart(b, GoAll(b, t)) = {}
<1> DEFINE S == 1..MaxLookups
           Rec(f) == [s \in SUBSET S |-> IF s = {} THEN t ELSE Go(b, f[s \ {CHOOSE x \in s : TRUE}])]
           iter == CHOOSE f : f = Rec(f)
           pick == [s \in SUBSET S |-> CHOOSE x \in s : TRUE]
           step == [x \in S \X Works(b) |-> Go(b, x[2])]
<1>1. GoAll(b, t) = iter[S]
  BY DEF GoAll, FoldFunction, FoldFunctionOnSet, MapThenFoldSet
<1>2. \A s \in SUBSET S : s # {} => pick[s] \in s
  OBVIOUS
<1>3. IsFiniteSet(S) /\ Cardinality(S) = MaxLookups /\ MaxLookups \in Nat
  BY Constants, FS_Interval
<1>4. ASSUME NEW v \in Works(b), NEW p \in Nat, After(b, v, p)
      PROVE  StepOf(b, v, Go(b, v)) /\ Go(b, v) \in Works(b) /\ After(b, Go(b, v), p + 1)
  <2>1. CASE ToStart(b, v) = {}
    <3>1. Go(b, v) = v
      BY <2>1, NothingToStart
    <3>2. After(b, v, p + 1)
      <4>1. \A m \in 1..Len(v.look[b]) : ~ v.look[b][m].todo
        BY <2>1, LookFields DEF ToStart, Works
      <4> QED
        BY <4>1 DEF After
    <3>3. StepOf(b, v, v)
      BY DEF StepOf, Works
    <3> QED
      BY <3>1, <3>2, <3>3
  <2>2. CASE ToStart(b, v) # {}
    BY <1>4, <2>2, FirstStarts
  <2> QED
    BY <2>1, <2>2
<1>5. ASSUME NEW v \in Engine PROVE After(b, v, 0)
  BY LookFields DEF After
<1>6. \A v \in Works(b) : Go(b, v) \in Works(b)
  BY <1>4, <1>5 DEF Works
<1>7. Steps(step, S, Works(b)) /\ Picks(pick, S)
  <2>1. \A x \in S \X Works(b) : Go(b, x[2]) \in Works(b)
    BY <1>6
  <2> QED
    BY <1>2, <2>1 DEF Steps, Picks
<1>8. PICK f : Folds(f, S, Works(b), t, pick, step)
  <2> HIDE DEF S, pick, step
  <2> QED
    BY <1>3, <1>7, FoldExists
<1>9. f = Rec(f)
  <2>1. ASSUME NEW s \in SUBSET S, s # {}
        PROVE  step[<<pick[s], f[s \ {pick[s]}]>>] = Go(b, f[s \ {CHOOSE x \in s : TRUE}])
    <3>1. pick[s] = (CHOOSE x \in s : TRUE) /\ pick[s] \in S /\ f[s \ {pick[s]}] \in Works(b)
      <4> HIDE DEF S
      <4> QED
        BY <1>2, <1>8, <2>1 DEF Folds
    <3> HIDE DEF pick, S
    <3> QED
      BY <3>1
  <2> HIDE DEF step, pick, S
  <2> QED
    BY <1>8, <2>1 DEF Fold, Folds
<1>10. iter = Rec(iter)
  <2> HIDE DEF Rec
  <2> QED
    BY <1>9
<1> HIDE DEF iter, S
<1>11. iter[{}] = t
  BY <1>10
<1>12. ASSUME NEW s \in SUBSET S, s # {}
       PROVE  \E x \in s : iter[s] = Go(b, iter[s \ {x}])
  BY <1>10, <1>12
<1> DEFINE G == {s \in SUBSET S : /\ iter[s] \in Works(b) /\ StepOf(b, t, iter[s])
                                  /\ After(b, iter[s], Cardinality(s))}
<1>13. {} \in G
  <2>1. StepOf(b, t, t) /\ After(b, t, 0)
    BY <1>5 DEF StepOf, Works
  <2> QED
    BY <1>11, <2>1, FS_EmptySet
<1>14. ASSUME NEW s \in SUBSET S, s # {}
       PROVE  \E x \in s : s \ {x} \in G => s \in G
  <2>1. PICK x \in s : iter[s] = Go(b, iter[s \ {x}])
    BY <1>12, <1>14
  <2> SUFFICES ASSUME s \ {x} \in G PROVE s \in G
    OBVIOUS
  <2>2. /\ iter[s \ {x}] \in Works(b) /\ StepOf(b, t, iter[s \ {x}])
        /\ After(b, iter[s \ {x}], Cardinality(s \ {x}))
    OBVIOUS
  <2>3. Cardinality(s \ {x}) \in Nat /\ Cardinality(s) = Cardinality(s \ {x}) + 1
    <3>1. IsFiniteSet(s) /\ Cardinality(s) \in Nat
      BY <1>3, FS_Subset, FS_CardinalityType
    <3>2. IsFiniteSet(s \ {x}) /\ Cardinality(s \ {x}) = Cardinality(s) - 1
      BY <3>1, FS_RemoveElement
    <3> QED
      BY <3>1, <3>2, FS_CardinalityType
  <2>4. /\ StepOf(b, iter[s \ {x}], iter[s]) /\ iter[s] \in Works(b)
        /\ After(b, iter[s], Cardinality(s))
    BY <1>4, <2>1, <2>2, <2>3
  <2>5. StepOf(b, t, iter[s])
    BY <2>2, <2>4 DEF StepOf
  <2> QED
    BY <2>4, <2>5
<1> HIDE DEF G
<1>15. S \in G
  BY <1>3, <1>13, <1>14, AllSubsets
<1> USE DEF G
<1>16. iter[S] \in Works(b) /\ StepOf(b, t, iter[S]) /\ After(b, iter[S], MaxLookups)
  BY <1>3, <1>15
<1>17. ToStart(b, iter[S]) = {}
  <2>1. Len(iter[S].look[b]) <= MaxLookups /\ iter[S] \in Engine
    BY <1>16 DEF Works, Working, Rooted
  <2>2. DOMAIN iter[S].look[b] = 1..Len(iter[S].look[b]) /\ Len(iter[S].look[b]) \in Nat
    BY <2>1, LookFields
  <2>3. \A m \in 1..Len(iter[S].look[b]) : ~ (m > MaxLookups)
    BY <1>3, <2>1, <2>2
  <2> QED
    BY <1>16, <2>2, <2>3 DEF ToStart, After
<1> QED
  BY <1>1, <1>16, <1>17

-----------------------------------------------------------------------------
(***************************************************************************)
(* What is notified                                                        *)
(***************************************************************************)
\* A browser that runs, whose client knows what the caches C hold, and one that does not.
Runs(b, t, C) == Rooted(b, t.look[b]) /\ ToStart(b, t) = {} /\ Mine(b, t.known[b]) = Seen(b, C)
Rests(b, t) == t.look[b] = <<>> /\ t.known[b] = {}

\* Only the first lookup is notified of the records of the browser's key.
LEMMA NotifiedFacts ==
    ASSUME BrowserAssumption, NEW b \in Browsers, NEW t \in Engine, NEW r \in Records, NEW i \in Ifaces,
           Rooted(b, t.look[b])
    PROVE  /\ Notified(b, t, i, r) \subseteq 1..Len(t.look[b])
           /\ Notified(b, t, i, r) # {} /\ IsCname(r) => r.key = KeyFor[b]
           /\ Fresh(b, r) => Notified(b, t, i, r) = IF Match(IfaceFor[b], i) THEN {1} ELSE {}
<1>1. DOMAIN t.look[b] = 1..Len(t.look[b]) /\ Len(t.look[b]) \in Nat
  BY LookFields
<1>2. \A n \in 1..Len(t.look[b]) : n = 1 \/ n \in 2..Len(t.look[b])
  BY <1>1
<1>3. \A n \in 1..Len(t.look[b]) : n = 1 \/ Stands(b, t.look[b][n].key)
  BY <1>2 DEF Rooted
<1>4. 1 \in 1..Len(t.look[b]) /\ t.look[b][1].key = KeyFor[b] /\ t.look[b][1].on = IfaceFor[b]
  BY <1>1 DEF Rooted
<1>5. Notified(b, t, i, r) \subseteq 1..Len(t.look[b])
  BY <1>1 DEF Notified
<1>6. ASSUME NEW n \in Notified(b, t, i, r), n # 1
      PROVE  r.key # KeyFor[b] /\ ~ IsCname(r)
  <2>1. Stands(b, r.key)
    BY <1>3, <1>5, <1>6 DEF Notified
  <2> QED
    BY <2>1, StandsFor
<1>7. 1 \in Notified(b, t, i, r) => r.key = KeyFor[b]
  BY <1>4 DEF Notified
<1>8. Notified(b, t, i, r) # {} /\ IsCname(r) => r.key = KeyFor[b]
  BY <1>6, <1>7
<1>9. ASSUME Fresh(b, r) PROVE Notified(b, t, i, r) = IF Match(IfaceFor[b], i) THEN {1} ELSE {}
  <2>1. \A n \in Notified(b, t, i, r) : n = 1
    BY <1>6, <1>9 DEF Fresh
  <2>2. 1 \in Notified(b, t, i, r) <=> Match(IfaceFor[b], i)
    BY <1>1, <1>4, <1>9 DEF Fresh, Notified
  <2> QED
    BY <2>1, <2>2
<1> QED
  BY <1>5, <1>8, <1>9

EventsOf(b, t, ev, i, r) == FoldSet(LAMBDA n, v : Event(b, v, n, ev, r, i), t, Notified(b, t, i, r))

\* A record comes to the lookups that are notified.
LEMMA NewsCome ==
    ASSUME BrowserAssumption, NEW b \in Browsers, NEW t \in Engine, NEW r \in Records, NEW i \in Ifaces,
           Rooted(b, t.look[b])
    PROVE  Came(b, t, EventsOf(b, t, "NEW", i, r), IF Notified(b, t, i, r) = {} THEN {} ELSE News(b, i, r))
<1> DEFINE N == Notified(b, t, i, r)
           Rec(f) == [s \in SUBSET N |-> IF s = {} THEN t
                              ELSE Event(b, f[s \ {CHOOSE x \in s : TRUE}], CHOOSE x \in s : TRUE, "NEW", r, i)]
           iter == CHOOSE f : f = Rec(f)
           pick == [s \in SUBSET N |-> CHOOSE x \in s : TRUE]
           step == [p \in N \X Fit(b) |-> Event(b, p[2], p[1], "NEW", r, i)]
<1>1. EventsOf(b, t, "NEW", i, r) = iter[N]
  BY DEF EventsOf, FoldSet, MapThenFoldSet
<1>2. /\ N \subseteq 1..Len(t.look[b]) /\ Len(t.look[b]) \in Nat /\ t \in Fit(b)
      /\ N # {} /\ IsCname(r) => r.key = KeyFor[b]
      /\ Fresh(b, r) => N \subseteq {1}
  BY NotifiedFacts, LookFields DEF Fit, Rooted
<1> HIDE DEF N
<1>3. IsFiniteSet(N)
  <2>1. IsFiniteSet(1..Len(t.look[b]))
    BY <1>2, FS_Interval
  <2> QED
    BY <1>2, <2>1, FS_Subset
<1>4. ASSUME NEW n \in N, NEW v \in Fit(b)
      PROVE  Came(b, v, Event(b, v, n, "NEW", r, i), News(b, i, r))
  <2>1. v \in Engine /\ Len(v.look[b]) <= MaxLookups /\ (IsCname(r) => r.key = KeyFor[b])
    BY <1>2 DEF Fit
  <2> QED
    BY <2>1, EventNew
<1>5. \A p \in N \X Fit(b) : Event(b, p[2], p[1], "NEW", r, i) \in Fit(b)
  <2> SUFFICES ASSUME NEW p \in N \X Fit(b) PROVE Event(b, p[2], p[1], "NEW", r, i) \in Fit(b)
    OBVIOUS
  <2>1. p[1] \in N /\ p[2] \in Fit(b)
    OBVIOUS
  <2> QED
    BY <1>4, <2>1, GrowFits DEF Came
<1>6. \A s \in SUBSET N : s # {} => pick[s] \in s
  OBVIOUS
<1>7. Steps(step, N, Fit(b)) /\ Picks(pick, N)
  BY <1>5, <1>6 DEF Steps, Picks
<1>8. PICK f : Folds(f, N, Fit(b), t, pick, step)
  <2> HIDE DEF pick, step
  <2> QED
    BY <1>2, <1>3, <1>7, FoldExists
<1>9. f = Rec(f)
  <2>1. ASSUME NEW s \in SUBSET N, s # {}
        PROVE  step[<<pick[s], f[s \ {pick[s]}]>>]
                 = Event(b, f[s \ {CHOOSE x \in s : TRUE}], CHOOSE x \in s : TRUE, "NEW", r, i)
    <3>1. pick[s] = (CHOOSE x \in s : TRUE) /\ pick[s] \in N /\ f[s \ {pick[s]}] \in Fit(b)
      BY <1>6, <1>8, <2>1 DEF Folds
    <3> HIDE DEF pick
    <3> QED
      BY <3>1
  <2> HIDE DEF step, pick
  <2> QED
    BY <1>8, <2>1 DEF Fold, Folds
<1>10. iter = Rec(iter)
  <2> HIDE DEF Rec
  <2> QED
    BY <1>9
<1> HIDE DEF iter
<1>11. iter[{}] = t
  BY <1>10
<1>12. ASSUME NEW s \in SUBSET N, s # {}
       PROVE  \E n \in s : iter[s] = Event(b, iter[s \ {n}], n, "NEW", r, i)
  BY <1>10, <1>12
<1> DEFINE G == {s \in SUBSET N : Came(b, t, iter[s], IF s = {} THEN {} ELSE News(b, i, r))}
<1>13. {} \in G
  <2>1. Came(b, t, t, {})
    BY <1>2, CameNone DEF Fit
  <2> QED
    BY <1>11, <2>1
<1>14. ASSUME NEW s \in SUBSET N, s # {}
       PROVE  \E n \in s : s \ {n} \in G => s \in G
  <2>1. PICK n \in s : iter[s] = Event(b, iter[s \ {n}], n, "NEW", r, i)
    BY <1>12, <1>14
  <2> SUFFICES ASSUME s \ {n} \in G PROVE s \in G
    OBVIOUS
  <2> PICK F : F = IF s \ {n} = {} THEN {} ELSE News(b, i, r)
    OBVIOUS
  <2>2. Came(b, t, iter[s \ {n}], F)
    OBVIOUS
  <2>3. iter[s \ {n}] \in Fit(b) /\ n \in N
    BY <2>2, GrowFits DEF Came
  <2>4. Came(b, iter[s \ {n}], iter[s], News(b, i, r))
    BY <1>4, <2>1, <2>3
  <2>5. F \cup News(b, i, r) = News(b, i, r) /\ F \cap News(b, i, r) = {}
    <3>1. CASE Fresh(b, r)
      <4>1. s \ {n} = {}
        BY <1>2, <2>3, <3>1
      <4> QED
        BY <4>1
    <3>2. CASE ~ Fresh(b, r)
      BY <3>2 DEF News
    <3> QED
      BY <3>1, <3>2
  <2>6. Came(b, t, iter[s], News(b, i, r))
    <3>1. Came(b, t, iter[s], F \cup News(b, i, r))
      BY <2>2, <2>4, <2>5, CameTrans
    <3> QED
      BY <2>5, <3>1
  <2> QED
    BY <1>14, <2>6
<1> HIDE DEF G
<1>15. N \in G
  BY <1>3, <1>13, <1>14, AllSubsets
<1> USE DEF G
<1>16. Came(b, t, iter[N], IF N = {} THEN {} ELSE News(b, i, r))
  BY <1>15
<1> QED
  BY <1>1, <1>16 DEF N

\* The records F, which it knew, go from a browser's client.
Went(b, t, u, F) ==
    /\ StepOf(b, t, u) /\ u.look = t.look /\ u.used = t.used
    /\ Mine(b, u.known[b]) = Mine(b, t.known[b]) \ F
    /\ ~ t.again /\ F \subseteq Mine(b, t.known[b]) => ~ u.again

\* A record goes from the lookups that are notified.
LEMMA NewsGo ==
    ASSUME BrowserAssumption, NEW b \in Browsers, NEW t \in Engine, NEW r \in Records, NEW i \in Ifaces,
           Rooted(b, t.look[b])
    PROVE  Went(b, t, EventsOf(b, t, "REMOVE", i, r), IF Notified(b, t, i, r) = {} THEN {} ELSE News(b, i, r))
<1> DEFINE N == Notified(b, t, i, r)
           Same == {v \in Engine : v.look = t.look}
           Rec(f) == [s \in SUBSET N |-> IF s = {} THEN t
                              ELSE Event(b, f[s \ {CHOOSE x \in s : TRUE}], CHOOSE x \in s : TRUE, "REMOVE", r, i)]
           iter == CHOOSE f : f = Rec(f)
           pick == [s \in SUBSET N |-> CHOOSE x \in s : TRUE]
           step == [p \in N \X Same |-> Event(b, p[2], p[1], "REMOVE", r, i)]
<1>1. EventsOf(b, t, "REMOVE", i, r) = iter[N]
  BY DEF EventsOf, FoldSet, MapThenFoldSet
<1>2. /\ N \subseteq 1..Len(t.look[b]) /\ Len(t.look[b]) \in Nat /\ DOMAIN t.look[b] = 1..Len(t.look[b])
      /\ \A n \in N : t.look[b][n].key = r.key
      /\ Fresh(b, r) => N \subseteq {1}
  BY NotifiedFacts, LookFields DEF Notified
<1> HIDE DEF N
<1>3. IsFiniteSet(N)
  <2>1. IsFiniteSet(1..Len(t.look[b]))
    BY <1>2, FS_Interval
  <2> QED
    BY <1>2, <2>1, FS_Subset
<1>4. ASSUME NEW n \in N, NEW v \in Same
      PROVE  Went(b, v, Event(b, v, n, "REMOVE", r, i), News(b, i, r))
  <2>1. v \in Engine /\ n \in DOMAIN v.look[b] /\ v.look[b][n].key = r.key
    BY <1>2
  <2> PICK u : u = Event(b, v, n, "REMOVE", r, i)
    OBVIOUS
  <2>2. /\ StepOf(b, v, u) /\ u.look = v.look /\ u.used = v.used
        /\ Mine(b, u.known[b]) = Mine(b, v.known[b]) \ (IF Fresh(b, r) THEN {<<i, r>>} ELSE {})
        /\ ~ v.again /\ (Fresh(b, r) => <<i, r>> \in Mine(b, v.known[b])) => ~ u.again
    BY <2>1, EventRemove
  <2>3. News(b, i, r) \subseteq Mine(b, v.known[b]) => (Fresh(b, r) => <<i, r>> \in Mine(b, v.known[b]))
    BY DEF News
  <2> QED
    BY <2>2, <2>3 DEF Went, News
<1>5. \A p \in N \X Same : Event(b, p[2], p[1], "REMOVE", r, i) \in Same
  <2> SUFFICES ASSUME NEW p \in N \X Same PROVE Event(b, p[2], p[1], "REMOVE", r, i) \in Same
    OBVIOUS
  <2>1. p[1] \in N /\ p[2] \in Same
    OBVIOUS
  <2> QED
    BY <1>4, <2>1 DEF Went, StepOf
<1>6. \A s \in SUBSET N : s # {} => pick[s] \in s
  OBVIOUS
<1>7. Steps(step, N, Same) /\ Picks(pick, N) /\ t \in Same
  BY <1>5, <1>6 DEF Steps, Picks
<1>8. PICK f : Folds(f, N, Same, t, pick, step)
  <2> HIDE DEF pick, step, Same
  <2> QED
    BY <1>3, <1>7, FoldExists
<1>9. f = Rec(f)
  <2> HIDE DEF Same
  <2>1. ASSUME NEW s \in SUBSET N, s # {}
        PROVE  step[<<pick[s], f[s \ {pick[s]}]>>]
                 = Event(b, f[s \ {CHOOSE x \in s : TRUE}], CHOOSE x \in s : TRUE, "REMOVE", r, i)
    <3>1. pick[s] = (CHOOSE x \in s : TRUE) /\ pick[s] \in N /\ f[s \ {pick[s]}] \in Same
      BY <1>6, <1>8, <2>1 DEF Folds
    <3> HIDE DEF pick
    <3> QED
      BY <3>1
  <2> HIDE DEF step, pick
  <2> QED
    BY <1>8, <2>1 DEF Fold, Folds
<1>10. iter = Rec(iter)
  <2> HIDE DEF Rec
  <2> QED
    BY <1>9
<1> HIDE DEF iter
<1>11. iter[{}] = t
  BY <1>10
<1>12. ASSUME NEW s \in SUBSET N, s # {}
       PROVE  \E n \in s : iter[s] = Event(b, iter[s \ {n}], n, "REMOVE", r, i)
  BY <1>10, <1>12
<1> DEFINE G == {s \in SUBSET N : Went(b, t, iter[s], IF s = {} THEN {} ELSE News(b, i, r))}
<1>13. {} \in G
  BY <1>11 DEF Went, StepOf
<1>14. ASSUME NEW s \in SUBSET N, s # {}
       PROVE  \E n \in s : s \ {n} \in G => s \in G
  <2>1. PICK n \in s : iter[s] = Event(b, iter[s \ {n}], n, "REMOVE", r, i)
    BY <1>12, <1>14
  <2> SUFFICES ASSUME s \ {n} \in G PROVE s \in G
    OBVIOUS
  <2> PICK F : F = IF s \ {n} = {} THEN {} ELSE News(b, i, r)
    OBVIOUS
  <2>2. Went(b, t, iter[s \ {n}], F)
    OBVIOUS
  <2>3. iter[s \ {n}] \in Same /\ n \in N
    BY <2>2 DEF Went, StepOf
  <2>4. Went(b, iter[s \ {n}], iter[s], News(b, i, r))
    BY <1>4, <2>1, <2>3
  <2>5. F = {}
    <3>1. CASE Fresh(b, r)
      <4>1. s \ {n} = {}
        BY <1>2, <2>3, <3>1
      <4> QED
        BY <4>1
    <3>2. CASE ~ Fresh(b, r)
      BY <3>2 DEF News
    <3> QED
      BY <3>1, <3>2
  <2>6. Went(b, t, iter[s], News(b, i, r))
    <3> PICK v : v = iter[s \ {n}]
      OBVIOUS
    <3> PICK u : u = iter[s]
      OBVIOUS
    <3>1. /\ StepOf(b, t, v) /\ v.look = t.look /\ v.used = t.used
          /\ Mine(b, v.known[b]) = Mine(b, t.known[b]) /\ (~ t.again => ~ v.again)
      BY <2>2, <2>5 DEF Went
    <3>2. Went(b, v, u, News(b, i, r))
      BY <2>4
    <3>3. Went(b, t, u, News(b, i, r))
      BY <3>1, <3>2 DEF Went, StepOf
    <3> QED
      BY <3>3
  <2> QED
    BY <1>14, <2>6
<1> HIDE DEF G
<1>15. N \in G
  BY <1>3, <1>13, <1>14, AllSubsets
<1> USE DEF G
<1>16. Went(b, t, iter[N], IF N = {} THEN {} ELSE News(b, i, r))
  BY <1>15
<1> QED
  BY <1>1, <1>16 DEF N

-----------------------------------------------------------------------------
(***************************************************************************)
(* A browser is notified                                                   *)
(***************************************************************************)
One(b, t, ev, i, r) == GoAll(b, EventsOf(b, t, ev, i, r))

LEMMA RestIgnores ==
    ASSUME BrowserAssumption, NEW b \in Browsers, NEW t \in Engine, NEW ev, NEW r, NEW i, Rests(b, t)
    PROVE  One(b, t, ev, i, r) = t
<1>1. DOMAIN t.look[b] = {}
  BY DEF Rests
<1>2. Notified(b, t, i, r) = {} /\ ToStart(b, t) = {}
  BY <1>1 DEF Notified, ToStart
<1>3. EventsOf(b, t, ev, i, r) = t
  <2> DEFINE N == Notified(b, t, i, r)
             Rec(f) == [s \in SUBSET N |-> IF s = {} THEN t
                                ELSE Event(b, f[s \ {CHOOSE x \in s : TRUE}], CHOOSE x \in s : TRUE, ev, r, i)]
             iter == CHOOSE f : f = Rec(f)
  <2>1. EventsOf(b, t, ev, i, r) = iter[N]
    BY DEF EventsOf, FoldSet, MapThenFoldSet
  <2>2. N = {}
    BY <1>2
  <2> HIDE DEF N
  <2> DEFINE g == [s \in SUBSET N |-> t]
  <2>3. g = Rec(g)
    BY <2>2
  <2>4. iter = Rec(iter)
    <3> HIDE DEF Rec
    <3> QED
      BY <2>3
  <2> HIDE DEF iter
  <2>5. iter[N] = t
    BY <2>2, <2>4
  <2> QED
    BY <2>1, <2>5
<1> QED
  BY <1>2, <1>3, AllIdle DEF One

LEMMA SeenPairs ==
    ASSUME NEW b, NEW C
    PROVE  /\ Seen(b, C) \subseteq Ifaces \X Records
           /\ \A j \in Ifaces, q \in Records :
                 <<j, q>> \in Seen(b, C) <=> q \in C[j] /\ Match(IfaceFor[b], j) /\ Fresh(b, q)
  BY DEF Seen, Found, Fresh

LEMMA SamePairs ==
    ASSUME NEW S, NEW T, NEW X, NEW Y, X \subseteq S \X T, Y \subseteq S \X T,
           \A j \in S, q \in T : <<j, q>> \in X <=> <<j, q>> \in Y
    PROVE  X = Y
<1>1. \A x \in X : x \in Y
  <2> SUFFICES ASSUME NEW x \in X PROVE x \in Y
    OBVIOUS
  <2>1. PICK j \in S, q \in T : x = <<j, q>>
    OBVIOUS
  <2> QED
    BY <2>1
<1>2. \A x \in Y : x \in X
  <2> SUFFICES ASSUME NEW x \in Y PROVE x \in X
    OBVIOUS
  <2>1. PICK j \in S, q \in T : x = <<j, q>>
    OBVIOUS
  <2> QED
    BY <2>1
<1> QED
  BY <1>1, <1>2

\* What the client is to know when record r of interface i is new, or gone.
Adds(C, D, i, r) == \A j \in Ifaces : D[j] = IF j = i THEN C[j] \cup {r} ELSE C[j]
Drops(C, D, i, r) == \A j \in Ifaces : D[j] = IF j = i THEN C[j] \ {r} ELSE C[j]
ToTell(b, i, r) == IF Fresh(b, r) /\ Match(IfaceFor[b], i) THEN {<<i, r>>} ELSE {}

LEMMA SeenNew ==
    ASSUME NEW b, NEW C, NEW D, NEW i \in Ifaces, NEW r \in Records,
           Adds(C, D, i, r)
    PROVE  Seen(b, D) = Seen(b, C) \cup ToTell(b, i, r)
<1>1. ToTell(b, i, r) \subseteq Ifaces \X Records
  BY DEF ToTell
<1>2. ASSUME NEW j \in Ifaces, NEW q \in Records
      PROVE  <<j, q>> \in Seen(b, D) <=> <<j, q>> \in Seen(b, C) \/ <<j, q>> \in ToTell(b, i, r)
  <2>1. <<j, q>> \in ToTell(b, i, r) <=> j = i /\ q = r /\ Fresh(b, r) /\ Match(IfaceFor[b], i)
    BY DEF ToTell
  <2>2. q \in D[j] <=> q \in C[j] \/ (j = i /\ q = r)
    BY DEF Adds
  <2> QED
    BY <2>1, <2>2, SeenPairs
<1> PICK Y : Y = Seen(b, C) \cup ToTell(b, i, r)
  OBVIOUS
<1>3. Y \subseteq Ifaces \X Records /\ Seen(b, D) \subseteq Ifaces \X Records
  BY <1>1, SeenPairs
<1>4. \A j \in Ifaces, q \in Records : <<j, q>> \in Seen(b, D) <=> <<j, q>> \in Y
  BY <1>2
<1> QED
  BY <1>3, <1>4, SamePairs

LEMMA SeenGone ==
    ASSUME NEW b, NEW C, NEW D, NEW i \in Ifaces, NEW r \in Records,
           Drops(C, D, i, r)
    PROVE  Seen(b, D) = Seen(b, C) \ ToTell(b, i, r)
<1>1. ASSUME NEW j \in Ifaces, NEW q \in Records
      PROVE  <<j, q>> \in Seen(b, D) <=> <<j, q>> \in Seen(b, C) /\ <<j, q>> \notin ToTell(b, i, r)
  <2>1. <<j, q>> \in ToTell(b, i, r) <=> j = i /\ q = r /\ Fresh(b, r) /\ Match(IfaceFor[b], i)
    BY DEF ToTell
  <2>2. q \in D[j] <=> q \in C[j] /\ ~ (j = i /\ q = r)
    BY DEF Drops
  <2> QED
    BY <2>1, <2>2, SeenPairs
<1> PICK Y : Y = Seen(b, C) \ ToTell(b, i, r)
  OBVIOUS
<1>2. Y \subseteq Ifaces \X Records /\ Seen(b, D) \subseteq Ifaces \X Records
  BY SeenPairs
<1>3. \A j \in Ifaces, q \in Records : <<j, q>> \in Seen(b, D) <=> <<j, q>> \in Y
  BY <1>1
<1> QED
  BY <1>2, <1>3, SamePairs

\* What b is notified of is what it is to tell its client.
LEMMA NotifiedNews ==
    ASSUME BrowserAssumption, NEW b \in Browsers, NEW t \in Engine, NEW r \in Records, NEW i \in Ifaces,
           Rooted(b, t.look[b])
    PROVE  (IF Notified(b, t, i, r) = {} THEN {} ELSE News(b, i, r))
             = ToTell(b, i, r)
  BY NotifiedFacts DEF News, ToTell

LEMMA OneNew ==
    ASSUME BrowserAssumption, up \subseteq Ifaces, NEW b \in Browsers, NEW t \in Engine, Counts(t, up), ~ t.again,
           NEW C, NEW i \in Ifaces, NEW r \in Records, r \notin C[i],
           Adds(C, t.cache, i, r),
           Runs(b, t, C)
    PROVE  LET u == One(b, t, "NEW", i, r)
           IN  StepOf(b, t, u) /\ Counts(u, up) /\ ~ u.again /\ Runs(b, u, u.cache)
<1> PICK v : v = EventsOf(b, t, "NEW", i, r)
  OBVIOUS
<1> PICK u : u = GoAll(b, v)
  OBVIOUS
<1> PICK F : F = ToTell(b, i, r)
  OBVIOUS
<1>1. Rooted(b, t.look[b]) /\ ToStart(b, t) = {} /\ Mine(b, t.known[b]) = Seen(b, C)
  BY DEF Runs
<1>2. Came(b, t, v, F)
  <2> PICK H : H = IF Notified(b, t, i, r) = {} THEN {} ELSE News(b, i, r)
    OBVIOUS
  <2>1. Came(b, t, v, H)
    BY <1>1, NewsCome
  <2>2. H = F
    BY <1>1, NotifiedNews
  <2> QED
    BY <2>1, <2>2
<1>3. Grow(b, t, v) /\ v \in Engine /\ StepOf(b, t, v) /\ v.cache = t.cache /\ v.used = t.used
  BY <1>2 DEF Came, Grow, StepOf
<1>4. Rooted(b, v.look[b]) /\ v.look[b][1] = t.look[b][1]
  BY <1>1, <1>3, GrownRoot
<1>5. ~ v.look[b][1].todo
  <2>1. 1 \in DOMAIN t.look[b]
    BY <1>1, LookFields DEF Rooted
  <2> QED
    BY <1>1, <1>4, <2>1 DEF ToStart
<1>6. Seen(b, v.cache) = Seen(b, C) \cup F
  <2> PICK D : D = t.cache
    OBVIOUS
  <2>1. Adds(C, D, i, r)
    OBVIOUS
  <2>2. Seen(b, D) = Seen(b, C) \cup ToTell(b, i, r)
    BY <2>1, SeenNew
  <2> QED
    BY <1>3, <2>2
<1>7. F \cap Seen(b, C) = {}
  BY SeenPairs DEF ToTell
<1>8. Mine(b, v.known[b]) = Seen(b, v.cache) /\ ~ v.again
  BY <1>1, <1>2, <1>6, <1>7 DEF Came
<1>9. Working(b, v)
  BY <1>3, <1>4, <1>5, <1>8 DEF Working
<1>10. Counts(v, up)
  <2>1. \A j, k : Asking(t, j, k) = Asking(v, j, k)
    BY <1>3, AskingGrow
  <2> QED
    BY <1>3, <2>1 DEF Counts
<1>11. v \in Works(b)
  BY <1>3, <1>9, <1>10 DEF Works
<1>12. StepOf(b, v, u) /\ u \in Works(b) /\ ToStart(b, u) = {}
  BY <1>11, AllStart
<1>13. StepOf(b, t, u)
  BY <1>3, <1>12 DEF StepOf
<1>14. u \in Engine /\ Rooted(b, u.look[b]) /\ ~ u.again /\ Counts(u, up)
       /\ Mine(b, u.known[b]) = IF u.look[b][1].todo THEN {} ELSE Seen(b, u.cache)
  BY <1>12 DEF Works, Working
<1>15. ~ u.look[b][1].todo
  <2>1. 1 \in DOMAIN u.look[b]
    BY <1>14, LookFields DEF Rooted
  <2> QED
    BY <1>12, <2>1 DEF ToStart
<1>16. Runs(b, u, u.cache)
  BY <1>12, <1>14, <1>15 DEF Runs
<1> QED
  BY <1>13, <1>14, <1>16 DEF One

LEMMA OneRemove ==
    ASSUME BrowserAssumption, NEW b \in Browsers, NEW t \in Engine, ~ t.again,
           NEW C, NEW i \in Ifaces, NEW r \in Records, r \in C[i],
           Drops(C, t.cache, i, r),
           Runs(b, t, C)
    PROVE  LET u == One(b, t, "REMOVE", i, r)
           IN  StepOf(b, t, u) /\ u.look = t.look /\ u.used = t.used /\ ~ u.again /\ Runs(b, u, u.cache)
<1> PICK v : v = EventsOf(b, t, "REMOVE", i, r)
  OBVIOUS
<1> PICK F : F = ToTell(b, i, r)
  OBVIOUS
<1>1. Rooted(b, t.look[b]) /\ ToStart(b, t) = {} /\ Mine(b, t.known[b]) = Seen(b, C)
  BY DEF Runs
<1>2. Went(b, t, v, F)
  <2> PICK H : H = IF Notified(b, t, i, r) = {} THEN {} ELSE News(b, i, r)
    OBVIOUS
  <2>1. Went(b, t, v, H)
    BY <1>1, NewsGo
  <2>2. H = F
    BY <1>1, NotifiedNews
  <2> QED
    BY <2>1, <2>2
<1>3. StepOf(b, t, v) /\ v \in Engine /\ v.cache = t.cache /\ v.used = t.used /\ v.look = t.look
  BY <1>2 DEF Went, StepOf
<1>4. Seen(b, v.cache) = Seen(b, C) \ F
  <2> PICK D : D = t.cache
    OBVIOUS
  <2>1. Drops(C, D, i, r)
    OBVIOUS
  <2>2. Seen(b, D) = Seen(b, C) \ ToTell(b, i, r)
    BY <2>1, SeenGone
  <2> QED
    BY <1>3, <2>2
<1>5. F \subseteq Seen(b, C)
  BY SeenPairs DEF ToTell
<1>6. Mine(b, v.known[b]) = Seen(b, v.cache) /\ ~ v.again
  BY <1>1, <1>2, <1>4, <1>5 DEF Went
<1>7. ToStart(b, v) = {}
  BY <1>1, <1>3 DEF ToStart
<1>8. GoAll(b, v) = v
  BY <1>3, <1>7, AllIdle
<1>9. Runs(b, v, v.cache)
  BY <1>1, <1>3, <1>6, <1>7 DEF Runs
<1> QED
  BY <1>3, <1>6, <1>8, <1>9 DEF One

-----------------------------------------------------------------------------
(***************************************************************************)
(* All are notified                                                        *)
(***************************************************************************)
\* The browsers L run, and of these the clients of s know of the caches D, the others of C.
Clients(t, L, s, D, C) ==
    \A b \in Browsers : IF b \in L THEN Runs(b, t, IF b \in s THEN D ELSE C) ELSE Rests(b, t)

\* What notifying of a record may rely on, and when the browsers s were notified.
ToNotify(t, ev, i, r, L, C) ==
    /\ t \in Engine /\ ~ t.again /\ Clients(t, L, {}, t.cache, C)
    /\ \/ ev = "NEW" /\ r \notin C[i] /\ Adds(C, t.cache, i, r) /\ Counts(t, up)
       \/ ev = "REMOVE" /\ r \in C[i] /\ Drops(C, t.cache, i, r)

NotifiedBy(u, s, t, ev, L, C) ==
    /\ u \in Engine /\ u.cache = t.cache /\ ~ u.again /\ Clients(u, L, s, t.cache, C)
    /\ \/ ev = "NEW" /\ Counts(u, up)
       \/ ev = "REMOVE" /\ u.look = t.look /\ u.used = t.used

LEMMA NotifyOne ==
    ASSUME BrowserAssumption, up \subseteq Ifaces, NEW t, NEW ev, NEW i \in Ifaces, NEW r \in Records,
           NEW L, NEW C, ToNotify(t, ev, i, r, L, C),
           NEW s \in SUBSET Browsers, NEW b \in s, NEW v, NotifiedBy(v, s \ {b}, t, ev, L, C)
    PROVE  NotifiedBy(One(b, v, ev, i, r), s, t, ev, L, C)
<1> PICK u : u = One(b, v, ev, i, r)
  OBVIOUS
<1>1. v \in Engine /\ v.cache = t.cache /\ ~ v.again /\ b \in Browsers
  BY DEF NotifiedBy
<1>2. \A c \in Browsers : IF c \in L THEN Runs(c, v, IF c \in s \ {b} THEN t.cache ELSE C) ELSE Rests(c, v)
  BY DEF NotifiedBy, Clients
<1>3. ASSUME StepOf(b, v, u), IF b \in L THEN Runs(b, u, t.cache) ELSE Rests(b, u)
      PROVE  Clients(u, L, s, t.cache, C)
  <2> SUFFICES ASSUME NEW c \in Browsers
               PROVE  IF c \in L THEN Runs(c, u, IF c \in s THEN t.cache ELSE C) ELSE Rests(c, u)
    BY DEF Clients
  <2>1. CASE c = b
    BY <1>3, <2>1
  <2>2. CASE c # b
    <3>1. u.look[c] = v.look[c] /\ u.known[c] = v.known[c]
      BY <1>3, <2>2 DEF StepOf
    <3>2. \A D : Runs(c, u, D) <=> Runs(c, v, D)
      BY <3>1 DEF Runs, ToStart
    <3>3. Rests(c, u) <=> Rests(c, v)
      BY <3>1 DEF Rests
    <3>4. c \in s <=> c \in s \ {b}
      BY <2>2
    <3> QED
      BY <1>2, <3>2, <3>3, <3>4
  <2> QED
    BY <2>1, <2>2
<1>4. CASE b \notin L
  <2>1. Rests(b, v)
    BY <1>1, <1>2, <1>4
  <2>2. u = v
    BY <1>1, <2>1, RestIgnores
  <2>3. StepOf(b, v, v)
    BY <1>1 DEF StepOf
  <2>4. Clients(u, L, s, t.cache, C)
    BY <1>3, <1>4, <2>1, <2>2, <2>3
  <2> QED
    BY <2>2, <2>4 DEF NotifiedBy
<1>5. CASE b \in L
  <2>1. Runs(b, v, C)
    BY <1>1, <1>2, <1>5
  <2>2. CASE ev = "NEW"
    <3>1. r \notin C[i] /\ Adds(C, v.cache, i, r) /\ Counts(v, up)
      BY <1>1, <2>2 DEF ToNotify, NotifiedBy
    <3>2. StepOf(b, v, u) /\ Counts(u, up) /\ ~ u.again /\ Runs(b, u, u.cache)
      BY <1>1, <2>1, <2>2, <3>1, OneNew
    <3>3. u \in Engine /\ u.cache = t.cache
      BY <1>1, <3>2 DEF StepOf
    <3>4. Clients(u, L, s, t.cache, C)
      BY <1>3, <1>5, <3>2, <3>3
    <3> QED
      BY <2>2, <3>2, <3>3, <3>4 DEF NotifiedBy
  <2>3. CASE ev = "REMOVE"
    <3>1. r \in C[i] /\ Drops(C, v.cache, i, r) /\ v.look = t.look /\ v.used = t.used
      BY <1>1, <2>3 DEF ToNotify, NotifiedBy
    <3>2. StepOf(b, v, u) /\ u.look = v.look /\ u.used = v.used /\ ~ u.again /\ Runs(b, u, u.cache)
      BY <1>1, <2>1, <2>3, <3>1, OneRemove
    <3>3. u \in Engine /\ u.cache = t.cache
      BY <1>1, <3>2 DEF StepOf
    <3>4. Clients(u, L, s, t.cache, C)
      BY <1>3, <1>5, <3>2, <3>3
    <3> QED
      BY <2>3, <3>1, <3>2, <3>3, <3>4 DEF NotifiedBy
  <2> QED
    BY <2>2, <2>3 DEF NotifiedBy
<1> QED
  BY <1>4, <1>5

LEMMA AllNotified ==
    ASSUME BrowserAssumption, up \subseteq Ifaces, NEW t, NEW ev, NEW i \in Ifaces, NEW r \in Records,
           NEW L, NEW C, ToNotify(t, ev, i, r, L, C)
    PROVE  NotifiedBy(Notify(t, i, ev, r), Browsers, t, ev, L, C)
<1> DEFINE Rec(f) == [s \in SUBSET Browsers |-> IF s = {} THEN t
                              ELSE One(CHOOSE x \in s : TRUE, f[s \ {CHOOSE x \in s : TRUE}], ev, i, r)]
           iter == CHOOSE f : f = Rec(f)
           pick == [s \in SUBSET Browsers |-> CHOOSE x \in s : TRUE]
           step == [p \in Browsers \X Engine |-> IF One(p[1], p[2], ev, i, r) \in Engine
                                                 THEN One(p[1], p[2], ev, i, r) ELSE t]
           Good(s, u) == NotifiedBy(u, s, t, ev, L, C)
<1>1. Notify(t, i, ev, r) = iter[Browsers]
  BY DEF Notify, One, EventsOf, FoldSet, MapThenFoldSet
<1>2. \A s \in SUBSET Browsers : s # {} => pick[s] \in s
  OBVIOUS
<1>3. IsFiniteSet(Browsers) /\ t \in Engine
  BY Constants DEF ToNotify
<1>4. ASSUME NEW s \in SUBSET Browsers, NEW b \in s, NEW v, Good(s \ {b}, v)
      PROVE  Good(s, One(b, v, ev, i, r))
  BY <1>4, NotifyOne
<1>5. Good({}, t)
  BY DEF ToNotify, NotifiedBy
<1>6. \A s, u : Good(s, u) => u \in Engine
  BY DEF NotifiedBy
<1>7. Steps(step, Browsers, Engine) /\ Picks(pick, Browsers)
  BY <1>2, <1>3 DEF Steps, Picks
<1>8. PICK f : Folds(f, Browsers, Engine, t, pick, step)
  <2> HIDE DEF pick, step
  <2> QED
    BY <1>3, <1>7, FoldExists
<1> HIDE DEF Good
<1>9. ASSUME NEW s \in SUBSET Browsers, s # {}, Good(s \ {pick[s]}, f[s \ {pick[s]}])
      PROVE  /\ step[<<pick[s], f[s \ {pick[s]}]>>] = One(pick[s], f[s \ {pick[s]}], ev, i, r)
             /\ Good(s, One(pick[s], f[s \ {pick[s]}], ev, i, r))
  <2>1. pick[s] \in s
    BY <1>2, <1>9
  <2> HIDE DEF pick
  <2>2. Good(s, One(pick[s], f[s \ {pick[s]}], ev, i, r))
    BY <1>4, <1>9, <2>1
  <2>3. f[s \ {pick[s]}] \in Engine /\ One(pick[s], f[s \ {pick[s]}], ev, i, r) \in Engine
    BY <1>6, <1>9, <2>2
  <2>4. <<pick[s], f[s \ {pick[s]}]>> \in Browsers \X Engine
    BY <2>1, <2>3
  <2> QED
    BY <2>2, <2>3, <2>4
<1>10. \A s \in SUBSET Browsers : Good(s, f[s])
  <2> HIDE DEF pick, step
  <2> DEFINE G == {s \in SUBSET Browsers : Good(s, f[s])}
  <2>1. f[{}] = t /\ \A s \in SUBSET Browsers : s # {} => f[s] = step[<<pick[s], f[s \ {pick[s]}]>>]
    BY <1>8 DEF Folds, Fold
  <2>2. {} \in G
    BY <1>5, <2>1
  <2>3. ASSUME NEW s \in SUBSET Browsers, s # {}
        PROVE  \E x \in s : s \ {x} \in G => s \in G
    <3>1. pick[s] \in s
      BY <1>7, <2>3 DEF Picks
    <3>2. s \ {pick[s]} \in G => s \in G
      BY <1>9, <2>1, <2>3
    <3> QED
      BY <3>1, <3>2
  <2> HIDE DEF G
  <2>4. \A s \in SUBSET Browsers : s \in G
    BY <1>3, <2>2, <2>3, EachSubset
  <2> USE DEF G
  <2> QED
    BY <2>4
<1>11. f = Rec(f)
  <2>1. ASSUME NEW s \in SUBSET Browsers, s # {}
        PROVE  step[<<pick[s], f[s \ {pick[s]}]>>]
                 = One(CHOOSE x \in s : TRUE, f[s \ {CHOOSE x \in s : TRUE}], ev, i, r)
    <3>1. pick[s] = (CHOOSE x \in s : TRUE)
      OBVIOUS
    <3> HIDE DEF pick, step
    <3>2. step[<<pick[s], f[s \ {pick[s]}]>>] = One(pick[s], f[s \ {pick[s]}], ev, i, r)
      BY <1>9, <1>10, <2>1
    <3> QED
      BY <3>1, <3>2
  <2>2. f = [s \in SUBSET Browsers |-> IF s = {} THEN t ELSE step[<<pick[s], f[s \ {pick[s]}]>>]]
    BY <1>8 DEF Fold, Folds
  <2> HIDE DEF step, pick
  <2> QED
    BY <2>1, <2>2
<1>12. iter = Rec(iter)
  <2> HIDE DEF Rec
  <2> QED
    BY <1>11
<1> HIDE DEF iter
<1>13. iter[{}] = t
  BY <1>12
<1>14. ASSUME NEW s \in SUBSET Browsers, s # {}
       PROVE  \E b \in s : iter[s] = One(b, iter[s \ {b}], ev, i, r)
  BY <1>12, <1>14
<1> DEFINE G == {s \in SUBSET Browsers : Good(s, iter[s])}
<1>15. {} \in G
  BY <1>5, <1>13
<1>16. ASSUME NEW s \in SUBSET Browsers, s # {}
       PROVE  \E b \in s : s \ {b} \in G => s \in G
  <2>1. PICK b \in s : iter[s] = One(b, iter[s \ {b}], ev, i, r)
    BY <1>14, <1>16
  <2> SUFFICES ASSUME s \ {b} \in G PROVE s \in G
    OBVIOUS
  <2>2. Good(s, One(b, iter[s \ {b}], ev, i, r))
    BY <1>4
  <2> QED
    BY <2>1, <2>2
<1> HIDE DEF G
<1>17. Browsers \in G
  BY <1>3, <1>15, <1>16, AllSubsets
<1> USE DEF G
<1>18. Good(Browsers, iter[Browsers])
  BY <1>17
<1> QED
  BY <1>1, <1>18 DEF Good

-----------------------------------------------------------------------------
(***************************************************************************)
(* Records come and go                                                     *)
(***************************************************************************)
\* The clients of the browsers that run know what the caches hold, the others nothing.
Informed(t, L) ==
    /\ t \in Engine /\ ~ t.again
    /\ \A b \in Browsers : IF b \in L THEN Runs(b, t, t.cache) ELSE Rests(b, t)

Cached(t, i, R) == [t EXCEPT !.cache[i] = R]

LEMMA CacheChanged ==
    ASSUME NEW t \in Engine, NEW i \in Ifaces, NEW R \in SUBSET Records
    PROVE  LET u == Cached(t, i, R)
           IN  /\ u \in Engine /\ u.look = t.look /\ u.known = t.known /\ u.again = t.again /\ u.used = t.used
               /\ u.cache[i] = R /\ \A j \in Ifaces \ {i} : u.cache[j] = t.cache[j]
<1> PICK u : u = Cached(t, i, R)
  OBVIOUS
<1> PICK D : D = [t.cache EXCEPT ![i] = R]
  OBVIOUS
<1>1. /\ u.cache = D /\ u.look = t.look /\ u.known = t.known /\ u.again = t.again /\ u.used = t.used
      /\ u.aborted = t.aborted /\ u = [t EXCEPT !.cache = u.cache]
  BY DEF Cached, Engine
<1>2. t.cache \in [Ifaces -> SUBSET Records]
  BY EngineFields
<1>3. D \in [Ifaces -> SUBSET Records]
  BY <1>2, Changed
<1>4. D[i] = R /\ \A j \in Ifaces \ {i} : D[j] = t.cache[j]
  BY <1>2
<1>5. u \in Engine
  BY <1>1, <1>3 DEF Engine
<1> QED
  BY <1>1, <1>4, <1>5

LEMMA InformedClients ==
    ASSUME NEW t, NEW u, NEW L, Informed(t, L), u.look = t.look, u.known = t.known, NEW D
    PROVE  Clients(u, L, {}, D, t.cache)
<1>1. \A b \in Browsers : \A C : Runs(b, u, C) <=> Runs(b, t, C)
  BY DEF Runs, ToStart
<1>2. \A b \in Browsers : Rests(b, u) <=> Rests(b, t)
  BY DEF Rests
<1> QED
  BY <1>1, <1>2 DEF Clients, Informed

LEMMA NowInformed ==
    ASSUME NEW u, NEW t, NEW ev, NEW L, NEW C, NotifiedBy(u, Browsers, t, ev, L, C)
    PROVE  Informed(u, L)
  BY DEF NotifiedBy, Clients, Informed

LEMMA CountsSame ==
    ASSUME NEW t, NEW u, u.look = t.look, u.used = t.used, NEW W, Counts(t, W)
    PROVE  Counts(u, W)
<1> SUFFICES ASSUME NEW i \in W, NEW k \in Keys PROVE u.used[i][k] = Cardinality(Asking(u, i, k))
  BY DEF Counts
<1>1. Asking(u, i, k) = Asking(t, i, k)
  BY AskingLook
<1>2. t.used[i][k] = Cardinality(Asking(t, i, k))
  BY DEF Counts
<1> QED
  BY <1>1, <1>2

LEMMA CountsAlike ==
    ASSUME NEW t \in Engine, NEW u \in Engine, u.used = t.used, \A c \in Browsers : Alike(u.look[c], t.look[c]),
           NEW W, Counts(t, W)
    PROVE  Counts(u, W)
<1> SUFFICES ASSUME NEW i \in W, NEW k \in Keys PROVE u.used[i][k] = Cardinality(Asking(u, i, k))
  BY DEF Counts
<1>1. Asking(u, i, k) = Asking(t, i, k)
  BY AskingAlike
<1>2. t.used[i][k] = Cardinality(Asking(t, i, k))
  BY DEF Counts
<1> QED
  BY <1>1, <1>2

\* A record is cached.
LEMMA RecordComes ==
    ASSUME BrowserAssumption, up \subseteq Ifaces, NEW t, NEW L, Informed(t, L), Counts(t, up),
           NEW i \in Ifaces, NEW r \in Records, r \notin t.cache[i]
    PROVE  LET u == Notify(Cached(t, i, t.cache[i] \cup {r}), i, "NEW", r)
           IN  Informed(u, L) /\ Counts(u, up)
<1> PICK v : v = Cached(t, i, t.cache[i] \cup {r})
  OBVIOUS
<1>1. t \in Engine /\ ~ t.again
  BY DEF Informed
<1>2. t.cache[i] \cup {r} \in SUBSET Records
  BY <1>1, EngineFields
<1>3. /\ v \in Engine /\ v.look = t.look /\ v.known = t.known /\ v.again = t.again /\ v.used = t.used
      /\ v.cache[i] = t.cache[i] \cup {r} /\ \A j \in Ifaces \ {i} : v.cache[j] = t.cache[j]
  BY <1>1, <1>2, CacheChanged
<1>4. Adds(t.cache, v.cache, i, r)
  BY <1>3 DEF Adds
<1>5. Clients(v, L, {}, v.cache, t.cache)
  BY <1>3, InformedClients
<1>6. Counts(v, up)
  BY <1>3, CountsSame
<1>7. ToNotify(v, "NEW", i, r, L, t.cache)
  BY <1>1, <1>3, <1>4, <1>5, <1>6 DEF ToNotify
<1>8. NotifiedBy(Notify(v, i, "NEW", r), Browsers, v, "NEW", L, t.cache)
  BY <1>7, AllNotified
<1>9. Counts(Notify(v, i, "NEW", r), up)
  BY <1>8 DEF NotifiedBy
<1> QED
  BY <1>8, <1>9, NowInformed

\* A record is cached no more.
GoneOf(i, r, t) == Notify(Cached(t, i, t.cache[i] \ {r}), i, "REMOVE", r)

LEMMA RecordGoes ==
    ASSUME BrowserAssumption, up \subseteq Ifaces, NEW t, NEW L, Informed(t, L),
           NEW i \in Ifaces, NEW r \in Records, r \in t.cache[i]
    PROVE  LET u == GoneOf(i, r, t)
           IN  /\ Informed(u, L) /\ u.look = t.look /\ u.used = t.used
               /\ u.cache[i] = t.cache[i] \ {r} /\ \A j \in Ifaces \ {i} : u.cache[j] = t.cache[j]
<1> PICK v : v = Cached(t, i, t.cache[i] \ {r})
  OBVIOUS
<1> PICK u : u = Notify(v, i, "REMOVE", r)
  OBVIOUS
<1>1. t \in Engine /\ ~ t.again
  BY DEF Informed
<1>2. t.cache[i] \ {r} \in SUBSET Records
  BY <1>1, EngineFields
<1>3. /\ v \in Engine /\ v.look = t.look /\ v.known = t.known /\ v.again = t.again /\ v.used = t.used
      /\ v.cache[i] = t.cache[i] \ {r} /\ \A j \in Ifaces \ {i} : v.cache[j] = t.cache[j]
  BY <1>1, <1>2, CacheChanged
<1>4. Drops(t.cache, v.cache, i, r)
  BY <1>3 DEF Drops
<1>5. Clients(v, L, {}, v.cache, t.cache)
  BY <1>3, InformedClients
<1>6. ToNotify(v, "REMOVE", i, r, L, t.cache)
  BY <1>1, <1>3, <1>4, <1>5 DEF ToNotify
<1>7. NotifiedBy(u, Browsers, v, "REMOVE", L, t.cache)
  BY <1>6, AllNotified
<1>8. u.look = v.look /\ u.used = v.used /\ u.cache = v.cache
  BY <1>7 DEF NotifiedBy
<1>9. Informed(u, L)
  BY <1>7, NowInformed
<1> QED
  BY <1>3, <1>8, <1>9 DEF GoneOf

\* The records R of interface i are gone, one after the other.
Without(s, t, u, i, L) ==
    /\ Informed(u, L) /\ u.look = t.look /\ u.used = t.used
    /\ u.cache[i] = t.cache[i] \ s /\ \A j \in Ifaces \ {i} : u.cache[j] = t.cache[j]

Flushed(t, i) == FoldSet(LAMBDA r, v : GoneOf(i, r, v), t, t.cache[i])

LEMMA AllGo ==
    ASSUME BrowserAssumption, up \subseteq Ifaces, NEW t, NEW L, Informed(t, L), NEW i \in Ifaces
    PROVE  Without(t.cache[i], t, Flushed(t, i), i, L)
<1> DEFINE S == t.cache[i]
           Rec(f) == [s \in SUBSET S |-> IF s = {} THEN t
                              ELSE GoneOf(i, CHOOSE x \in s : TRUE, f[s \ {CHOOSE x \in s : TRUE}])]
           iter == CHOOSE f : f = Rec(f)
           pick == [s \in SUBSET S |-> CHOOSE x \in s : TRUE]
           step == [p \in S \X Engine |-> IF GoneOf(i, p[1], p[2]) \in Engine
                                          THEN GoneOf(i, p[1], p[2]) ELSE t]
           Good(s, u) == Without(s, t, u, i, L)
<1>1. Flushed(t, i) = iter[S]
  BY DEF Flushed, FoldSet, MapThenFoldSet
<1>2. \A s \in SUBSET S : s # {} => pick[s] \in s
  OBVIOUS
<1>3. t \in Engine /\ S \subseteq Records
  BY EngineFields DEF Informed
<1> HIDE DEF S
<1>4. IsFiniteSet(S)
  BY <1>3, Constants, FS_Subset
<1>5. ASSUME NEW s \in SUBSET S, NEW r \in s, NEW v, Good(s \ {r}, v)
      PROVE  Good(s, GoneOf(i, r, v))
  <2> PICK u : u = GoneOf(i, r, v)
    OBVIOUS
  <2>1. /\ Informed(v, L) /\ v.look = t.look /\ v.used = t.used
        /\ v.cache[i] = t.cache[i] \ (s \ {r}) /\ \A j \in Ifaces \ {i} : v.cache[j] = t.cache[j]
    BY <1>5 DEF Without
  <2>2. r \in Records /\ r \in v.cache[i]
    BY <1>3, <2>1 DEF S
  <2>3. /\ Informed(u, L) /\ u.look = v.look /\ u.used = v.used
        /\ u.cache[i] = v.cache[i] \ {r} /\ \A j \in Ifaces \ {i} : u.cache[j] = v.cache[j]
    BY <2>1, <2>2, RecordGoes
  <2>4. v.cache[i] \ {r} = t.cache[i] \ s
    BY <2>1
  <2> QED
    BY <2>1, <2>3, <2>4 DEF Without
<1>6. Good({}, t)
  BY DEF Without
<1>7. \A s, u : Good(s, u) => u \in Engine
  BY DEF Without, Informed
<1>8. Steps(step, S, Engine) /\ Picks(pick, S)
  BY <1>2, <1>3 DEF Steps, Picks
<1>9. PICK f : Folds(f, S, Engine, t, pick, step)
  <2> HIDE DEF pick, step
  <2> QED
    BY <1>3, <1>4, <1>8, FoldExists
<1> HIDE DEF Good
<1>10. ASSUME NEW s \in SUBSET S, s # {}, Good(s \ {pick[s]}, f[s \ {pick[s]}])
       PROVE  /\ step[<<pick[s], f[s \ {pick[s]}]>>] = GoneOf(i, pick[s], f[s \ {pick[s]}])
              /\ Good(s, GoneOf(i, pick[s], f[s \ {pick[s]}]))
  <2>1. pick[s] \in s
    BY <1>2, <1>10
  <2> HIDE DEF pick
  <2>2. Good(s, GoneOf(i, pick[s], f[s \ {pick[s]}]))
    BY <1>5, <1>10, <2>1
  <2>3. f[s \ {pick[s]}] \in Engine /\ GoneOf(i, pick[s], f[s \ {pick[s]}]) \in Engine
    BY <1>7, <1>10, <2>2
  <2>4. <<pick[s], f[s \ {pick[s]}]>> \in S \X Engine
    BY <2>1, <2>3
  <2> QED
    BY <2>2, <2>3, <2>4
<1>11. \A s \in SUBSET S : Good(s, f[s])
  <2> HIDE DEF pick, step
  <2> DEFINE G == {s \in SUBSET S : Good(s, f[s])}
  <2>1. f[{}] = t /\ \A s \in SUBSET S : s # {} => f[s] = step[<<pick[s], f[s \ {pick[s]}]>>]
    BY <1>9 DEF Folds, Fold
  <2>2. {} \in G
    BY <1>6, <2>1
  <2>3. ASSUME NEW s \in SUBSET S, s # {}
        PROVE  \E x \in s : s \ {x} \in G => s \in G
    <3>1. pick[s] \in s
      BY <1>8, <2>3 DEF Picks
    <3>2. s \ {pick[s]} \in G => s \in G
      BY <1>10, <2>1, <2>3
    <3> QED
      BY <3>1, <3>2
  <2> HIDE DEF G
  <2>4. \A s \in SUBSET S : s \in G
    BY <1>4, <2>2, <2>3, EachSubset
  <2> USE DEF G
  <2> QED
    BY <2>4
<1>12. f = Rec(f)
  <2>1. ASSUME NEW s \in SUBSET S, s # {}
        PROVE  step[<<pick[s], f[s \ {pick[s]}]>>]
                 = GoneOf(i, CHOOSE x \in s : TRUE, f[s \ {CHOOSE x \in s : TRUE}])
    <3>1. pick[s] = (CHOOSE x \in s : TRUE)
      OBVIOUS
    <3> HIDE DEF pick, step
    <3>2. step[<<pick[s], f[s \ {pick[s]}]>>] = GoneOf(i, pick[s], f[s \ {pick[s]}])
      BY <1>10, <1>11, <2>1
    <3> QED
      BY <3>1, <3>2
  <2> HIDE DEF step, pick
  <2> QED
    BY <1>9, <2>1 DEF Fold, Folds
<1>13. iter = Rec(iter)
  <2> HIDE DEF Rec
  <2> QED
    BY <1>12
<1> HIDE DEF iter
<1>14. iter[{}] = t
  BY <1>13
<1>15. ASSUME NEW s \in SUBSET S, s # {}
       PROVE  \E r \in s : iter[s] = GoneOf(i, r, iter[s \ {r}])
  BY <1>13, <1>15
<1> DEFINE G == {s \in SUBSET S : Good(s, iter[s])}
<1>16. {} \in G
  BY <1>6, <1>14
<1>17. ASSUME NEW s \in SUBSET S, s # {}
       PROVE  \E r \in s : s \ {r} \in G => s \in G
  <2>1. PICK r \in s : iter[s] = GoneOf(i, r, iter[s \ {r}])
    BY <1>15, <1>17
  <2> SUFFICES ASSUME s \ {r} \in G PROVE s \in G
    OBVIOUS
  <2>2. Good(s, GoneOf(i, r, iter[s \ {r}]))
    BY <1>5
  <2> QED
    BY <2>1, <2>2
<1> HIDE DEF G
<1>18. S \in G
  BY <1>4, <1>16, <1>17, AllSubsets
<1> USE DEF G
<1>19. Good(S, iter[S])
  BY <1>18
<1> QED
  BY <1>1, <1>19 DEF Good, S

-----------------------------------------------------------------------------
(***************************************************************************)
(* A browser stops                                                         *)
(***************************************************************************)
LEMMA GreatestOf ==
    ASSUME NEW l \in Nat, NEW s, s \subseteq 1..l, s # {}
    PROVE  Max(s) \in s
<1> DEFINE Below == {m \in Nat : \E n \in s : m = l - n}
<1>1. Below \subseteq Nat /\ Below # {}
  <2>1. PICK n \in s : TRUE
    OBVIOUS
  <2>2. n \in 1..l
    BY <2>1
  <2>3. l - n \in Nat
    BY <2>2
  <2>4. l - n \in Below
    BY <2>1, <2>3
  <2> QED
    BY <2>4
<1>2. PICK m \in Below : \A j \in Below : m <= j
  BY <1>1, LeastNumber
<1>3. PICK n \in s : m = l - n
  BY <1>2
<1>4. ASSUME NEW y \in s PROVE n >= y
  <2>1. y \in 1..l /\ n \in 1..l
    OBVIOUS
  <2>2. l - y \in Nat
    BY <2>1
  <2>3. l - y \in Below
    BY <2>2
  <2> HIDE DEF Below
  <2>4. l - n <= l - y
    BY <1>2, <1>3, <2>3
  <2> QED
    BY <2>1, <2>4
<1> QED
  BY <1>4 DEF Max

\* The queriers of the lookups s of b no longer count them.
Uncounted(b, t, s, u) ==
    /\ u \in Engine /\ u.cache = t.cache /\ u.look = t.look /\ u.known = t.known /\ u.again = t.again
    /\ \A i \in up, k \in Keys : u.used[i][k] = Cardinality(Asking(t, i, k) \ ({b} \X s))

LEMMA OneUncounted ==
    ASSUME BrowserAssumption, up \subseteq Ifaces, NEW b \in Browsers, NEW t \in Engine, ToStart(b, t) = {},
           NEW s \in SUBSET DOMAIN t.look[b], NEW n \in s, NEW v, Uncounted(b, t, s \ {n}, v)
    PROVE  Uncounted(b, t, s, RemoveQueriers(v, t.look[b][n]))
<1> PICK l : l = t.look[b][n]
  OBVIOUS
<1> PICK u : u = RemoveQueriers(v, l)
  OBVIOUS
<1>1. n \in 1..Len(t.look[b]) /\ l \in LookupSet /\ ~ l.todo
  BY LookFields DEF ToStart
<1>2. /\ v \in Engine /\ v.cache = t.cache /\ v.look = t.look /\ v.known = t.known /\ v.again = t.again
      /\ \A i \in up, k \in Keys : v.used[i][k] = Cardinality(Asking(t, i, k) \ ({b} \X (s \ {n})))
  BY DEF Uncounted
<1>3. /\ u \in Engine /\ u.cache = v.cache /\ u.look = v.look /\ u.known = v.known /\ u.again = v.again
      /\ \A i \in up, k \in Keys :
            u.used[i][k] = IF Wants(l, i, k) /\ v.used[i][k] > 0 THEN v.used[i][k] - 1 ELSE v.used[i][k]
  BY <1>1, <1>2, QueriersRemoved
<1>4. ASSUME NEW i \in up, NEW k \in Keys
      PROVE  u.used[i][k] = Cardinality(Asking(t, i, k) \ ({b} \X s))
  <2> PICK A : A = Asking(t, i, k)
    OBVIOUS
  <2> PICK X : X = A \ ({b} \X (s \ {n}))
    OBVIOUS
  <2>1. <<b, n>> \in A <=> Wants(l, i, k)
    BY <1>1, Asks
  <2>2. {b} \X s = ({b} \X (s \ {n})) \cup {<<b, n>>}
    OBVIOUS
  <2>3. A \ ({b} \X s) = X \ {<<b, n>>}
    BY <2>2
  <2>4. IsFiniteSet(X)
    <3>1. IsFiniteSet(A) /\ X \subseteq A
      BY AskingFinite
    <3> QED
      BY <3>1, FS_Subset
  <2>5. v.used[i][k] = Cardinality(X)
    BY <1>2
  <2>6. CASE Wants(l, i, k)
    <3>1. <<b, n>> \in X
      BY <2>1, <2>6
    <3>2. Cardinality(X \ {<<b, n>>}) = Cardinality(X) - 1
      <4>1. \A x \in X : Cardinality(X \ {x}) = Cardinality(X) - 1
        BY <2>4, FS_RemoveElement
      <4> QED
        BY <3>1, <4>1
    <3>3. Cardinality(X) \in Nat /\ Cardinality(X \ {<<b, n>>}) \in Nat
      <4>1. IsFiniteSet(X \ {<<b, n>>})
        BY <2>4, FS_Subset
      <4> QED
        BY <2>4, <4>1, FS_CardinalityType
    <3>4. v.used[i][k] > 0
      BY <2>5, <3>2, <3>3
    <3> QED
      BY <1>3, <2>3, <2>5, <2>6, <3>2, <3>4
  <2>7. CASE ~ Wants(l, i, k)
    <3>1. X \ {<<b, n>>} = X
      BY <2>1, <2>7
    <3> QED
      BY <1>3, <2>3, <2>5, <2>7, <3>1
  <2> QED
    BY <2>6, <2>7
<1> QED
  BY <1>2, <1>3, <1>4 DEF Uncounted

Dropped(b, t) == FoldLeft(RemoveQueriers, t, t.look[b])

LEMMA AllUncounted ==
    ASSUME BrowserAssumption, up \subseteq Ifaces, NEW b \in Browsers, NEW t \in Engine, Counts(t, up),
           ToStart(b, t) = {}
    PROVE  Uncounted(b, t, DOMAIN t.look[b], Dropped(b, t))
<1> DEFINE q == t.look[b]
           S == DOMAIN q
           Rec(f) == [s \in SUBSET S |-> IF s = {} THEN t ELSE RemoveQueriers(f[s \ {Max(s)}], q[Max(s)])]
           iter == CHOOSE f : f = Rec(f)
           pick == [s \in SUBSET S |-> Max(s)]
           step == [p \in S \X Engine |-> RemoveQueriers(p[2], q[p[1]])]
<1>1. Dropped(b, t) = iter[S]
  BY DEF Dropped, FoldLeft, MapThenFoldSet
<1>2. q \in Seq(LookupSet) /\ Len(q) \in Nat /\ S = 1..Len(q) /\ \A n \in 1..Len(q) : q[n] \in LookupSet
  BY LookFields
<1>3. IsFiniteSet(S)
  BY <1>2, FS_Interval
<1>4. \A s \in SUBSET S : s # {} => Max(s) \in s
  <2> SUFFICES ASSUME NEW s \in SUBSET S, s # {} PROVE Max(s) \in s
    OBVIOUS
  <2>1. s \subseteq 1..Len(q)
    BY <1>2
  <2> HIDE DEF q, S
  <2> QED
    BY <1>2, <2>1, GreatestOf
<1>5. \A n \in S, v \in Engine : RemoveQueriers(v, q[n]) \in Engine
  BY <1>2, QueriersRemoved
<1> HIDE DEF S, q
<1>6. Steps(step, S, Engine) /\ Picks(pick, S)
  <2>1. \A p \in S \X Engine : RemoveQueriers(p[2], q[p[1]]) \in Engine
    BY <1>5
  <2> QED
    BY <1>4, <2>1 DEF Steps, Picks
<1>7. PICK f : Folds(f, S, Engine, t, pick, step)
  <2> HIDE DEF pick, step
  <2> QED
    BY <1>3, <1>6, FoldExists
<1>8. f = Rec(f)
  <2>1. ASSUME NEW s \in SUBSET S, s # {}
        PROVE  step[<<pick[s], f[s \ {pick[s]}]>>] = RemoveQueriers(f[s \ {Max(s)}], q[Max(s)])
    <3>1. pick[s] = Max(s) /\ pick[s] \in S /\ f[s \ {pick[s]}] \in Engine
      BY <1>4, <1>7, <2>1 DEF Folds
    <3> HIDE DEF pick
    <3> QED
      BY <3>1
  <2> HIDE DEF step, pick
  <2> QED
    BY <1>7, <2>1 DEF Fold, Folds
<1>9. iter = Rec(iter)
  <2> HIDE DEF Rec
  <2> QED
    BY <1>8
<1> HIDE DEF iter
<1>10. iter[{}] = t
  BY <1>9
<1>11. ASSUME NEW s \in SUBSET S, s # {}
       PROVE  \E n \in s : iter[s] = RemoveQueriers(iter[s \ {n}], q[n])
  BY <1>4, <1>9, <1>11
<1> DEFINE G == {s \in SUBSET S : Uncounted(b, t, s, iter[s])}
<1>12. {} \in G
  <2>1. \A A : A \ ({b} \X {}) = A
    OBVIOUS
  <2>2. ASSUME NEW i \in up, NEW k \in Keys
        PROVE  t.used[i][k] = Cardinality(Asking(t, i, k) \ ({b} \X {}))
    <3>1. Asking(t, i, k) \ ({b} \X {}) = Asking(t, i, k)
      BY <2>1
    <3>2. t.used[i][k] = Cardinality(Asking(t, i, k))
      BY DEF Counts
    <3> QED
      BY <3>1, <3>2
  <2> QED
    BY <1>10, <2>2 DEF Uncounted
<1>13. ASSUME NEW s \in SUBSET S, s # {}
       PROVE  \E n \in s : s \ {n} \in G => s \in G
  <2>1. PICK n \in s : iter[s] = RemoveQueriers(iter[s \ {n}], q[n])
    BY <1>11, <1>13
  <2> SUFFICES ASSUME s \ {n} \in G PROVE s \in G
    OBVIOUS
  <2>2. Uncounted(b, t, s \ {n}, iter[s \ {n}])
    OBVIOUS
  <2>3. Uncounted(b, t, s, RemoveQueriers(iter[s \ {n}], q[n]))
    BY <2>2, OneUncounted DEF S, q
  <2> QED
    BY <2>1, <2>3
<1> HIDE DEF G
<1>14. S \in G
  BY <1>3, <1>12, <1>13, AllSubsets
<1> USE DEF G
<1>15. Uncounted(b, t, S, iter[S])
  BY <1>14
<1> QED
  BY <1>1, <1>15 DEF S, q

\* A browser that is cancelled rests, and what it asked for is no longer counted.
LEMMA Cancelled ==
    ASSUME BrowserAssumption, up \subseteq Ifaces, NEW b \in Browsers, NEW t, NEW L, Informed(t, L), Counts(t, up)
    PROVE  Informed(Cancel(b, t), L \ {b}) /\ Counts(Cancel(b, t), up)
<1> PICK w : w = Dropped(b, t)
  OBVIOUS
<1> PICK u : u = Cancel(b, t)
  OBVIOUS
<1>1. t \in Engine /\ ~ t.again
  BY DEF Informed
<1>2. ToStart(b, t) = {}
  BY DEF Informed, Runs, Rests, ToStart
<1>3. Uncounted(b, t, DOMAIN t.look[b], w)
  BY <1>1, <1>2, AllUncounted
<1>4. /\ w \in Engine /\ w.cache = t.cache /\ w.look = t.look /\ w.known = t.known /\ w.again = t.again
      /\ \A i \in up, k \in Keys : w.used[i][k] = Cardinality(Asking(t, i, k) \ ({b} \X DOMAIN t.look[b]))
  BY <1>3 DEF Uncounted
<1>5. u = [w EXCEPT !.look[b] = <<>>, !.known[b] = {}]
  BY DEF Cancel, Dropped
<1>6. /\ u.look = [t.look EXCEPT ![b] = <<>>] /\ u.known = [t.known EXCEPT ![b] = {}]
      /\ u.cache = t.cache /\ u.again = t.again /\ u.used = w.used /\ u.aborted = w.aborted
      /\ u = [w EXCEPT !.look = u.look, !.known = u.known]
  <2>1. w \in Engine
    BY <1>4
  <2>2. /\ u.look = [w.look EXCEPT ![b] = <<>>] /\ u.known = [w.known EXCEPT ![b] = {}]
        /\ u.cache = w.cache /\ u.again = w.again /\ u.used = w.used /\ u.aborted = w.aborted
        /\ u = [w EXCEPT !.look = u.look, !.known = u.known]
    BY <1>5, <2>1 DEF Engine
  <2>3. w.cache = t.cache /\ w.look = t.look /\ w.known = t.known /\ w.again = t.again
    BY <1>4
  <2> QED
    BY <2>2, <2>3
<1>7. t.look \in [Browsers -> Seq(LookupSet)] /\ t.known \in [Browsers -> SUBSET (Ifaces \X Records)]
  BY <1>1, EngineFields
<1>8. <<>> \in Seq(LookupSet) /\ {} \in SUBSET (Ifaces \X Records)
  OBVIOUS
<1>9. u.look \in [Browsers -> Seq(LookupSet)] /\ u.known \in [Browsers -> SUBSET (Ifaces \X Records)]
  BY <1>6, <1>7, <1>8, Changed
<1>10. u \in Engine
  BY <1>4, <1>6, <1>9 DEF Engine
<1>11. /\ u.look[b] = <<>> /\ u.known[b] = {}
       /\ \A c \in Browsers \ {b} : u.look[c] = t.look[c] /\ u.known[c] = t.known[c]
  BY <1>6, <1>7
<1>12. Informed(u, L \ {b})
  <2> SUFFICES ASSUME NEW c \in Browsers
               PROVE  IF c \in L \ {b} THEN Runs(c, u, u.cache) ELSE Rests(c, u)
    BY <1>1, <1>6, <1>10 DEF Informed
  <2>1. CASE c = b
    BY <1>11, <2>1 DEF Rests
  <2>2. CASE c # b
    BY <1>6, <1>11, <2>2 DEF Informed, Runs, ToStart, Rests
  <2> QED
    BY <2>1, <2>2
<1>13. ASSUME NEW i \in up, NEW k \in Keys
       PROVE  Asking(u, i, k) = Asking(t, i, k) \ ({b} \X DOMAIN t.look[b])
  <2> PICK X : X = Asking(t, i, k) \ ({b} \X DOMAIN t.look[b])
    OBVIOUS
  <2>1. ASSUME NEW c \in Browsers, NEW n PROVE <<c, n>> \in Asking(u, i, k) <=> <<c, n>> \in X
    <3>1. <<c, n>> \in Asking(u, i, k) <=> n \in 1..Len(u.look[c]) /\ ~ u.look[c][n].todo /\ Wants(u.look[c][n], i, k)
      BY <1>10, Asks
    <3>2. <<c, n>> \in Asking(t, i, k) <=> n \in 1..Len(t.look[c]) /\ ~ t.look[c][n].todo /\ Wants(t.look[c][n], i, k)
      BY <1>1, Asks
    <3>3. CASE c = b
      <4>1. ~ (n \in 1..Len(u.look[b]))
        BY <1>11
      <4>2. n \in 1..Len(t.look[b]) => <<b, n>> \in {b} \X DOMAIN t.look[b]
        BY <1>1, LookFields
      <4> QED
        BY <3>1, <3>2, <3>3, <4>1, <4>2
    <3>4. CASE c # b
      BY <1>11, <3>1, <3>2, <3>4
    <3> QED
      BY <3>3, <3>4
  <2>2. \A x \in Asking(u, i, k) : x \in X
    BY <1>10, <2>1, AskingPairs
  <2>3. \A x \in X : x \in Asking(u, i, k)
    BY <1>1, <2>1, AskingPairs
  <2> QED
    BY <2>2, <2>3
<1>14. Counts(u, up)
  BY <1>4, <1>6, <1>13 DEF Counts
<1> QED
  BY <1>12, <1>14

-----------------------------------------------------------------------------
(***************************************************************************)
(* The invariant                                                           *)
(***************************************************************************)
Live == {b \in Browsers : st[b] = "live"}

BrowseInv ==
    /\ up \subseteq Ifaces /\ st \in [Browsers -> {"free", "deferred", "live", "dead"}]
    /\ Informed(e, Live)
    /\ Counts(e, up)

\* Nobody asks for anything.
LEMMA InitInv ==
    ASSUME BrowserAssumption, BrowseInit
    PROVE  BrowseInv
<1>1. up \subseteq Ifaces /\ st = [b \in Browsers |-> "free"]
  BY DEF BrowseInit
<1>2. PICK C \in [up -> SUBSET Records] :
         e = [cache |-> [i \in Ifaces |-> IF i \in up THEN C[i] ELSE {}],
              look |-> [b \in Browsers |-> <<>>], known |-> [b \in Browsers |-> {}],
              again |-> FALSE, used |-> [i \in Ifaces |-> NobodyAsks], aborted |-> FALSE]
  BY DEF BrowseInit
<1>3. /\ e.cache = [i \in Ifaces |-> IF i \in up THEN C[i] ELSE {}]
      /\ e.look = [b \in Browsers |-> <<>>] /\ e.known = [b \in Browsers |-> {}]
      /\ e.used = [i \in Ifaces |-> NobodyAsks] /\ e.again = FALSE
  BY <1>2
<1>4. e \in Engine
  <2>1. e.cache \in [Ifaces -> SUBSET Records]
    BY <1>3
  <2>2. e.look \in [Browsers -> Seq(LookupSet)]
    <3>1. <<>> \in Seq(LookupSet)
      OBVIOUS
    <3> QED
      BY <1>3, <3>1
  <2>3. e.known \in [Browsers -> SUBSET (Ifaces \X Records)]
    BY <1>3
  <2>4. e.used \in [Ifaces -> [Keys -> Nat]]
    BY <1>3 DEF NobodyAsks
  <2> PICK D : D = [i \in Ifaces |-> IF i \in up THEN C[i] ELSE {}]
    OBVIOUS
  <2> PICK l : l = [b \in Browsers |-> <<>>]
    OBVIOUS
  <2> PICK K : K = [b \in Browsers |-> {}]
    OBVIOUS
  <2> PICK q : q = [i \in Ifaces |-> NobodyAsks]
    OBVIOUS
  <2>5. e = [cache |-> D, look |-> l, known |-> K, again |-> FALSE, used |-> q, aborted |-> FALSE]
    BY <1>2
  <2>6. /\ D \in [Ifaces -> SUBSET Records] /\ l \in [Browsers -> Seq(LookupSet)]
        /\ K \in [Browsers -> SUBSET (Ifaces \X Records)] /\ q \in [Ifaces -> [Keys -> Nat]]
    BY <1>3, <2>1, <2>2, <2>3, <2>4
  <2>7. [cache |-> D, look |-> l, known |-> K, again |-> FALSE, used |-> q, aborted |-> FALSE] \in Engine
    BY <2>6 DEF Engine
  <2> QED
    BY <2>5, <2>7
<1>5. Informed(e, Live)
  <2>1. \A b \in Browsers : b \notin Live /\ Rests(b, e)
    BY <1>1, <1>3 DEF Live, Rests
  <2> QED
    BY <1>3, <1>4, <2>1 DEF Informed
<1>6. Counts(e, up)
  <2> SUFFICES ASSUME NEW i \in up, NEW k \in Keys PROVE e.used[i][k] = Cardinality(Asking(e, i, k))
    BY DEF Counts
  <2>1. \A c \in Browsers : 1..Len(e.look[c]) = {}
    BY <1>3
  <2>2. Asking(e, i, k) = {}
    BY <1>4, <2>1, AskingPairs
  <2>3. e.used[i][k] = 0
    BY <1>1, <1>3 DEF NobodyAsks
  <2> QED
    BY <2>2, <2>3, FS_EmptySet
<1> QED
  BY <1>1, <1>5, <1>6 DEF BrowseInv

LEMMA RootAlone ==
    ASSUME BrowserAssumption, NEW b, NEW l, l.key = KeyFor[b], l.on = IfaceFor[b]
    PROVE  Rooted(b, <<l>>)
<1>1. Len(<<l>>) = 1 /\ <<l>>[1] = l
  OBVIOUS
<1>2. 1 <= 1 /\ 1 <= MaxLookups
  BY Constants
<1>3. \A n \in 2..1 : FALSE
  OBVIOUS
<1> QED
  BY <1>1, <1>2, <1>3 DEF Rooted

\* The lookup of a browser's key is made.
LEMMA RootMade ==
    ASSUME BrowserAssumption, up \subseteq Ifaces, NEW b \in Browsers, NEW t, NEW L, Informed(t, L), Counts(t, up),
           b \notin L
    PROVE  LET u == [t EXCEPT !.look[b] = <<NewLookup(IfaceFor[b], KeyFor[b])>>]
           IN  StepOf(b, t, u) /\ u \in Works(b)
<1> PICK l : l = NewLookup(IfaceFor[b], KeyFor[b])
  OBVIOUS
<1> PICK u : u = [t EXCEPT !.look[b] = <<l>>]
  OBVIOUS
<1>1. t \in Engine /\ ~ t.again /\ t.look[b] = <<>> /\ t.known[b] = {}
  BY DEF Informed, Rests
<1>2. l \in LookupSet /\ l.key = KeyFor[b] /\ l.on = IfaceFor[b] /\ l.todo = TRUE
  BY Constants DEF NewLookup, LookupSet
<1>3. /\ u.look = [t.look EXCEPT ![b] = <<l>>] /\ u.known = t.known /\ u.again = t.again
      /\ u.cache = t.cache /\ u.used = t.used /\ u.aborted = t.aborted
      /\ u = [t EXCEPT !.look = u.look]
  BY <1>1 DEF Engine
<1>4. t.look \in [Browsers -> Seq(LookupSet)]
  BY <1>1, EngineFields
<1>5. <<l>> \in Seq(LookupSet)
  BY <1>2
<1>6. u.look \in [Browsers -> Seq(LookupSet)]
  BY <1>3, <1>4, <1>5, Changed
<1>7. u \in Engine
  BY <1>1, <1>3, <1>6 DEF Engine
<1>8. u.look[b] = <<l>> /\ \A c \in Browsers \ {b} : u.look[c] = t.look[c]
  BY <1>3, <1>4
<1>9. StepOf(b, t, u)
  BY <1>3, <1>7, <1>8 DEF StepOf
<1>10. Rooted(b, u.look[b])
  BY <1>2, <1>8, RootAlone
<1>11. Working(b, u)
  <2>1. Mine(b, u.known[b]) = {}
    BY <1>1, <1>3 DEF Mine
  <2>2. u.look[b][1].todo
    BY <1>2, <1>8
  <2> QED
    BY <1>1, <1>3, <1>7, <1>10, <2>1, <2>2 DEF Working
<1>12. ASSUME NEW i, NEW k PROVE Asking(u, i, k) = Asking(t, i, k)
  <2>1. ASSUME NEW c \in Browsers, NEW n PROVE <<c, n>> \in Asking(u, i, k) <=> <<c, n>> \in Asking(t, i, k)
    <3>1. <<c, n>> \in Asking(u, i, k) <=> n \in 1..Len(u.look[c]) /\ ~ u.look[c][n].todo /\ Wants(u.look[c][n], i, k)
      BY <1>7, Asks
    <3>2. <<c, n>> \in Asking(t, i, k) <=> n \in 1..Len(t.look[c]) /\ ~ t.look[c][n].todo /\ Wants(t.look[c][n], i, k)
      BY <1>1, Asks
    <3>3. CASE c = b
      <4>1. ~ (n \in 1..Len(t.look[b]))
        BY <1>1
      <4>2. n \in 1..Len(u.look[b]) => u.look[b][n].todo
        BY <1>2, <1>8
      <4> QED
        BY <3>1, <3>2, <3>3, <4>1, <4>2
    <3>4. CASE c # b
      BY <1>8, <3>1, <3>2, <3>4
    <3> QED
      BY <3>3, <3>4
  <2> QED
    BY <1>1, <1>7, <2>1, AskingSame
<1>13. Counts(u, up)
  <2> SUFFICES ASSUME NEW i \in up, NEW k \in Keys PROVE u.used[i][k] = Cardinality(Asking(u, i, k))
    BY DEF Counts
  <2>1. t.used[i][k] = Cardinality(Asking(t, i, k))
    BY DEF Counts
  <2> QED
    BY <1>3, <1>12, <2>1
<1> QED
  BY <1>7, <1>9, <1>11, <1>13 DEF Works

\* A browser starts.
LEMMA BrowserStarts ==
    ASSUME BrowserAssumption, up \subseteq Ifaces, NEW b \in Browsers, NEW t, NEW L, Informed(t, L), Counts(t, up),
           b \notin L
    PROVE  LET u == GoAll(b, [t EXCEPT !.look[b] = <<NewLookup(IfaceFor[b], KeyFor[b])>>])
           IN  Informed(u, L \cup {b}) /\ Counts(u, up)
<1> PICK v : v = [t EXCEPT !.look[b] = <<NewLookup(IfaceFor[b], KeyFor[b])>>]
  OBVIOUS
<1> PICK u : u = GoAll(b, v)
  OBVIOUS
<1>1. StepOf(b, t, v) /\ v \in Works(b)
  BY RootMade
<1>2. StepOf(b, v, u) /\ u \in Works(b) /\ ToStart(b, u) = {}
  BY <1>1, AllStart
<1>3. StepOf(b, t, u)
  BY <1>1, <1>2 DEF StepOf
<1>4. u \in Engine /\ Rooted(b, u.look[b]) /\ ~ u.again /\ Counts(u, up)
      /\ Mine(b, u.known[b]) = IF u.look[b][1].todo THEN {} ELSE Seen(b, u.cache)
  BY <1>2 DEF Works, Working
<1>5. ~ u.look[b][1].todo
  <2>1. 1 \in DOMAIN u.look[b]
    BY <1>4, LookFields DEF Rooted
  <2> QED
    BY <1>2, <2>1 DEF ToStart
<1>6. Runs(b, u, u.cache)
  BY <1>2, <1>4, <1>5 DEF Runs
<1>7. ASSUME NEW c \in Browsers
      PROVE  IF c \in L \cup {b} THEN Runs(c, u, u.cache) ELSE Rests(c, u)
  <2>1. CASE c = b
    BY <1>6, <2>1
  <2>2. CASE c # b
    <3>1. u.look[c] = t.look[c] /\ u.known[c] = t.known[c] /\ u.cache = t.cache
      BY <1>3, <2>2 DEF StepOf
    <3>2. Runs(c, u, u.cache) <=> Runs(c, t, t.cache)
      BY <3>1 DEF Runs, ToStart
    <3>3. Rests(c, u) <=> Rests(c, t)
      BY <3>1 DEF Rests
    <3>4. IF c \in L THEN Runs(c, t, t.cache) ELSE Rests(c, t)
      BY DEF Informed
    <3> QED
      BY <2>2, <3>2, <3>3, <3>4
  <2> QED
    BY <2>1, <2>2
<1>8. Informed(u, L \cup {b})
  BY <1>4, <1>7 DEF Informed
<1> QED
  BY <1>4, <1>8

\* The client of a lookup is told that there is nothing more for now.
LEMMA NowTold ==
    ASSUME NEW b \in Browsers, NEW t, NEW L, Informed(t, L), NEW W, Counts(t, W), NEW n \in DOMAIN t.look[b]
    PROVE  LET u == [t EXCEPT !.look[b][n].now = FALSE]
           IN  Informed(u, L) /\ Counts(u, W)
<1> PICK u : u = [t EXCEPT !.look[b][n].now = FALSE]
  OBVIOUS
<1> PICK s : s = t.look[b]
  OBVIOUS
<1> PICK l : l = [s[n] EXCEPT !.now = FALSE]
  OBVIOUS
<1> PICK q : q = [s EXCEPT ![n] = l]
  OBVIOUS
<1>1. t \in Engine /\ ~ t.again
  BY DEF Informed
<1>2. s \in Seq(LookupSet) /\ n \in 1..Len(s) /\ (\A m \in 1..Len(s) : s[m] \in LookupSet) /\ DOMAIN s = 1..Len(s)
  BY <1>1, LookFields
<1>3. l \in LookupSet /\ l.key = s[n].key /\ l.on = s[n].on /\ l.todo = s[n].todo
  BY <1>2 DEF LookupSet
<1>4. /\ q \in Seq(LookupSet) /\ Len(q) = Len(s) /\ q[n] = l /\ DOMAIN q = DOMAIN s
      /\ \A m \in 1..Len(s) : m # n => q[m] = s[m]
  BY <1>2, <1>3
<1>5. /\ u.look = [t.look EXCEPT ![b] = q]
      /\ u.known = t.known /\ u.again = t.again /\ u.cache = t.cache /\ u.used = t.used /\ u.aborted = t.aborted
      /\ u = [t EXCEPT !.look = u.look]
  BY <1>1 DEF Engine
<1>6. t.look \in [Browsers -> Seq(LookupSet)]
  BY <1>1, EngineFields
<1>7. u.look \in [Browsers -> Seq(LookupSet)]
  BY <1>4, <1>5, <1>6, Changed
<1>8. u \in Engine
  BY <1>1, <1>5, <1>7 DEF Engine
<1>9. u.look[b] = q /\ \A c \in Browsers \ {b} : u.look[c] = t.look[c]
  BY <1>5, <1>6
<1>10. \A m \in 1..Len(s) : q[m].key = s[m].key /\ q[m].on = s[m].on /\ q[m].todo = s[m].todo
  BY <1>3, <1>4
<1>11. ToStart(b, u) = ToStart(b, t)
  BY <1>2, <1>4, <1>9, <1>10 DEF ToStart
<1>12. Rooted(b, s) => Rooted(b, q)
  <2> SUFFICES ASSUME Rooted(b, s) PROVE Rooted(b, q)
    OBVIOUS
  <2>1. 1 \in 1..Len(s) /\ \A m \in 2..Len(s) : m \in 1..Len(s)
    BY <1>2 DEF Rooted
  <2> QED
    BY <1>4, <1>10, <2>1 DEF Rooted
<1>13. s # <<>>
  BY <1>2
<1>14. ASSUME NEW c \in Browsers
       PROVE  IF c \in L THEN Runs(c, u, u.cache) ELSE Rests(c, u)
  <2>1. IF c \in L THEN Runs(c, t, t.cache) ELSE Rests(c, t)
    BY DEF Informed
  <2>2. CASE c = b
    BY <1>5, <1>9, <1>11, <1>12, <1>13, <2>1, <2>2 DEF Runs, Rests
  <2>3. CASE c # b
    BY <1>5, <1>9, <2>1, <2>3 DEF Runs, Rests, ToStart
  <2> QED
    BY <2>2, <2>3
<1>15. \A c \in Browsers : Alike(u.look[c], t.look[c])
  <2>1. Alike(q, s) /\ \A c \in Browsers : Alike(t.look[c], t.look[c])
    BY <1>4, <1>10 DEF Alike
  <2> QED
    BY <1>9, <2>1
<1>16. Counts(u, W)
  BY <1>1, <1>5, <1>8, <1>15, CountsAlike
<1>17. Informed(u, L)
  BY <1>1, <1>5, <1>8, <1>14 DEF Informed
<1> QED
  BY <1>16, <1>17

-----------------------------------------------------------------------------
(***************************************************************************)
(* Links                                                                   *)
(***************************************************************************)
\* The queriers of an interface.
Queried(t, i, q) == [t EXCEPT !.used[i] = q]

LEMMA QueriersChanged ==
    ASSUME NEW t \in Engine, NEW i \in Ifaces, NEW q \in [Keys -> Nat]
    PROVE  LET u == Queried(t, i, q)
           IN  /\ u \in Engine /\ u.look = t.look /\ u.known = t.known /\ u.again = t.again /\ u.cache = t.cache
               /\ u.used[i] = q /\ \A j \in Ifaces \ {i} : u.used[j] = t.used[j]
<1> PICK u : u = Queried(t, i, q)
  OBVIOUS
<1> PICK D : D = [t.used EXCEPT ![i] = q]
  OBVIOUS
<1>1. /\ u.used = D /\ u.look = t.look /\ u.known = t.known /\ u.again = t.again /\ u.cache = t.cache
      /\ u.aborted = t.aborted /\ u = [t EXCEPT !.used = u.used]
  BY DEF Queried, Engine
<1>2. t.used \in [Ifaces -> [Keys -> Nat]]
  BY EngineFields
<1>3. D \in [Ifaces -> [Keys -> Nat]]
  BY <1>2, Changed
<1>4. D[i] = q /\ \A j \in Ifaces \ {i} : D[j] = t.used[j]
  BY <1>2
<1>5. u \in Engine
  BY <1>1, <1>3 DEF Engine
<1> QED
  BY <1>1, <1>4, <1>5

LEMMA QueriersInformed ==
    ASSUME NEW t, NEW L, Informed(t, L), NEW i \in Ifaces, NEW q \in [Keys -> Nat]
    PROVE  Informed(Queried(t, i, q), L)
<1> PICK u : u = Queried(t, i, q)
  OBVIOUS
<1>1. t \in Engine /\ ~ t.again
  BY DEF Informed
<1>2. u \in Engine /\ u.look = t.look /\ u.known = t.known /\ u.again = t.again /\ u.cache = t.cache
  BY <1>1, QueriersChanged
<1>3. \A D : Clients(u, L, {}, D, t.cache)
  BY <1>2, InformedClients
<1>4. Clients(u, L, {}, u.cache, u.cache)
  BY <1>2, <1>3
<1> QED
  BY <1>1, <1>2, <1>4 DEF Informed, Clients

\* The link of interface i goes down: its queriers and what it cached are gone.
LEMMA LinkGoes ==
    ASSUME BrowserAssumption, up \subseteq Ifaces, NEW t, NEW L, Informed(t, L), Counts(t, up), NEW i \in up
    PROVE  LET u == Flushed(Queried(t, i, NobodyAsks), i)
           IN  Informed(u, L) /\ Counts(u, up \ {i})
<1> PICK v : v = Queried(t, i, NobodyAsks)
  OBVIOUS
<1> PICK u : u = Flushed(v, i)
  OBVIOUS
<1>1. NobodyAsks \in [Keys -> Nat] /\ i \in Ifaces /\ t \in Engine
  BY DEF NobodyAsks, Informed
<1>2. v.look = t.look /\ \A j \in Ifaces \ {i} : v.used[j] = t.used[j]
  BY <1>1, QueriersChanged
<1>3. Informed(v, L)
  BY <1>1, QueriersInformed
<1>4. Without(v.cache[i], v, u, i, L)
  BY <1>1, <1>3, AllGo
<1>5. Informed(u, L) /\ u.look = v.look /\ u.used = v.used
  BY <1>4 DEF Without
<1>6. Counts(u, up \ {i})
  <2> SUFFICES ASSUME NEW j \in up \ {i}, NEW k \in Keys PROVE u.used[j][k] = Cardinality(Asking(u, j, k))
    BY DEF Counts
  <2>1. Asking(u, j, k) = Asking(t, j, k)
    BY <1>2, <1>5, AskingLook
  <2>2. t.used[j][k] = Cardinality(Asking(t, j, k))
    BY DEF Counts
  <2>3. u.used[j] = t.used[j]
    BY <1>2, <1>5
  <2> QED
    BY <2>1, <2>2, <2>3
<1> QED
  BY <1>5, <1>6

\* It comes up: the lookups that have started ask there too.
LEMMA LinkComes ==
    ASSUME BrowserAssumption, up \subseteq Ifaces, NEW t, NEW L, Informed(t, L), Counts(t, up), NEW i \in Ifaces
    PROVE  LET u == Queried(t, i, [k \in Keys |-> Cardinality(Asking(t, i, k))])
           IN  Informed(u, L) /\ Counts(u, up \cup {i})
<1> PICK q : q = [k \in Keys |-> Cardinality(Asking(t, i, k))]
  OBVIOUS
<1> PICK u : u = Queried(t, i, q)
  OBVIOUS
<1>1. t \in Engine
  BY DEF Informed
<1>2. \A k \in Keys : Cardinality(Asking(t, i, k)) \in Nat
  BY <1>1, AskingFinite
<1>3. q \in [Keys -> Nat]
  BY <1>2
<1>4. u.look = t.look /\ u.used[i] = q /\ \A j \in Ifaces \ {i} : u.used[j] = t.used[j]
  BY <1>1, <1>3, QueriersChanged
<1>5. Informed(u, L)
  BY <1>3, QueriersInformed
<1>6. Counts(u, up \cup {i})
  <2> SUFFICES ASSUME NEW j \in up \cup {i}, NEW k \in Keys PROVE u.used[j][k] = Cardinality(Asking(u, j, k))
    BY DEF Counts
  <2>1. Asking(u, j, k) = Asking(t, j, k)
    BY <1>4, AskingLook
  <2>2. CASE j = i
    <3>1. u.used[i][k] = Cardinality(Asking(t, i, k))
      BY <1>4
    <3> QED
      BY <2>1, <2>2, <3>1
  <2>3. CASE j # i
    <3>1. j \in up /\ u.used[j] = t.used[j]
      BY <1>4, <2>3
    <3>2. t.used[j][k] = Cardinality(Asking(t, j, k))
      BY <3>1 DEF Counts
    <3> QED
      BY <2>1, <3>1, <3>2
  <2> QED
    BY <2>2, <2>3
<1> QED
  BY <1>5, <1>6

-----------------------------------------------------------------------------
(***************************************************************************)
(* The steps                                                               *)
(***************************************************************************)
\* The browsers that run after a step that changes the state of b.
LEMMA LiveChanges ==
    ASSUME st \in [Browsers -> {"free", "deferred", "live", "dead"}], NEW b \in Browsers,
           NEW x \in {"free", "deferred", "live", "dead"}, st' = [st EXCEPT ![b] = x]
    PROVE  /\ st' \in [Browsers -> {"free", "deferred", "live", "dead"}]
           /\ Live' = IF x = "live" THEN Live \cup {b} ELSE Live \ {b}
<1>1. st' \in [Browsers -> {"free", "deferred", "live", "dead"}]
  OBVIOUS
<1>2. st'[b] = x /\ \A c \in Browsers \ {b} : st'[c] = st[c]
  OBVIOUS
<1>3. CASE x = "live"
  BY <1>2, <1>3 DEF Live
<1>4. CASE x # "live"
  BY <1>2, <1>4 DEF Live
<1> QED
  BY <1>1, <1>3, <1>4

LEMMA InvFields ==
    ASSUME BrowseInv
    PROVE  /\ up \subseteq Ifaces /\ st \in [Browsers -> {"free", "deferred", "live", "dead"}]
           /\ Informed(e, Live) /\ Counts(e, up)
  BY DEF BrowseInv

LEMMA NewStep ==
    ASSUME BrowseInv, NEW b \in Browsers, RecordBrowserNew(b)
    PROVE  BrowseInv'
<1>1. st[b] = "free" /\ st' = [st EXCEPT ![b] = "deferred"] /\ up' = up /\ e' = e
  BY DEF RecordBrowserNew
<1>2. st' \in [Browsers -> {"free", "deferred", "live", "dead"}] /\ Live' = Live \ {b}
  BY <1>1, InvFields, LiveChanges
<1>3. Live' = Live
  BY <1>1, <1>2 DEF Live
<1>4. Informed(e, Live)' /\ Counts(e, up)'
  BY <1>1, <1>3, InvFields
<1> QED
  BY <1>1, <1>2, <1>4, InvFields DEF BrowseInv

LEMMA DeferStep ==
    ASSUME BrowserAssumption, BrowseInv, NEW b \in Browsers, DeferCallback(b)
    PROVE  BrowseInv'
<1> PICK u : u = GoAll(b, [e EXCEPT !.look[b] = <<NewLookup(IfaceFor[b], KeyFor[b])>>])
  OBVIOUS
<1>1. st[b] = "deferred" /\ st' = [st EXCEPT ![b] = "live"] /\ up' = up /\ e' = u
  BY DEF DeferCallback
<1>2. st' \in [Browsers -> {"free", "deferred", "live", "dead"}] /\ Live' = Live \cup {b}
  BY <1>1, InvFields, LiveChanges
<1>3. b \notin Live
  BY <1>1 DEF Live
<1>4. Informed(u, Live \cup {b}) /\ Counts(u, up)
  BY <1>3, InvFields, BrowserStarts
<1>5. Informed(e, Live)' /\ Counts(e, up)'
  BY <1>1, <1>2, <1>4
<1> QED
  BY <1>1, <1>2, <1>5, InvFields DEF BrowseInv

LEMMA NowStep ==
    ASSUME BrowseInv, NEW b \in Browsers, NEW n, AllForNow(b, n)
    PROVE  BrowseInv'
<1> PICK u : u = [e EXCEPT !.look[b][n].now = FALSE]
  OBVIOUS
<1>1. n \in DOMAIN e.look[b] /\ e' = u /\ up' = up /\ st' = st
  BY DEF AllForNow
<1>2. Informed(u, Live) /\ Counts(u, up)
  BY <1>1, InvFields, NowTold
<1>3. Live' = Live
  BY <1>1 DEF Live
<1>4. Informed(e, Live)' /\ Counts(e, up)'
  BY <1>1, <1>2, <1>3
<1> QED
  BY <1>1, <1>4, InvFields DEF BrowseInv

LEMMA CancelStep ==
    ASSUME BrowserAssumption, BrowseInv, NEW b \in Browsers, Restart(b) \/ RecordBrowserFree(b)
    PROVE  BrowseInv'
<1> PICK u : u = Cancel(b, e)
  OBVIOUS
<1>1. PICK x \in {"deferred", "dead"} : st' = [st EXCEPT ![b] = x] /\ up' = up /\ e' = u
  BY DEF Restart, RecordBrowserFree
<1>2. st' \in [Browsers -> {"free", "deferred", "live", "dead"}] /\ Live' = Live \ {b}
  BY <1>1, InvFields, LiveChanges
<1>3. Informed(u, Live \ {b}) /\ Counts(u, up)
  BY InvFields, Cancelled
<1>4. Informed(e, Live)' /\ Counts(e, up)'
  BY <1>1, <1>2, <1>3
<1> QED
  BY <1>1, <1>2, <1>4, InvFields DEF BrowseInv

LEMMA CacheNewStep ==
    ASSUME BrowserAssumption, BrowseInv, NEW i \in Ifaces, NEW r \in Records, CacheNew(i, r)
    PROVE  BrowseInv'
<1> PICK u : u = Notify(Cached(e, i, e.cache[i] \cup {r}), i, "NEW", r)
  OBVIOUS
<1>1. r \notin e.cache[i] /\ e' = u /\ up' = up /\ st' = st
  BY DEF CacheNew, Cached
<1>2. Informed(u, Live) /\ Counts(u, up)
  BY <1>1, InvFields, RecordComes
<1>3. Live' = Live
  BY <1>1 DEF Live
<1>4. Informed(e, Live)' /\ Counts(e, up)'
  BY <1>1, <1>2, <1>3
<1> QED
  BY <1>1, <1>4, InvFields DEF BrowseInv

LEMMA CacheRemoveStep ==
    ASSUME BrowserAssumption, BrowseInv, NEW i \in Ifaces, NEW r \in Records, CacheRemove(i, r)
    PROVE  BrowseInv'
<1> PICK u : u = GoneOf(i, r, e)
  OBVIOUS
<1>1. r \in e.cache[i] /\ e' = u /\ up' = up /\ st' = st
  BY DEF CacheRemove, GoneOf, Cached
<1>2. Informed(u, Live) /\ u.look = e.look /\ u.used = e.used
  BY <1>1, InvFields, RecordGoes
<1>3. Counts(u, up)
  BY <1>2, InvFields, CountsSame
<1>4. Live' = Live
  BY <1>1 DEF Live
<1>5. Informed(e, Live)' /\ Counts(e, up)'
  BY <1>1, <1>2, <1>3, <1>4
<1> QED
  BY <1>1, <1>5, InvFields DEF BrowseInv

LEMMA LinkDownStep ==
    ASSUME BrowserAssumption, BrowseInv, NEW i \in Ifaces, LinkDown(i)
    PROVE  BrowseInv'
<1> PICK v : v = Queried(e, i, NobodyAsks)
  OBVIOUS
<1> PICK u : u = Flushed(v, i)
  OBVIOUS
<1>1. i \in up /\ up' = up \ {i} /\ st' = st
  BY DEF LinkDown
<1>2. v.cache = e.cache
  <2>1. e \in Engine /\ NobodyAsks \in [Keys -> Nat]
    BY InvFields DEF Informed, NobodyAsks
  <2> QED
    BY <2>1, QueriersChanged
<1>3. e' = u
  BY <1>2 DEF LinkDown, Flushed, GoneOf, Cached, Queried, FoldSet, MapThenFoldSet
<1>4. Informed(u, Live) /\ Counts(u, up \ {i})
  BY <1>1, InvFields, LinkGoes
<1>5. Live' = Live
  BY <1>1 DEF Live
<1>6. Informed(e, Live)' /\ Counts(e, up)'
  BY <1>1, <1>3, <1>4, <1>5
<1> QED
  BY <1>1, <1>6, InvFields DEF BrowseInv

LEMMA LinkUpStep ==
    ASSUME BrowserAssumption, BrowseInv, NEW i \in Ifaces, LinkUp(i)
    PROVE  BrowseInv'
<1> PICK u : u = Queried(e, i, [k \in Keys |-> Cardinality(Asking(e, i, k))])
  OBVIOUS
<1>1. up' = up \cup {i} /\ st' = st /\ e' = u
  BY DEF LinkUp, Queried
<1>2. Informed(u, Live) /\ Counts(u, up \cup {i})
  BY InvFields, LinkComes
<1>3. Live' = Live
  BY <1>1 DEF Live
<1>4. Informed(e, Live)' /\ Counts(e, up)'
  BY <1>1, <1>2, <1>3
<1> QED
  BY <1>1, <1>4, InvFields DEF BrowseInv

LEMMA NextInv ==
    ASSUME BrowserAssumption, BrowseInv, [BrowseNext]_browseVars
    PROVE  BrowseInv'
<1>1. CASE UNCHANGED browseVars
  <2>1. up' = up /\ st' = st /\ e' = e
    BY <1>1 DEF browseVars
  <2>2. Live' = Live
    BY <2>1 DEF Live
  <2>3. Informed(e, Live)' /\ Counts(e, up)'
    BY <2>1, <2>2, InvFields
  <2> QED
    BY <2>1, <2>3, InvFields DEF BrowseInv
<1>2. ASSUME NEW b \in Browsers,
             \/ RecordBrowserNew(b) \/ DeferCallback(b) \/ Restart(b) \/ RecordBrowserFree(b)
             \/ \E n \in 1..MaxLookups : AllForNow(b, n)
      PROVE  BrowseInv'
  BY <1>2, NewStep, DeferStep, NowStep, CancelStep
<1>3. ASSUME NEW i \in Ifaces,
             LinkDown(i) \/ LinkUp(i) \/ \E r \in Records : CacheNew(i, r) \/ CacheRemove(i, r)
      PROVE  BrowseInv'
  BY <1>3, CacheNewStep, CacheRemoveStep, LinkDownStep, LinkUpStep
<1> QED
  BY <1>1, <1>2, <1>3 DEF BrowseNext

-----------------------------------------------------------------------------
(***************************************************************************)
(* What the invariant is for                                               *)
(***************************************************************************)
LEMMA SeqTyped ==
    ASSUME NEW S, NEW T, NEW s \in Seq(S), \A n \in 1..Len(s) : s[n] \in T
    PROVE  s \in Seq(T)
  OBVIOUS

LEMMA LookTyped ==
    ASSUME NEW b \in Browsers, NEW t \in Engine, Runs(b, t, t.cache) \/ Rests(b, t)
    PROVE  t.look[b] \in Seq(Lookups)
<1>1. ToStart(b, t) = {}
  BY DEF Runs, Rests, ToStart
<1>2. /\ t.look[b] \in Seq(LookupSet) /\ \A n \in 1..Len(t.look[b]) : t.look[b][n] \in LookupSet /\ ~ t.look[b][n].todo
  BY <1>1, LookFields DEF ToStart
<1>3. \A l \in LookupSet : ~ l.todo => l \in Lookups
  BY DEF LookupSet, Lookups
<1>4. \A n \in 1..Len(t.look[b]) : t.look[b][n] \in Lookups
  BY <1>2, <1>3
<1> QED
  BY <1>2, <1>4, SeqTyped

LEMMA InvTyped ==
    ASSUME BrowserAssumption, BrowseInv
    PROVE  BrowseTypeOK
<1>1. e \in Engine /\ \A b \in Browsers : IF b \in Live THEN Runs(b, e, e.cache) ELSE Rests(b, e)
  BY InvFields DEF Informed
<1>2. ASSUME NEW i \in Ifaces PROVE e.cache[i] \subseteq Records /\ e.used[i] \in [Keys -> Nat]
  BY <1>1, EngineFields
<1>3. ASSUME NEW b \in Browsers
      PROVE  e.look[b] \in Seq(Lookups) /\ Len(e.look[b]) <= MaxLookups /\ (e.look[b] # <<>> <=> st[b] = "live")
  <2>1. e.look[b] \in Seq(Lookups)
    BY <1>1, LookTyped
  <2>2. b \in Live <=> st[b] = "live"
    BY DEF Live
  <2>3. CASE b \in Live
    <3>1. 1 <= Len(e.look[b]) /\ Len(e.look[b]) <= MaxLookups
      BY <1>1, <2>3 DEF Runs, Rooted
    <3>2. e.look[b] # <<>>
      BY <3>1
    <3> QED
      BY <2>1, <2>2, <2>3, <3>1, <3>2
  <2>4. CASE b \notin Live
    <3>1. e.look[b] = <<>>
      BY <1>1, <2>4 DEF Rests
    <3>2. Len(e.look[b]) <= MaxLookups
      BY <3>1, Constants
    <3> QED
      BY <2>1, <2>2, <2>4, <3>1, <3>2
  <2> QED
    BY <2>3, <2>4
<1> QED
  BY <1>2, <1>3, InvFields DEF BrowseTypeOK

LEMMA VisibleSeen ==
    ASSUME e \in Engine, NEW b
    PROVE  Visible(b) = Seen(b, e.cache)
<1>1. \A i \in Ifaces : e.cache[i] \subseteq Records
  BY EngineFields
<1>2. ASSUME NEW x \in Visible(b) PROVE x \in Seen(b, e.cache)
  <2>1. PICK i \in Ifaces : x \in {i} \X e.cache[i]
    BY DEF Visible
  <2>2. x[1] = i /\ x[2] \in e.cache[i] /\ x \in Ifaces \X Records
    BY <1>1, <2>1
  <2>3. Match(IfaceFor[b], x[1]) /\ x[2].key = KeyFor[b] /\ Fresh(b, x[2])
    BY DEF Visible, Fresh
  <2> QED
    BY <2>2, <2>3 DEF Seen, Found
<1>3. ASSUME NEW x \in Seen(b, e.cache) PROVE x \in Visible(b)
  <2>1. /\ x \in Ifaces \X Records /\ x[2] \in e.cache[x[1]]
        /\ Match(IfaceFor[b], x[1]) /\ x[2].key = KeyFor[b] /\ Fresh(b, x[2])
    BY DEF Seen, Found
  <2>2. x[1] \in Ifaces /\ x \in {x[1]} \X e.cache[x[1]]
    BY <2>1
  <2> QED
    BY <2>1, <2>2 DEF Visible, Fresh
<1> QED
  BY <1>2, <1>3

LEMMA InvSeen ==
    ASSUME BrowserAssumption, BrowseInv
    PROVE  ClientSeesCache
<1>1. e \in Engine /\ \A b \in Browsers : IF b \in Live THEN Runs(b, e, e.cache) ELSE Rests(b, e)
  BY InvFields DEF Informed
<1>2. ASSUME NEW b \in Browsers, st[b] = "live"
      PROVE  {x \in e.known[b] : x[2].key = KeyFor[b]} = Visible(b)
  <2>1. Mine(b, e.known[b]) = Seen(b, e.cache)
    BY <1>1, <1>2 DEF Live, Runs
  <2> QED
    BY <1>1, <2>1, VisibleSeen DEF Mine
<1> QED
  BY <1>2 DEF ClientSeesCache

LEMMA InvSafe ==
    ASSUME BrowserAssumption, BrowseInv
    PROVE  BrowseSafe
<1>1. EventsAlternate
  BY InvFields DEF Informed, EventsAlternate
<1>2. QuerierCounts
  BY InvFields DEF Counts, QuerierCounts
<1> QED
  BY <1>1, <1>2, InvTyped, InvSeen DEF BrowseSafe

\* Whatever records, interfaces and browsers come and go, what the client of a
\* running browser was told is what the caches of its interfaces hold for its key
\* (ClientSeesCache), it is never told the same twice in a row (EventsAlternate),
\* and each querier counts the lookups that want it (QuerierCounts).
THEOREM BrowseCorrect == BrowseSpec => []BrowseSafe
<1>1. BrowseInit => BrowseInv
  BY BrowserAssumption, InitInv
<1>2. BrowseInv /\ [BrowseNext]_browseVars => BrowseInv'
  BY BrowserAssumption, NextInv
<1>3. BrowseInv => BrowseSafe
  BY BrowserAssumption, InvSafe
<1> QED
  BY <1>1, <1>2, <1>3, PTL DEF BrowseSpec

=============================================================================
