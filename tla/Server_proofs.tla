----------------------------- MODULE Server_proofs -----------------------------
(***************************************************************************)
(* Proofs about parts of the avahi server.  Reflector: for any links and   *)
(* clients, any number of slots and any width of the ids, answers go home  *)
(* and messages do not.  Responding: whoever asked is going to hear, and   *)
(* the last that is said of a record that is gone is its goodbye.          *)
(* EntryGroups: groups that share records leave each other's alone, none   *)
(* registers too often, and a call adds all of its records or none.        *)
(***************************************************************************)
EXTENDS Reflector, Responding, EntryGroups, FiniteSetTheorems, WellFoundedInduction, TLAPS

-----------------------------------------------------------------------------
(***************************************************************************)
(* Reflector                                                               *)
(***************************************************************************)

LEMMA Constants ==
    /\ Slots \in Nat /\ Slots > 0 /\ IdMod \in Nat /\ Lag \in Nat
    /\ Lag + Slots < IdMod /\ IdMod > 0
  BY ReflectorAssumption

LEMMA ModOnce ==
    ASSUME NEW M \in Nat, M > 0, NEW x \in Nat, x < M + M
    PROVE  x % M = IF x < M THEN x ELSE x - M
  OBVIOUS

LEMMA ModRange ==
    ASSUME NEW M \in Nat, M > 0, NEW x \in Nat
    PROVE  x % M \in 0..(M - 1)
  OBVIOUS

LEMMA LeastNatural ==
    ASSUME NEW T, T \subseteq Nat, T # {}
    PROVE  \E n \in T : \A m \in T : n <= m
<1> DEFINE R == OpToRel(<, Nat)
<1>1. PICK n \in T : \A m \in T : ~ (<<m, n>> \in R)
  BY WFMin, NatLessThanWellFounded
<1>2. \A m \in T : ~ (m < n)
  BY <1>1 DEF OpToRel
<1> QED
  BY <1>2

-----------------------------------------------------------------------------
(* The queries that may still be answered are those of the last Lag ids: the id of
   each lies that many behind nextId, around the wrap.                            *)
Asking(q) ==
    /\ \E i \in 0..(IdMod - 1), c \in Clients, g \in 0..Lag : q = [id |-> i, client |-> c, lag |-> g]
    /\ q.id + 1 + q.lag \in {nextId, nextId + IdMod}

HasSlot(q) == slot[q.id % Slots].id = q.id => slot[q.id % Slots].client = q.client

SlotsInv ==
    /\ nextId \in 0..(IdMod - 1)
    /\ slot \in [0..(Slots - 1) -> {Free} \cup [id : 0..(IdMod - 1), client : Clients]]
    /\ \A q \in asked : Asking(q) /\ HasSlot(q)

HeardInv ==
    /\ heard \in [Links -> [from : Links \cup {"none"}, ours : BOOLEAN]]
    /\ \A l \in Links : heard[l] # Silence => (heard[l].ours <=> heard[l].from # l)

(* What allocate_slot returns: no id, or that of a free slot, n ids on. *)
LEMMA Allocated ==
    ASSUME nextId \in 0..(IdMod - 1)
    PROVE  \/ AllocateSlot = -1
           \/ \E n \in 0..(Slots - 1) :
                /\ AllocateSlot = (nextId + n) % IdMod
                /\ slot[AllocateSlot % Slots] = Free
<1> DEFINE tries == {n \in 0..(Slots - 1) : slot[((nextId + n) % IdMod) % Slots] = Free}
           first == CHOOSE n \in tries : \A m \in tries : n <= m
<1>1. AllocateSlot = IF tries = {} THEN -1 ELSE (nextId + first) % IdMod
  BY DEF AllocateSlot
<1>2. CASE tries = {}
  BY <1>1, <1>2
<1>3. CASE tries # {}
  <2>1. tries \subseteq Nat
    BY Constants
  <2>2. \E n \in tries : \A m \in tries : n <= m
    <3> HIDE DEF tries
    <3> QED
      BY <2>1, <1>3, LeastNatural
  <2>3. first \in tries
    <3> HIDE DEF tries
    <3> QED
      BY <2>2
  <2>4. first \in 0..(Slots - 1) /\ slot[((nextId + first) % IdMod) % Slots] = Free
    BY <2>3
  <2> QED
    BY <1>1, <1>3, <2>4
<1> QED
  BY <1>2, <1>3

(* The arithmetic of the ids: n ids on, around the wrap at most once. *)
LEMMA IdsOn ==
    ASSUME nextId \in 0..(IdMod - 1), NEW n \in 0..Slots
    PROVE  (nextId + n) % IdMod = IF nextId + n < IdMod THEN nextId + n ELSE nextId + n - IdMod
<1>1. nextId + n \in Nat /\ nextId + n < IdMod + IdMod
  BY Constants
<1> QED
  BY <1>1, Constants, ModOnce

LEMMA NextIdOn ==
    ASSUME NEW id \in 0..(IdMod - 1)
    PROVE  /\ (id + 1) % IdMod = IF id + 1 < IdMod THEN id + 1 ELSE 0
           /\ id + 1 + 0 \in {(id + 1) % IdMod, ((id + 1) % IdMod) + IdMod}
<1>1. id + 1 \in Nat /\ id + 1 < IdMod + IdMod
  BY Constants
<1>2. (id + 1) % IdMod = IF id + 1 < IdMod THEN id + 1 ELSE id + 1 - IdMod
  BY <1>1, Constants, ModOnce
<1>3. (id + 1) % IdMod = IF id + 1 < IdMod THEN id + 1 ELSE 0
  BY <1>2, Constants
<1>4. id + 1 + 0 = IF id + 1 < IdMod THEN (id + 1) % IdMod ELSE ((id + 1) % IdMod) + IdMod
  <2>1. id + 1 < IdMod \/ id + 1 = IdMod
    BY Constants
  <2> QED
    BY <1>3, <2>1, Constants
<1> QED
  BY <1>3, <1>4

LEMMA ModNegative ==
    ASSUME NEW M \in Nat, M > 0, NEW d \in Nat, d < M
    PROVE  (d - M) % M = d
  OBVIOUS

(* How many ids are gone once id = nextId + n is taken. *)
LEMMA IdsGone ==
    ASSUME nextId \in 0..(IdMod - 1), NEW n \in 0..(Slots - 1), NEW id,
           id = (nextId + n) % IdMod
    PROVE  /\ id \in 0..(IdMod - 1)
           /\ (id + 1 - nextId) % IdMod = n + 1
<1>1. id = IF nextId + n < IdMod THEN nextId + n ELSE nextId + n - IdMod
  BY IdsOn, Constants
<1>2. id \in 0..(IdMod - 1)
  BY <1>1, Constants
<1>3. n + 1 \in Nat /\ n + 1 < IdMod
  BY Constants
<1>4. (n + 1) % IdMod = n + 1
  <2>1. n + 1 < IdMod + IdMod
    BY <1>3, Constants
  <2> QED
    BY <1>3, <2>1, Constants, ModOnce
<1>5. ((n + 1) - IdMod) % IdMod = n + 1
  BY <1>3, Constants, ModNegative
<1>6. id + 1 - nextId = n + 1 \/ id + 1 - nextId = (n + 1) - IdMod
  BY <1>1, Constants
<1> QED
  BY <1>2, <1>4, <1>5, <1>6

(* What Later keeps of a query, and where it came from. *)
LEMMA LaterOf ==
    ASSUME SlotsInv, NEW n \in Nat, NEW q \in Later(n)
    PROVE  \E p \in asked : /\ q.id = p.id /\ q.client = p.client /\ q.lag = p.lag + n
                            /\ q = [id |-> p.id, client |-> p.client, lag |-> p.lag + n]
                            /\ q.lag <= Lag
<1>1. PICK p \in asked : q = [p EXCEPT !.lag = @ + n]
  BY DEF Later
<1>2. q.lag <= Lag
  BY DEF Later
<1>3. PICK i \in 0..(IdMod - 1), c \in Clients, g \in 0..Lag : p = [id |-> i, client |-> c, lag |-> g]
  BY <1>1 DEF SlotsInv, Asking
<1>4. q = [id |-> p.id, client |-> p.client, lag |-> p.lag + n]
  BY <1>1, <1>3
<1> QED
  BY <1>2, <1>4

(* After n more ids the queries are where they should be, and none has a lag of
   less than n.                                                                  *)
LEMMA LaterAsking ==
    ASSUME SlotsInv, NEW n \in 0..Slots, nextId' = (nextId + n) % IdMod,
           NEW q \in Later(n)
    PROVE  Asking(q)' /\ q.lag >= n
<1>1. PICK p \in asked : /\ q.id = p.id /\ q.client = p.client /\ q.lag = p.lag + n
                         /\ q = [id |-> p.id, client |-> p.client, lag |-> p.lag + n]
                         /\ q.lag <= Lag
  <2>1. n \in Nat
    BY Constants
  <2> QED
    BY <2>1, LaterOf
<1>2. PICK i \in 0..(IdMod - 1), c \in Clients, g \in 0..Lag : p = [id |-> i, client |-> c, lag |-> g]
  BY <1>1 DEF SlotsInv, Asking
<1>3. p.id = i /\ p.client = c /\ p.lag = g
  BY <1>2
<1>4. g + n \in 0..Lag
  BY <1>1, <1>3, Constants
<1>5. q = [id |-> i, client |-> c, lag |-> g + n]
  BY <1>1, <1>3
<1>6. i + 1 + g \in {nextId, nextId + IdMod}
  BY <1>1, <1>3 DEF SlotsInv, Asking
<1>7. nextId' = IF nextId + n < IdMod THEN nextId + n ELSE nextId + n - IdMod
  BY IdsOn DEF SlotsInv
<1>8. i + 1 + (g + n) \in {nextId', nextId' + IdMod}
  BY <1>4, <1>6, <1>7, Constants DEF SlotsInv
<1>9. q.id + 1 + q.lag \in {nextId', nextId' + IdMod}
  BY <1>5, <1>8
<1>10. \E j \in 0..(IdMod - 1), d \in Clients, h \in 0..Lag : q = [id |-> j, client |-> d, lag |-> h]
  BY <1>4, <1>5
<1>11. q.lag >= n
  BY <1>4, <1>5, Constants
<1> QED
  BY <1>9, <1>10, <1>11 DEF Asking

LEMMA NoSlotKeeps ==
    ASSUME SlotsInv, nextId' = (nextId + Slots) % IdMod, asked' = Later(Slots), slot' = slot
    PROVE  SlotsInv'
<1>1. Slots \in 0..Slots
  BY Constants
<1>2. nextId' \in 0..(IdMod - 1)
  <2>1. nextId + Slots \in Nat
    BY Constants DEF SlotsInv
  <2> QED
    BY <2>1, Constants, ModRange
<1>3. ASSUME NEW q \in asked' PROVE (Asking(q) /\ HasSlot(q))'
  <2>1. q \in Later(Slots)
    BY <1>3
  <2>2. Asking(q)'
    BY <1>1, <2>1, LaterAsking
  <2>3. \E p \in asked : q.id = p.id /\ q.client = p.client
    <3>1. Slots \in Nat
      BY Constants
    <3> QED
      BY <2>1, <3>1, LaterOf
  <2>4. HasSlot(q)'
    BY <2>3 DEF HasSlot, SlotsInv
  <2> QED
    BY <2>2, <2>4
<1> QED
  BY <1>2, <1>3 DEF SlotsInv

(* A slot is taken: no query of the last Lag ids had the same id, so that one that
   had the same slot does not find it any more.                                   *)
LEMMA SlotKeeps ==
    ASSUME SlotsInv, NEW c \in Clients, NEW n \in 0..(Slots - 1), NEW id,
           id = (nextId + n) % IdMod, nextId' = (id + 1) % IdMod,
           slot' = [slot EXCEPT ![id % Slots] = [id |-> id, client |-> c]],
           asked' = Later((id + 1 - nextId) % IdMod) \cup {[id |-> id, client |-> c, lag |-> 0]}
    PROVE  SlotsInv'
<1>1. id \in 0..(IdMod - 1) /\ (id + 1 - nextId) % IdMod = n + 1
  BY IdsGone DEF SlotsInv
<1>2. n + 1 \in 0..Slots /\ nextId \in 0..(IdMod - 1)
  BY Constants DEF SlotsInv
<1>3. id = IF nextId + n < IdMod THEN nextId + n ELSE nextId + n - IdMod
  <2>1. n \in 0..Slots
    BY Constants
  <2> QED
    BY <1>2, <2>1, IdsOn
<1>4. nextId' = IF id + 1 < IdMod THEN id + 1 ELSE 0
  BY <1>1, NextIdOn
<1>5. nextId' = (nextId + (n + 1)) % IdMod
  <2>1. (nextId + (n + 1)) % IdMod
          = IF nextId + (n + 1) < IdMod THEN nextId + (n + 1) ELSE nextId + (n + 1) - IdMod
    BY <1>2, IdsOn
  <2> QED
    BY <1>2, <1>3, <1>4, <2>1, Constants
<1>6. nextId' \in 0..(IdMod - 1)
  BY <1>1, <1>4, Constants
<1>7. PICK k \in 0..(Slots - 1) : k = id % Slots
  BY <1>1, Constants, ModRange
<1>8. slot' \in [0..(Slots - 1) -> {Free} \cup [id : 0..(IdMod - 1), client : Clients]]
  BY <1>1, <1>7 DEF SlotsInv
<1>9. ASSUME NEW q \in Later(n + 1) PROVE (Asking(q) /\ HasSlot(q))'
  <2>1. Asking(q)' /\ q.lag >= n + 1
    BY <1>2, <1>5, <1>9, LaterAsking
  <2>2. PICK p \in asked : q.id = p.id /\ q.client = p.client
    <3>1. n + 1 \in Nat
      BY <1>2, Constants
    <3> QED
      BY <1>9, <3>1, LaterOf
  <2>3. q.id # id
    <3>1. PICK j \in 0..(IdMod - 1), d \in Clients, h \in 0..Lag : q = [id |-> j, client |-> d, lag |-> h]
      BY <2>1 DEF Asking
    <3>2. j + 1 + h \in {nextId', nextId' + IdMod} /\ h >= n + 1
      BY <2>1, <3>1 DEF Asking
    <3>3. j # id
      BY <1>1, <1>4, <3>2, Constants
    <3> QED
      BY <3>1, <3>3
  <2>4. q.id \in 0..(IdMod - 1)
    BY <2>1 DEF Asking
  <2>5. q.id % Slots \in 0..(Slots - 1)
    BY <2>4, Constants, ModRange
  <2>6. HasSlot(p)
    BY <2>2 DEF SlotsInv
  <2>7. HasSlot(q)'
    <3>1. CASE q.id % Slots = k
      <4>1. slot'[k].id = id
        BY <1>7 DEF SlotsInv
      <4> QED
        BY <2>3, <3>1, <4>1 DEF HasSlot
    <3>2. CASE q.id % Slots # k
      <4>1. slot'[q.id % Slots] = slot[q.id % Slots]
        BY <1>7, <2>5, <3>2 DEF SlotsInv
      <4> QED
        BY <2>2, <2>6, <4>1 DEF HasSlot
    <3> QED
      BY <3>1, <3>2
  <2> QED
    BY <2>1, <2>7
<1>10. ASSUME NEW q, q = [id |-> id, client |-> c, lag |-> 0] PROVE (Asking(q) /\ HasSlot(q))'
  <2>1. q.id = id /\ q.client = c /\ q.lag = 0
    BY <1>10
  <2>2. id + 1 + 0 \in {nextId', nextId' + IdMod}
    BY <1>1, NextIdOn
  <2>3. Asking(q)'
    <3>1. 0 \in 0..Lag
      BY Constants
    <3> QED
      BY <1>1, <1>10, <2>1, <2>2, <3>1 DEF Asking
  <2>4. slot'[k].client = c
    BY <1>7 DEF SlotsInv
  <2> QED
    BY <1>7, <2>1, <2>3, <2>4 DEF HasSlot
<1>11. \A q \in asked' : (Asking(q) /\ HasSlot(q))'
  BY <1>1, <1>9, <1>10
<1> QED
  BY <1>6, <1>8, <1>11 DEF SlotsInv

LEMMA TimeoutKeeps ==
    ASSUME SlotsInv, NEW i \in 0..(Slots - 1), SlotTimeout(i)
    PROVE  SlotsInv'
<1>1. slot' = [slot EXCEPT ![slot[i].id % Slots] = Free] /\ nextId' = nextId /\ asked' = asked
  BY DEF SlotTimeout
<1>2. slot' \in [0..(Slots - 1) -> {Free} \cup [id : 0..(IdMod - 1), client : Clients]]
  BY <1>1 DEF SlotsInv
<1>3. ASSUME NEW q \in asked PROVE (Asking(q) /\ HasSlot(q))'
  <2>1. Asking(q) /\ HasSlot(q)
    BY <1>3 DEF SlotsInv
  <2>2. q.id \in Nat
    BY <2>1, Constants DEF Asking
  <2>3. q.id % Slots \in 0..(Slots - 1)
    BY <2>2, Constants, ModRange
  <2>4. slot'[q.id % Slots] = Free \/ slot'[q.id % Slots] = slot[q.id % Slots]
    BY <1>1, <2>3 DEF SlotsInv
  <2>5. HasSlot(q)'
    BY <2>1, <2>2, <2>4 DEF HasSlot, Free
  <2> QED
    BY <1>1, <2>1, <2>5 DEF Asking
<1> QED
  BY <1>1, <1>2, <1>3 DEF SlotsInv

LEMMA QueryTakesSlot ==
    ASSUME SlotsInv, NEW c \in Clients, ReflectLegacyQuery(c)
    PROVE  /\ SlotsInv'
           /\ \A i \in DOMAIN slot : slot[i] # Free => slot'[i] = slot[i]
<1>1. CASE AllocateSlot = -1
  <2>1. nextId' = (nextId + Slots) % IdMod /\ asked' = Later(Slots) /\ slot' = slot
    BY <1>1 DEF ReflectLegacyQuery
  <2> QED
    BY <2>1, NoSlotKeeps
<1>2. CASE AllocateSlot # -1
  <2>1. PICK n \in 0..(Slots - 1) : /\ AllocateSlot = (nextId + n) % IdMod
                                    /\ slot[AllocateSlot % Slots] = Free
    BY <1>2, Allocated DEF SlotsInv
  <2>2. /\ nextId' = (AllocateSlot + 1) % IdMod
        /\ slot' = [slot EXCEPT ![AllocateSlot % Slots] = [id |-> AllocateSlot, client |-> c]]
        /\ asked' = Later((AllocateSlot + 1 - nextId) % IdMod)
                      \cup {[id |-> AllocateSlot, client |-> c, lag |-> 0]}
    BY <1>2 DEF ReflectLegacyQuery
  <2>3. SlotsInv'
    <3> DEFINE id == AllocateSlot
    <3>1. id = (nextId + n) % IdMod
      BY <2>1
    <3> HIDE DEF id
    <3>2. /\ nextId' = (id + 1) % IdMod
          /\ slot' = [slot EXCEPT ![id % Slots] = [id |-> id, client |-> c]]
          /\ asked' = Later((id + 1 - nextId) % IdMod) \cup {[id |-> id, client |-> c, lag |-> 0]}
      BY <2>2 DEF id
    <3> QED
      BY <3>1, <3>2, SlotKeeps
  <2>4. \A i \in DOMAIN slot : slot[i] # Free => slot'[i] = slot[i]
    BY <2>1, <2>2 DEF SlotsInv
  <2> QED
    BY <2>3, <2>4
<1> QED
  BY <1>1, <1>2

LEMMA SlotsStep ==
    ASSUME SlotsInv, [ReflNext]_reflVars
    PROVE  SlotsInv'
<1>1. CASE UNCHANGED <<nextId, slot, asked>>
  BY <1>1 DEF SlotsInv, Asking, HasSlot
<1>2. ASSUME NEW c \in Clients, ReflectLegacyQuery(c) PROVE SlotsInv'
  BY <1>2, QueryTakesSlot
<1>3. ASSUME NEW i \in 0..(Slots - 1), SlotTimeout(i) PROVE SlotsInv'
  BY <1>3, TimeoutKeeps
<1>4. ASSUME NEW q \in asked, LegacyAnswer(q) PROVE SlotsInv'
  BY <1>1, <1>4 DEF LegacyAnswer
<1>5. ASSUME NEW l \in Links, Say(l) \/ Reflect(l) PROVE SlotsInv'
  BY <1>1, <1>5 DEF Say, Reflect
<1> QED
  BY <1>1, <1>2, <1>3, <1>4, <1>5 DEF ReflNext, reflVars

LEMMA SlotsInit == ReflInit => SlotsInv
  BY DEF ReflInit, SlotsInv

(* An answer that finds a slot finds the one of the client that asked. *)
LEMMA HomeStep ==
    ASSUME SlotsInv, AnswersGoHome, [ReflNext]_reflVars
    PROVE  AnswersGoHome'
<1>1. ASSUME NEW q \in asked, LegacyAnswer(q) PROVE AnswersGoHome'
  <2>1. HasSlot(q) /\ q.id \in 0..(IdMod - 1)
    BY <1>1 DEF SlotsInv, Asking
  <2>2. slot[q.id % Slots].id = q.id /\ FindSlot(q.id) = slot[q.id % Slots]
    BY <1>1 DEF LegacyAnswer, FindSlot
  <2>3. FindSlot(q.id).client = q.client
    BY <2>1, <2>2 DEF HasSlot
  <2> QED
    BY <1>1, <2>3 DEF LegacyAnswer, AnswersGoHome
<1>2. CASE UNCHANGED answered
  BY <1>2 DEF AnswersGoHome
<1> QED
  BY <1>1, <1>2 DEF ReflNext, reflVars, ReflectLegacyQuery, SlotTimeout, Say, Reflect

(* The answers to unicast queries go to the client that asked (server.c,
   dispatch_legacy_unicast_packet), although ids and slots are used again and ids
   wrap around, as long as no answer is Lag ids late.                            *)
THEOREM ReflectedAnswers == ReflSpec => []AnswersGoHome
<1>1. ReflInit => SlotsInv /\ AnswersGoHome
  BY SlotsInit DEF ReflInit, AnswersGoHome, NoAnswer
<1>2. SlotsInv /\ AnswersGoHome /\ [ReflNext]_reflVars => (SlotsInv /\ AnswersGoHome)'
  BY SlotsStep, HomeStep
<1> QED
  BY <1>1, <1>2, PTL DEF ReflSpec

(* A slot in use is not taken over (server.c, allocate_slot). *)
THEOREM SlotsNotTaken == ReflSpec => NoneTakenOver
<1>1. SlotsInv /\ [ReflNext]_reflVars
        => [\A i \in DOMAIN slot : slot[i] # Free => slot'[i] \in {slot[i], Free}]_reflVars
  <2> SUFFICES ASSUME SlotsInv, [ReflNext]_reflVars, NEW i \in DOMAIN slot, slot[i] # Free
               PROVE  slot'[i] \in {slot[i], Free} \/ UNCHANGED reflVars
    OBVIOUS
  <2>1. ASSUME NEW c \in Clients, ReflectLegacyQuery(c) PROVE slot'[i] = slot[i]
    BY <2>1, QueryTakesSlot
  <2>2. ASSUME NEW k \in 0..(Slots - 1), SlotTimeout(k) PROVE slot'[i] \in {slot[i], Free}
    BY <2>2 DEF SlotTimeout, SlotsInv
  <2>3. CASE UNCHANGED slot
    BY <2>3
  <2> QED
    BY <2>1, <2>2, <2>3 DEF ReflNext, LegacyAnswer, Say, Reflect
<1>2. SlotsInv /\ [ReflNext]_reflVars => SlotsInv'
  BY SlotsStep
<1> QED
  BY <1>1, <1>2, SlotsInit, PTL DEF ReflSpec, NoneTakenOver

-----------------------------------------------------------------------------
(* A message that is ours came from another link. *)
LEMMA HeardStep ==
    ASSUME HeardInv, [ReflNext]_reflVars
    PROVE  HeardInv'
<1>1. CASE UNCHANGED heard
  BY <1>1 DEF HeardInv
<1>2. ASSUME NEW l \in Links, Say(l) PROVE HeardInv'
  BY <1>2 DEF Say, HeardInv
<1>3. ASSUME NEW l \in Links, Reflect(l) PROVE HeardInv'
  <2>1. CASE heard[l].ours
    <3>1. heard' = [heard EXCEPT ![l] = Silence]
      BY <1>3, <2>1 DEF Reflect
    <3> QED
      BY <3>1 DEF HeardInv, Silence
  <2>2. CASE ~heard[l].ours
    <3>1. heard' = Repeat(l) /\ heard[l].from = l
      BY <1>3, <2>2 DEF Reflect, HeardInv
    <3> QED
      BY <3>1 DEF HeardInv, Silence, Repeat
  <2> QED
    BY <2>1, <2>2
<1> QED
  BY <1>1, <1>2, <1>3 DEF ReflNext, reflVars, ReflectLegacyQuery, SlotTimeout, LegacyAnswer

(* No message comes back to the link where it was said (server.c, dispatch_packet
   and the reflect functions).                                                    *)
THEOREM NothingComesBack == ReflSpec => []NoEcho
<1>1. ReflInit => HeardInv
  BY DEF ReflInit, HeardInv, Silence
<1>2. HeardInv /\ [ReflNext]_reflVars => HeardInv'
  BY HeardStep
<1>3. HeardInv => NoEcho
  BY DEF HeardInv, NoEcho, Silence
<1> QED
  BY <1>1, <1>2, <1>3, PTL DEF ReflSpec

(* What is reflected goes where it belongs, for any links, clients and widths of ids
   (server.c, dispatch_packet and dispatch_legacy_unicast_packet).                  *)
THEOREM ReflectorCorrect == ReflSpec => []ReflectorSafe
BY ReflectedAnswers, NothingComesBack, PTL DEF ReflectorSafe

-----------------------------------------------------------------------------
(***************************************************************************)
(* Responding                                                              *)
(***************************************************************************)
Asker == Queriers \cup {Nobody}
Job == [st : {"none", "scheduled"}, bye : BOOLEAN, flush : BOOLEAN, querier : Asker]
Hist == [st : {"none", "done"}, bye : BOOLEAN, flush : BOOLEAN, low : BOOLEAN, age : Nat]
Schedule == [job : [Zone -> Job], hist : [Zone -> Hist], supp : [Queriers -> [Zone -> Int]]]
Waits(j) == j.st = "scheduled"

(***************************************************************************)
(* A record with its job j, its history h, whether it is ours, and the     *)
(* last that was said of it. What waits is not in the history: all that    *)
(* schedules a response takes it out, and all that is heard while one      *)
(* waits leaves the history alone or ends the wait. So the goodbye of a    *)
(* record that was sent live cannot be taken for one sent before.          *)
(***************************************************************************)
RecordInv(j, h, our, said) ==
    /\ Waits(j) => h.st = "none" /\ (our \/ j.bye)
    /\ h.st = "done" /\ h.bye => said = "bye"
    /\ ~our /\ said = "live" => Waits(j) /\ j.bye

\* Whom q's answer waits for: nobody in particular, or q.
OwedInv(q, j) == Waits(j) /\ ~j.bye /\ j.querier \in {Nobody, q}

RespInv ==
    /\ ours \subseteq Zone /\ owed \subseteq Queriers \X Zone
    /\ sched \in Schedule /\ last \in [Zone -> {"nothing", "live", "bye"}]
    /\ \A r \in Zone : RecordInv(sched.job[r], sched.hist[r], r \in ours, last[r])
    /\ \A q \in Queriers, r \in Zone : <<q, r>> \in owed => r \in ours /\ OwedInv(q, sched.job[r])

LEMMA NoTypes ==
    /\ NoJob \in Job /\ ~Waits(NoJob)
    /\ NoHist \in Hist /\ NoHist.st = "none"
    /\ Fresh \in Schedule
<1>1. NoJob \in Job /\ ~Waits(NoJob)
  BY DEF NoJob, Job, Waits, Asker
<1>2. NoHist \in Hist /\ NoHist.st = "none"
  BY DEF NoHist, Hist
<1> QED
  BY <1>1, <1>2 DEF Fresh, Schedule

LEMMA UniqueType == \A r \in Zone : Unique(r) \in BOOLEAN
  BY DEF Unique

\* What is posted is scheduled, and all else stays as it is.
LEMMA PostFacts ==
    ASSUME NEW t \in Schedule, NEW A, A \subseteq Zone, NEW bye \in BOOLEAN, NEW q \in Asker,
           NEW u, u = Post(t, A, bye, q)
    PROVE  /\ u \in Schedule /\ u.supp = t.supp
           /\ \A r \in Zone :
                 /\ r \in A /\ Posts(t, r, bye, Unique(r), q) =>
                      /\ Waits(u.job[r]) /\ u.job[r].bye = bye /\ u.hist[r].st = "none"
                      /\ u.job[r].querier \in {q, Nobody}
                      /\ Waits(t.job[r]) => u.job[r].querier \in {t.job[r].querier, Nobody}
                 /\ ~(r \in A /\ Posts(t, r, bye, Unique(r), q)) =>
                      u.job[r] = t.job[r] /\ u.hist[r] = t.hist[r]
<1> DEFINE new == {r \in A : Posts(t, r, bye, Unique(r), q)}
<1>1. /\ u.job = [r \in Zone |-> IF r \in new THEN Scheduled(t.job[r], bye, Unique(r), q) ELSE t.job[r]]
      /\ u.hist = [r \in Zone |-> IF r \in new THEN NoHist ELSE t.hist[r]]
      /\ u.supp = t.supp
      /\ u = [job |-> u.job, hist |-> u.hist, supp |-> u.supp]
  BY DEF Post
<1>2. ASSUME NEW r \in Zone
      PROVE  LET j == Scheduled(t.job[r], bye, Unique(r), q)
             IN  /\ j \in Job /\ Waits(j) /\ j.bye = bye /\ j.querier \in {q, Nobody}
                 /\ Waits(t.job[r]) => j.querier \in {t.job[r].querier, Nobody}
  <2>1. t.job[r] \in Job /\ Unique(r) \in BOOLEAN
    BY UniqueType DEF Schedule
  <2> QED
    BY <2>1 DEF Job, Asker, Scheduled, Waits
<1> HIDE DEF new
<1>3. u \in Schedule
  BY <1>1, <1>2, NoTypes DEF Schedule
<1>4. \A r \in Zone : /\ r \in new => u.job[r] = Scheduled(t.job[r], bye, Unique(r), q) /\ u.hist[r] = NoHist
                      /\ r \notin new => u.job[r] = t.job[r] /\ u.hist[r] = t.hist[r]
  BY <1>1
<1> QED
  BY <1>1, <1>2, <1>3, <1>4, NoTypes DEF new

\* What of that is enough where only the schedule's shape matters.
LEMMA PostTyped ==
    ASSUME NEW t \in Schedule, NEW A, A \subseteq Zone, NEW bye \in BOOLEAN, NEW q \in Asker,
           NEW u, u = Post(t, A, bye, q)
    PROVE  u \in Schedule
  BY PostFacts

LEMMA MarkFacts ==
    ASSUME NEW t \in Schedule, NEW r \in Zone, NEW u, u = MarkDone(t, r)
    PROVE  /\ u \in Schedule /\ u.supp = t.supp
           /\ u.job[r] = NoJob /\ u.hist[r].st = "done" /\ u.hist[r].bye = t.job[r].bye
           /\ \A x \in Zone : x # r => u.job[x] = t.job[x] /\ u.hist[x] = t.hist[x]
<1> DEFINE j == t.job[r]
           h == [st |-> "done", bye |-> j.bye, flush |-> j.flush, low |-> FALSE, age |-> 0]
<1>1. u = [job |-> [t.job EXCEPT ![r] = NoJob], hist |-> [t.hist EXCEPT ![r] = h], supp |-> t.supp]
  BY DEF MarkDone, Schedule
<1>2. h \in Hist
  BY DEF Hist, Job, Schedule
<1> HIDE DEF h
<1>3. u \in Schedule /\ u.job[r] = NoJob /\ u.hist[r] = h /\ u.supp = t.supp
  BY <1>1, <1>2, NoTypes DEF Schedule
<1>4. \A x \in Zone : x # r => u.job[x] = t.job[x] /\ u.hist[x] = t.hist[x]
  BY <1>1 DEF Schedule
<1> QED
  BY <1>3, <1>4 DEF h

LEMMA SuppressFacts ==
    ASSUME NEW t \in Schedule, NEW K, K \subseteq Zone, NEW q \in Queriers, NEW u, u = Suppress(t, K, q)
    PROVE  /\ u \in Schedule /\ u.hist = t.hist
           /\ \A r \in Zone : \/ u.job[r] = t.job[r]
                              \/ r \in K /\ ~Waits(u.job[r]) /\ t.job[r].querier = q /\ ~t.job[r].bye
<1> DEFINE dropped == {r \in K : t.job[r].st = "scheduled" /\ t.job[r].querier = q /\ ~t.job[r].bye}
           supp == [t.supp EXCEPT ![q] = [r \in Zone |-> IF r \in K THEN 0 ELSE @[r]]]
<1>1. u = [job |-> [r \in Zone |-> IF r \in dropped THEN NoJob ELSE t.job[r]], hist |-> t.hist, supp |-> supp]
  BY DEF Suppress
<1>2. supp \in [Queriers -> [Zone -> Int]]
  BY DEF Schedule
<1> HIDE DEF supp
<1>3. u \in Schedule /\ u.hist = t.hist
  BY <1>1, <1>2, NoTypes DEF Schedule
<1>4. \A r \in Zone : u.job[r] = IF r \in dropped THEN NoJob ELSE t.job[r]
  BY <1>1
<1> QED
  BY <1>3, <1>4, NoTypes

\* Posting what is ours, live, or the goodbye of what is not.
LEMMA PostKeeps ==
    ASSUME NEW t \in Schedule, NEW A, A \subseteq Zone, NEW bye \in BOOLEAN, NEW q \in Asker,
           NEW u, u = Post(t, A, bye, q), NEW O, NEW r \in Zone, NEW said,
           RecordInv(t.job[r], t.hist[r], r \in O, said), r \in A /\ r \notin O => bye
    PROVE  RecordInv(u.job[r], u.hist[r], r \in O, said)
<1>1. CASE r \in A /\ Posts(t, r, bye, Unique(r), q)
  <2>1. Waits(u.job[r]) /\ u.job[r].bye = bye /\ u.hist[r].st = "none"
    BY <1>1, PostFacts
  <2> QED
    BY <2>1, <1>1 DEF RecordInv
<1>2. CASE ~(r \in A /\ Posts(t, r, bye, Unique(r), q))
  <2>1. u.job[r] = t.job[r] /\ u.hist[r] = t.hist[r]
    BY <1>2, PostFacts
  <2> QED
    BY <2>1
<1> QED
  BY <1>1, <1>2

\* ... and what is owed stays owed.
LEMMA PostOwes ==
    ASSUME NEW t \in Schedule, NEW A, A \subseteq Zone, NEW q \in Asker, NEW bye \in BOOLEAN, ~bye,
           NEW u, u = Post(t, A, bye, q), NEW r \in Zone, NEW o, OwedInv(o, t.job[r])
    PROVE  OwedInv(o, u.job[r])
<1>1. CASE r \in A /\ Posts(t, r, bye, Unique(r), q)
  <2>1. Waits(u.job[r]) /\ u.job[r].bye = bye /\ (Waits(t.job[r]) => u.job[r].querier \in {t.job[r].querier, Nobody})
    BY <1>1, PostFacts
  <2> QED
    BY <2>1, <1>1 DEF OwedInv
<1>2. CASE ~(r \in A /\ Posts(t, r, bye, Unique(r), q))
  BY <1>2, PostFacts
<1> QED
  BY <1>1, <1>2

\* What is posted live, and what as a goodbye.
LEMMA PostLive ==
    ASSUME NEW t, NEW A, NEW q
    PROVE  \E bye \in BOOLEAN : ~bye /\ Post(t, A, FALSE, q) = Post(t, A, bye, q)
  OBVIOUS

LEMMA PostGone ==
    ASSUME NEW t, NEW A, NEW q
    PROVE  \E bye \in BOOLEAN : bye /\ Post(t, A, TRUE, q) = Post(t, A, bye, q)
  OBVIOUS

LEMMA RespSafeFrom == RespInv => RespSafe
<1> SUFFICES ASSUME RespInv PROVE RespSafe
  OBVIOUS
<1>1. RespTypeOK
  BY DEF RespInv, RespTypeOK, RecordInv, Waits, InHistory
<1>2. NobodyForgotten
  BY DEF RespInv, NobodyForgotten, OwedInv, Waits
<1>3. GoodbyeLast
  BY DEF RespInv, GoodbyeLast, RecordInv, Waits
<1> QED
  BY <1>1, <1>2, <1>3 DEF RespSafe

LEMMA InitResp == RespInit => RespInv
  BY NoTypes DEF RespInit, RespInv, RecordInv, Fresh, NoJob, NoHist, Waits

\* A record that is said, and what is owed to whom asked for it.
LEMMA SendResponseStep ==
    ASSUME RespInv, NEW r \in Zone, SendResponse(r)
    PROVE  RespInv'
<1>0. PICK j, A, q : j = sched.job[r] /\ A = AuxOf[r] \cap ours /\ q = j.querier
  OBVIOUS
<1>1. /\ Waits(j) /\ ours' = ours
      /\ last' = [last EXCEPT ![r] = IF j.bye THEN "bye" ELSE "live"]
      /\ owed' = IF j.bye THEN owed ELSE Settled(r)
  BY <1>0 DEF SendResponse, Waits
<1>2. sched \in Schedule /\ q \in Asker /\ j.bye \in BOOLEAN /\ A \subseteq Zone /\ A \subseteq ours
  BY <1>0 DEF RespInv, Schedule, Job
<1>3. PICK bye \in BOOLEAN : ~bye /\ Post(sched, A, FALSE, q) = Post(sched, A, bye, q)
  BY PostLive
<1>4. PICK t : t = Post(sched, A, bye, q) /\ sched' = MarkDone(t, r)
  BY <1>0, <1>3 DEF SendResponse, Sent
<1>5. t \in Schedule
  BY <1>2, <1>4, PostTyped
<1>6. \A x \in Zone : RecordInv(t.job[x], t.hist[x], x \in ours, last[x])
  <2>1. SUFFICES ASSUME NEW x \in Zone PROVE RecordInv(t.job[x], t.hist[x], x \in ours, last[x])
    OBVIOUS
  <2>2. RecordInv(sched.job[x], sched.hist[x], x \in ours, last[x])
    BY DEF RespInv
  <2> QED
    BY <2>2, <1>2, <1>4, PostKeeps
<1>7. \A o \in Queriers, x \in Zone : <<o, x>> \in owed => x \in ours /\ OwedInv(o, t.job[x])
  <2>1. SUFFICES ASSUME NEW o \in Queriers, NEW x \in Zone, <<o, x>> \in owed
                 PROVE  x \in ours /\ OwedInv(o, t.job[x])
    OBVIOUS
  <2>2. x \in ours /\ OwedInv(o, sched.job[x])
    BY <2>1 DEF RespInv
  <2> QED
    BY <2>2, <1>2, <1>3, <1>4, PostOwes
\* The record itself is what was going to be sent: live or a goodbye.
<1>8. t.job[r].bye => j.bye
  BY <1>0, <1>2, <1>3, <1>4, PostFacts
<1>9. /\ sched' \in Schedule /\ sched'.job[r] = NoJob
      /\ sched'.hist[r].st = "done" /\ sched'.hist[r].bye = t.job[r].bye
      /\ \A x \in Zone : x # r => sched'.job[x] = t.job[x] /\ sched'.hist[x] = t.hist[x]
  BY <1>4, <1>5, MarkFacts
<1>10. \A x \in Zone : RecordInv(sched'.job[x], sched'.hist[x], x \in ours', last'[x])
  <2>1. RecordInv(sched'.job[r], sched'.hist[r], r \in ours', last'[r])
    <3>1. RecordInv(j, sched.hist[r], r \in ours, last[r]) /\ last'[r] = IF j.bye THEN "bye" ELSE "live"
      BY <1>0, <1>1 DEF RespInv
    <3> QED
      BY <3>1, <1>1, <1>8, <1>9, NoTypes DEF RecordInv
  <2>2. \A x \in Zone : x # r => RecordInv(sched'.job[x], sched'.hist[x], x \in ours', last'[x])
    BY <1>1, <1>6, <1>9 DEF RespInv
  <2> QED
    BY <2>1, <2>2
<1>11. \A o \in Queriers, x \in Zone : <<o, x>> \in owed' => x # r /\ <<o, x>> \in owed
  BY <1>0, <1>1 DEF Settled, RespInv, OwedInv
<1>12. \A o \in Queriers, x \in Zone : <<o, x>> \in owed' => x \in ours' /\ OwedInv(o, sched'.job[x])
  BY <1>1, <1>7, <1>9, <1>11
<1>13. owed' \subseteq Queriers \X Zone /\ last' \in [Zone -> {"nothing", "live", "bye"}]
  BY <1>1 DEF RespInv, Settled
<1> QED
  BY <1>1, <1>2, <1>9, <1>10, <1>12, <1>13 DEF RespInv

LEMMA QueryStep ==
    ASSUME RespInv, NEW q \in Queriers, NEW A, A \subseteq Zone, NEW K, K \subseteq Zone,
           NEW kind \in {"multicast", "unicast", "legacy"}, QueryPacket(q, A, K, kind)
    PROVE  RespInv'
<1>1. PICK answers : answers = (A \cap ours) \ K
  OBVIOUS
<1>2. PICK t : t = Suppress(sched, K, q)
  OBVIOUS
<1>3. PICK bye \in BOOLEAN : ~bye /\ Post(t, answers, FALSE, q) = Post(t, answers, bye, q)
  BY PostLive
<1>4. PICK u : u = Post(t, answers, bye, q)
  OBVIOUS
<1>5. /\ ours' = ours /\ last' = last /\ sched \in Schedule /\ answers \subseteq Zone
      /\ answers \subseteq ours /\ q \in Asker /\ q # Nobody
  BY <1>1, RespondingAssumption DEF QueryPacket, RespInv, Asker
<1>6. /\ t \in Schedule /\ t.hist = sched.hist
      /\ \A r \in Zone : \/ t.job[r] = sched.job[r]
                         \/ r \in K /\ ~Waits(t.job[r]) /\ sched.job[r].querier = q /\ ~sched.job[r].bye
  BY <1>2, <1>5, SuppressFacts
<1>7. \A x \in Zone : RecordInv(t.job[x], t.hist[x], x \in ours, last[x])
  BY <1>6 DEF RespInv, RecordInv
<1>8. \A o \in Queriers, x \in Zone :
          <<o, x>> \in owed /\ ~(o = q /\ x \in K) => x \in ours /\ OwedInv(o, t.job[x])
  BY <1>5, <1>6 DEF RespInv, OwedInv
<1> DEFINE goes == {x \in answers : Posts(t, x, bye, Unique(x), q)}
<1>9. /\ kind = "legacy" => sched' = sched /\ K = {}
      /\ kind # "legacy" => sched' = u
      /\ \A o \in Queriers, x \in Zone : <<o, x>> \in owed' =>
            \/ <<o, x>> \in owed /\ ~(o = q /\ x \in K)
            \/ kind # "legacy" /\ o = q /\ x \in goes
      /\ owed' \subseteq Queriers \X Zone
  <2>1. PICK unsent : unsent = {x \in answers : ~Posts(t, x, FALSE, Unique(x), q)}
    OBVIOUS
  <2>2. PICK direct : direct = CASE kind = "legacy" -> answers [] kind = "unicast" -> unsent [] OTHER -> {}
    OBVIOUS
  <2>3. PICK known : known = {x \in unsent : Suppressed(t, x, FALSE, q) \/ InHistory(t, x, FALSE, Unique(x))}
    OBVIOUS
  <2>4. /\ kind = "legacy" => K = {}
        /\ sched' = IF kind = "legacy" THEN sched ELSE Generate(t, answers, q)
        /\ owed' = {o \in owed : o[1] # q \/ o[2] \notin K \cup direct}
                     \cup {<<q, r>> : r \in answers \ (direct \cup known)}
    BY <1>1, <1>2, <2>1, <2>2, <2>3 DEF QueryPacket
  <2>5. \A x \in answers : x \in goes \/ x \in unsent
    BY <1>3, <2>1 DEF Posts, Suppressed, InHistory
  <2>6. unsent = known
    BY <2>1, <2>3 DEF Posts
  <2>7. kind = "legacy" => direct = answers
    BY <2>2
  <2> HIDE DEF goes
  <2>8. \A o \in Queriers, x \in Zone : <<o, x>> \in owed' =>
            \/ <<o, x>> \in owed /\ ~(o = q /\ x \in K)
            \/ kind # "legacy" /\ o = q /\ x \in goes
    BY <2>4, <2>5, <2>6, <2>7
  <2>9. owed' \subseteq Queriers \X Zone
    BY <1>5, <2>4 DEF RespInv
  <2> QED
    BY <1>3, <1>4, <2>4, <2>8, <2>9 DEF Generate
<1>10. CASE kind = "legacy"
  BY <1>5, <1>9, <1>10 DEF RespInv
<1>11. CASE kind # "legacy"
  <2>0. t \in Schedule /\ answers \subseteq Zone /\ q \in Asker
    BY <1>5, <1>6
  <2>1. u \in Schedule
    BY <2>0, <1>4, PostTyped
  <2>2. \A x \in Zone : RecordInv(u.job[x], u.hist[x], x \in ours, last[x])
    BY <1>4, <1>5, <1>6, <1>7, PostKeeps
  <2>3. \A o \in Queriers, x \in Zone : <<o, x>> \in owed /\ ~(o = q /\ x \in K) => OwedInv(o, u.job[x])
    BY <1>3, <1>4, <1>5, <1>6, <1>8, PostOwes
  \* What q asked for and is scheduled waits for q, or for anybody.
  <2>4. \A x \in goes : x \in ours /\ OwedInv(q, u.job[x])
    <3>1. SUFFICES ASSUME NEW x \in Zone, x \in answers, Posts(t, x, bye, Unique(x), q)
                   PROVE  x \in ours /\ OwedInv(q, u.job[x])
      BY <1>5
    <3>2. Waits(u.job[x]) /\ u.job[x].bye = bye /\ u.job[x].querier \in {q, Nobody}
      BY <3>1, <1>4, <1>5, <1>6, PostFacts
    <3> QED
      BY <3>1, <3>2, <1>3, <1>5 DEF OwedInv
  <2> HIDE DEF goes
  <2>5. \A o \in Queriers, x \in Zone : <<o, x>> \in owed' => x \in ours /\ OwedInv(o, u.job[x])
    BY <1>8, <1>9, <2>3, <2>4
  <2> QED
    BY <1>5, <1>9, <1>11, <2>1, <2>2, <2>5 DEF RespInv
<1> QED
  BY <1>10, <1>11

LEMMA IncomingStep ==
    ASSUME RespInv, NEW r \in Zone, NEW bye \in BOOLEAN, NEW low \in BOOLEAN,
           NEW flush \in BOOLEAN, Incoming(r, bye, flush, low)
    PROVE  RespInv'
<1>0. PICK j, h : /\ j = sched.job[r]
                  /\ h = [st |-> "done", bye |-> bye, flush |-> flush, low |-> low, age |-> 0]
  OBVIOUS
<1>1. /\ ours' = ours /\ last' = IF bye THEN [last EXCEPT ![r] = "bye"] ELSE last
      /\ owed' = IF bye THEN owed ELSE Settled(r)
  BY DEF Incoming
<1>2. sched \in Schedule /\ h \in Hist /\ j \in Job
  BY <1>0 DEF RespInv, Schedule, Hist
\* Heard as it waits: it ends the wait of its own kind, else nothing; or it is noted.
<1>3. \/ Waits(j) /\ j.bye = bye /\ sched' = MarkDone(sched, r)
      \/ Waits(j) /\ sched' = sched
      \/ ~Waits(j) /\ sched' = [sched EXCEPT !.hist[r] = h]
  BY <1>0 DEF Incoming, Waits
<1>4. /\ sched' \in Schedule
      /\ \A x \in Zone : x # r => sched'.job[x] = sched.job[x] /\ sched'.hist[x] = sched.hist[x]
      /\ \/ Waits(j) /\ j.bye = bye /\ sched'.job[r] = NoJob /\ sched'.hist[r].st = "done" /\ sched'.hist[r].bye = bye
         \/ Waits(j) /\ sched'.job[r] = j /\ sched'.hist[r] = sched.hist[r]
         \/ ~Waits(j) /\ sched'.job[r] = j /\ sched'.hist[r].st = "done" /\ sched'.hist[r].bye = bye
  <2>1. CASE Waits(j) /\ j.bye = bye /\ sched' = MarkDone(sched, r)
    BY <1>0, <1>2, <2>1, MarkFacts
  <2>2. CASE Waits(j) /\ sched' = sched
    BY <1>0, <1>2, <2>2
  <2>3. CASE ~Waits(j) /\ sched' = [sched EXCEPT !.hist[r] = h]
    BY <1>0, <1>2, <2>3 DEF Schedule
  <2> QED
    BY <1>3, <2>1, <2>2, <2>3
<1>5. RecordInv(j, sched.hist[r], r \in ours, last[r]) /\ last[r] \in {"nothing", "live", "bye"}
  BY <1>0 DEF RespInv
<1>6. last' \in [Zone -> {"nothing", "live", "bye"}] /\ last'[r] = IF bye THEN "bye" ELSE last[r]
  BY <1>1 DEF RespInv
<1>7. RecordInv(sched'.job[r], sched'.hist[r], r \in ours', last'[r])
  BY <1>1, <1>4, <1>5, <1>6, NoTypes DEF RecordInv
<1>8. \A x \in Zone : RecordInv(sched'.job[x], sched'.hist[x], x \in ours', last'[x])
  <2>1. \A x \in Zone : x # r => RecordInv(sched'.job[x], sched'.hist[x], x \in ours', last'[x])
    BY <1>1, <1>4 DEF RespInv
  <2> QED
    BY <1>7, <2>1
<1>9. owed' \subseteq owed /\ \A o \in Queriers : <<o, r>> \in owed' => bye
  BY <1>1 DEF Settled
<1>10. ASSUME NEW o \in Queriers, NEW x \in Zone, <<o, x>> \in owed'
       PROVE  x \in ours' /\ OwedInv(o, sched'.job[x])
  <2>1. x \in ours /\ OwedInv(o, sched.job[x])
    BY <1>9, <1>10 DEF RespInv
  <2>2. CASE x = r
    BY <1>0, <1>1, <1>4, <1>9, <1>10, <2>1, <2>2 DEF OwedInv
  <2> QED
    BY <1>1, <1>4, <2>1, <2>2
<1> QED
  BY <1>1, <1>4, <1>6, <1>8, <1>9, <1>10 DEF RespInv

LEMMA AnnounceStep ==
    ASSUME RespInv, NEW r \in Zone, Announce(r)
    PROVE  RespInv'
<1>1. PICK bye \in BOOLEAN : ~bye /\ Post(sched, {r}, FALSE, Nobody) = Post(sched, {r}, bye, Nobody)
  BY PostLive
<1>2. PICK u, A : A = {r} /\ u = Post(sched, A, bye, Nobody)
  OBVIOUS
<1>3. /\ sched' = u /\ ours' = ours \cup {r} /\ owed' = owed /\ last' = last
      /\ r \notin ours /\ sched \in Schedule /\ Nobody \in Asker /\ A \subseteq Zone
  BY <1>1, <1>2 DEF Announce, RespInv, Asker
<1>4. u \in Schedule
  BY <1>2, <1>3, PostTyped
<1>5. \A x \in Zone : RecordInv(sched.job[x], sched.hist[x], x \in ours', last[x])
  BY <1>3 DEF RespInv, RecordInv
<1>6. ASSUME NEW x \in Zone PROVE RecordInv(u.job[x], u.hist[x], x \in ours', last[x])
  <2>1. PICK O : O = ours'
    OBVIOUS
  <2>2. RecordInv(sched.job[x], sched.hist[x], x \in O, last[x]) /\ (x \in A => x \in O)
    BY <1>2, <1>3, <1>5, <2>1
  <2> QED
    BY <1>2, <1>3, <2>1, <2>2, PostKeeps
<1>7. ASSUME NEW o \in Queriers, NEW x \in Zone, <<o, x>> \in owed
      PROVE  x \in ours' /\ OwedInv(o, u.job[x])
  <2>1. x \in ours /\ OwedInv(o, sched.job[x])
    BY <1>7 DEF RespInv
  <2> QED
    BY <2>1, <1>1, <1>2, <1>3, PostOwes
<1> QED
  BY <1>3, <1>4, <1>6, <1>7 DEF RespInv

LEMMA GoodbyeStep ==
    ASSUME RespInv, NEW r \in Zone, Goodbye(r)
    PROVE  RespInv'
<1>1. PICK bye \in BOOLEAN : bye /\ Post(sched, {r}, TRUE, Nobody) = Post(sched, {r}, bye, Nobody)
  BY PostGone
<1>2. PICK u, A : A = {r} /\ u = Post(sched, A, bye, Nobody)
  OBVIOUS
<1>3. /\ sched' = u /\ ours' = ours \ {r} /\ owed' = Settled(r) /\ last' = last
      /\ sched \in Schedule /\ Nobody \in Asker /\ A \subseteq Zone
  BY <1>1, <1>2 DEF Goodbye, RespInv, Asker
<1>4. u \in Schedule
  BY <1>2, <1>3, PostTyped
<1>5. ASSUME NEW x \in Zone, x # r
      PROVE  u.job[x] = sched.job[x] /\ u.hist[x] = sched.hist[x] /\ (x \in ours' <=> x \in ours)
  BY <1>2, <1>3, <1>5, PostFacts
\* A goodbye that is not posted was said before.
<1>6. RecordInv(u.job[r], u.hist[r], r \in ours', last[r])
  <2>0. PICK un \in BOOLEAN : un = Unique(r)
    BY UniqueType
  <2>1. RecordInv(sched.job[r], sched.hist[r], r \in ours, last[r])
    BY DEF RespInv
  <2>2. CASE Posts(sched, r, bye, Unique(r), Nobody)
    <3>1. Waits(u.job[r]) /\ u.job[r].bye = bye /\ u.hist[r].st = "none"
      BY <1>2, <1>3, <2>2, PostFacts
    <3> QED
      BY <1>1, <3>1 DEF RecordInv
  <2>3. CASE ~Posts(sched, r, bye, Unique(r), Nobody)
    <3>1. u.job[r] = sched.job[r] /\ u.hist[r] = sched.hist[r]
      BY <1>2, <1>3, <2>3, PostFacts
    <3>2. sched.hist[r].st = "done" /\ sched.hist[r].bye = bye
      BY <2>3 DEF Posts, Suppressed, InHistory
    <3> QED
      BY <1>1, <2>1, <3>1, <3>2 DEF RecordInv
  <2> QED
    BY <2>2, <2>3
<1>7. \A x \in Zone : RecordInv(u.job[x], u.hist[x], x \in ours', last[x])
  <2>1. \A x \in Zone : x # r => RecordInv(u.job[x], u.hist[x], x \in ours', last[x])
    BY <1>3, <1>5 DEF RespInv
  <2> QED
    BY <1>6, <2>1
<1>8. ASSUME NEW o \in Queriers, NEW x \in Zone, <<o, x>> \in owed'
      PROVE  x \in ours' /\ OwedInv(o, u.job[x])
  <2>1. x # r /\ <<o, x>> \in owed
    BY <1>3, <1>8 DEF Settled
  <2> QED
    BY <1>5, <2>1 DEF RespInv
<1>9. owed' \subseteq owed
  BY <1>3 DEF Settled
<1> QED
  BY <1>3, <1>4, <1>7, <1>8, <1>9 DEF RespInv

LEMMA LinkDownStep ==
    ASSUME RespInv, LinkDown
    PROVE  RespInv'
<1>1. /\ ours' = ours /\ sched' = Fresh /\ owed' = {}
      /\ \A x \in Zone : last'[x] = IF sched.job[x].st = "none" THEN last[x] ELSE IF sched.job[x].bye THEN "bye" ELSE "live"
      /\ last' \in [Zone -> {"nothing", "live", "bye"}]
  BY DEF LinkDown, RespInv
<1>2. \A x \in Zone : sched.job[x].st = "none" \/ Waits(sched.job[x])
  BY DEF RespInv, Schedule, Job, Waits
<1>3. \A x \in Zone : sched'.job[x] = NoJob /\ sched'.hist[x] = NoHist
  BY <1>1 DEF Fresh
<1>4. \A x \in Zone : RecordInv(sched'.job[x], sched'.hist[x], x \in ours', last'[x])
  <2>1. SUFFICES ASSUME NEW x \in Zone PROVE RecordInv(sched'.job[x], sched'.hist[x], x \in ours', last'[x])
    OBVIOUS
  <2>2. RecordInv(sched.job[x], sched.hist[x], x \in ours, last[x])
    BY DEF RespInv
  <2>3. ~(x \notin ours /\ last'[x] = "live")
    BY <1>1, <1>2, <2>2 DEF RecordInv, Waits
  <2> QED
    BY <1>1, <1>3, <2>3, NoTypes DEF RecordInv
<1> QED
  BY <1>1, <1>4, NoTypes DEF RespInv

LEMMA TimeStep ==
    ASSUME RespInv, TimePasses
    PROVE  RespInv'
<1>1. sched \in Schedule /\ ours' = ours /\ owed' = owed /\ last' = last
  BY DEF RespInv, TimePasses
<1> DEFINE Hists == [r \in Zone |-> IF sched.hist[r].st = "none" \/ sched.hist[r].age = HistoryTicks
                                    THEN NoHist ELSE [sched.hist[r] EXCEPT !.age = @ + 1]]
           Supps == [q \in Queriers |-> [r \in Zone |-> IF sched.supp[q][r] \in {-1, SuppressTicks}
                                                        THEN -1 ELSE sched.supp[q][r] + 1]]
<1>2. sched' = [job |-> sched.job, hist |-> Hists, supp |-> Supps]
  BY DEF TimePasses
<1>3. Hists \in [Zone -> Hist] /\ Supps \in [Queriers -> [Zone -> Int]]
  <2>1. \A r \in Zone : sched.hist[r] \in Hist
    BY <1>1 DEF Schedule
  <2>2. \A r \in Zone : [sched.hist[r] EXCEPT !.age = @ + 1] \in Hist
    BY <2>1 DEF Hist
  <2>3. \A q \in Queriers, r \in Zone : sched.supp[q][r] \in Int
    BY <1>1 DEF Schedule
  <2> QED
    BY <2>2, <2>3, NoTypes
<1>4. \A r \in Zone : Hists[r].st = "none" \/ (Hists[r].st = sched.hist[r].st /\ Hists[r].bye = sched.hist[r].bye)
  BY <1>1, NoTypes DEF Schedule, Hist
<1> HIDE DEF Hists, Supps
<1>5. sched' \in Schedule /\ sched'.job = sched.job /\ sched'.hist = Hists
  BY <1>1, <1>2, <1>3 DEF Schedule
<1>6. \A x \in Zone : RecordInv(sched'.job[x], sched'.hist[x], x \in ours', last'[x])
  <2>1. SUFFICES ASSUME NEW x \in Zone PROVE RecordInv(sched'.job[x], sched'.hist[x], x \in ours', last'[x])
    OBVIOUS
  <2>2. RecordInv(sched.job[x], sched.hist[x], x \in ours, last[x])
    BY DEF RespInv
  <2>3. sched.hist[x].st \in {"none", "done"}
    BY <1>1 DEF Schedule, Hist
  <2> QED
    BY <1>1, <1>4, <1>5, <2>2, <2>3 DEF RecordInv
<1> QED
  BY <1>1, <1>5, <1>6 DEF RespInv

LEMMA RespStep ==
    ASSUME RespInv, [RespNext]_respVars
    PROVE  RespInv'
<1>1. CASE UNCHANGED respVars
  BY <1>1 DEF respVars, RespInv
<1>2. ASSUME NEW r \in Zone, SendResponse(r) \/ Announce(r) \/ Goodbye(r) PROVE RespInv'
  BY <1>2, SendResponseStep, AnnounceStep, GoodbyeStep
<1>3. ASSUME NEW r \in Zone, NEW bye \in BOOLEAN, NEW low \in BOOLEAN, Incoming(r, bye, Unique(r), low)
      PROVE  RespInv'
  <2>1. PICK flush \in BOOLEAN : flush = Unique(r)
    BY UniqueType
  <2>2. Incoming(r, bye, flush, low)
    BY <1>3, <2>1
  <2> QED
    BY <2>2, IncomingStep
<1>4. ASSUME NEW q \in Queriers, NEW A \in SUBSET Zone, NEW K \in SUBSET Zone,
             NEW kind \in {"multicast", "unicast", "legacy"}, QueryPacket(q, A, K, kind)
      PROVE  RespInv'
  BY <1>4, QueryStep
<1> QED
  BY <1>1, <1>2, <1>3, <1>4, LinkDownStep, TimeStep DEF RespNext

(* Nobody who asked is forgotten, and nothing is said of a record after its goodbye,
   for any records, queriers and times (response-sched.c).                          *)
THEOREM RespCorrect == RespSpec => []RespSafe
<1>1. RespInv /\ [RespNext]_respVars => RespInv'
  BY RespStep
<1> QED
  BY <1>1, InitResp, RespSafeFrom, PTL DEF RespSpec

-----------------------------------------------------------------------------
(***************************************************************************)
(* EntryGroups                                                             *)
(***************************************************************************)
States == {"none", "UNCOMMITED", "REGISTERING", "ESTABLISHED", "COLLISION"}

IsGroup(k) ==
    k \in [st : States, dead : BOOLEAN, try : Nat, age : Int, timer : BOOLEAN, est : Nat, last : Nat]

\* An entry is a record with these fields, of a record with a key and data.
IsEntry(e) ==
    /\ e = [rec |-> e.rec, group |-> e.group, uniq |-> e.uniq, multi |-> e.multi, dead |-> e.dead, n |-> e.n]
    /\ e.rec = [key |-> e.rec.key, data |-> e.rec.data]
    /\ e.group \in Groups /\ e.dead \in BOOLEAN

\* The conflicts among E are those that an update made.
Excused(E) == \A e, f \in Living(E) : Conflicts(e, f) => e.rec.key \in updated

EntriesInv ==
    /\ \A e \in entries : IsEntry(e) /\ (e.dead => cleanup)
    /\ \A e \in Living(entries) : Alive(e.group)
    /\ Excused(entries)
    /\ OthersKept

(***************************************************************************)
(* The register time of a group, which the commits move ahead, counts      *)
(* against the last time it began to register: while the timer runs, it is *)
(* a whole hold-off later.                                                 *)
(***************************************************************************)
GroupInv(k) ==
    /\ IsGroup(k)
    /\ k.timer => k.st = "REGISTERING" /\ ~k.dead
    /\ k.last >= Hold \/ k.age + (IF k.timer THEN Hold ELSE 0) <= k.last

GroupsInv == group = [g \in Groups |-> group[g]] /\ \A g \in Groups : GroupInv(group[g])

ZoneInv == EntriesInv /\ GroupsInv

\* E is our zone and entries of g that a call has added to it.
Grown(E, g) ==
    /\ entries \subseteq E /\ Excused(E)
    /\ \A e \in E : /\ IsEntry(e)
                    /\ e \in entries \/ (~e.dead /\ e.group = g /\ group[g].st # "ESTABLISHED")

NewEntry(e, g) == IsEntry(e) /\ e.group = g /\ ~e.dead

LEMMA CopyFacts ==
    ASSUME NEW E, NEW e, IsEntry(e), NEW c, c = Copy(E, e)
    PROVE  /\ IsEntry(c) /\ c.rec = e.rec /\ c.group = e.group
           /\ c.uniq = e.uniq /\ c.multi = e.multi /\ c.dead = e.dead
<1>1. PICK n : n = CHOOSE k \in 0..Cardinality(E) : \A f \in E : f.rec = e.rec /\ f.group = e.group => f.n # k
  OBVIOUS
<1>2. c = [e EXCEPT !.n = n]
  BY <1>1 DEF Copy
<1>3. c = [rec |-> e.rec, group |-> e.group, uniq |-> e.uniq, multi |-> e.multi, dead |-> e.dead, n |-> n]
  BY <1>2 DEF IsEntry
<1> QED
  BY <1>3 DEF IsEntry

LEMMA Symmetric == \A e, f : Conflicts(e, f) <=> Conflicts(f, e)
  BY DEF Conflicts, Overlap

LEMMA AddGrows ==
    ASSUME NEW g, NEW a, Grown(a.E, g), NEW e, NewEntry(e, g)
    PROVE  Grown(Add(a, e).E, g)
<1>1. PICK b : b = Add(a, e)
  OBVIOUS
<1>2. PICK c : c = Copy(a.E, e)
  OBVIOUS
<1>3. CASE b.E = a.E
  BY <1>1, <1>3
<1>4. CASE b.E = a.E \cup {c} /\ Fits(a.E, e)
  <2>1. IsEntry(e) /\ e.group = g /\ ~e.dead
    BY DEF NewEntry
  <2>2. /\ IsEntry(c) /\ c.rec = e.rec /\ c.group = g
        /\ c.uniq = e.uniq /\ c.multi = e.multi /\ ~c.dead
    BY <1>2, <2>1, CopyFacts
  <2>3. group[g].st # "ESTABLISHED" /\ \A f \in Living(a.E) : ~Conflicts(e, f)
    BY <1>4, <2>1 DEF Fits, Conflict
  <2>4. \A f \in Living(a.E) : ~Conflicts(c, f) /\ ~Conflicts(f, c)
    <3>1. \A f \in Living(a.E) : ~Conflicts(c, f)
      BY <2>1, <2>2, <2>3 DEF Conflicts
    <3> QED
      BY <3>1, Symmetric
  <2>5. ~Conflicts(c, c)
    BY DEF Conflicts
  <2>6. Living(b.E) \subseteq Living(a.E) \cup {c}
    BY <1>4 DEF Living
  <2>7. Excused(b.E)
    BY <2>4, <2>5, <2>6 DEF Excused, Grown
  <2> QED
    BY <1>1, <1>4, <2>2, <2>3, <2>7 DEF Grown
<1> QED
  BY <1>1, <1>2, <1>3, <1>4 DEF Add

LEMMA EntryIsNew ==
    \A g \in Groups : \A kind, name, data, uniq, multi : NewEntry(Entry(g, Rec(kind, name, data), uniq, multi), g)
  BY DEF NewEntry, Entry, Rec, IsEntry

LEMMA BeginGrown == EntriesInv => \A g : Grown(Begin.E, g)
<1> SUFFICES ASSUME EntriesInv, NEW g PROVE Grown(Begin.E, g)
  OBVIOUS
<1>1. Begin.E = entries
  BY DEF Begin
<1> QED
  BY <1>1 DEF EntriesInv, Grown

LEMMA AddsKeep ==
    ASSUME EntriesInv, NEW g \in Groups, NEW a, NEW keep, Grown(a.E, g), Adds(g, a, keep)
    PROVE  EntriesInv' /\ group' = group
<1>1. /\ Alive(g) /\ group' = group /\ cleanup' = cleanup /\ peers' = peers /\ updated' = updated
      /\ (entries' = a.E \/ entries' = entries)
  BY DEF Adds
<1>2. Grown(entries', g)
  BY <1>1 DEF Grown, EntriesInv
<1>3. \A e \in entries' : IsEntry(e) /\ (e.dead => cleanup')
  BY <1>1, <1>2 DEF Grown, EntriesInv
<1>4. \A e \in Living(entries') : e \in Living(entries) \/ (e.group = g /\ group[g].st # "ESTABLISHED")
  BY <1>2 DEF Grown, Living
<1>5. \A e \in Living(entries') : Alive(e.group)'
  BY <1>1, <1>4 DEF EntriesInv, Alive
<1>6. OthersKept'
  BY <1>1, <1>4 DEF EntriesInv, OthersKept
<1>7. Excused(entries)'
  BY <1>1, <1>2 DEF Grown, Excused, Living, Conflicts, Overlap
<1> QED
  BY <1>1, <1>3, <1>5, <1>6, <1>7 DEF EntriesInv

LEMMA AddStep ==
    ASSUME EntriesInv, NEW g \in Groups, NEW n, NEW d, NEW keep,
           AddService(g, n, d, keep) \/ AddAddress(g, n) \/ AddDNSServer(g) \/ AddSubtype(g, n)
    PROVE  EntriesInv' /\ group' = group
<1>1. CASE AddService(g, n, d, keep)
  <2>1. Grown(Service(g, n, d).E, g)
    BY AddGrows, EntryIsNew, BeginGrown DEF Service
  <2> QED
    BY <1>1, <2>1, AddsKeep DEF AddService
<1>2. CASE AddAddress(g, n)
  <2>1. Grown(Address(g, n).E, g)
    BY AddGrows, EntryIsNew, BeginGrown DEF Address
  <2> QED
    BY <1>2, <2>1, AddsKeep DEF AddAddress
<1>3. CASE AddDNSServer(g)
  <2>1. Grown(DNSServer(g).E, g)
    BY AddGrows, EntryIsNew, BeginGrown DEF DNSServer
  <2> QED
    BY <1>3, <2>1, AddsKeep DEF AddDNSServer
<1>4. CASE AddSubtype(g, n)
  <2>1. PICK e : e = Entry(g, Rec("ptr", "subtype", n), FALSE, FALSE)
    OBVIOUS
  <2>2. Grown(Add(Begin, e).E, g)
    BY <2>1, AddGrows, EntryIsNew, BeginGrown
  <2> QED
    BY <1>4, <2>1, <2>2, AddsKeep DEF AddSubtype
<1> QED
  BY <1>1, <1>2, <1>3, <1>4

\* The entries stay, and a group that holds some stays alive.
LEMMA GroupsOnly ==
    ASSUME EntriesInv, UNCHANGED <<entries, cleanup, peers, updated>>,
           \A g \in Groups : /\ Alive(g) => group'[g].st # "none" /\ ~group'[g].dead
                             /\ group'[g].st = "ESTABLISHED" => group[g].st = "ESTABLISHED"
    PROVE  EntriesInv'
<1>1. \A e \in Living(entries) : e.group \in Groups
  BY DEF EntriesInv, Living, IsEntry
<1>2. Living(entries') = Living(entries)
  BY DEF Living
<1>3. \A e \in Living(entries') : Alive(e.group)'
  BY <1>1, <1>2 DEF EntriesInv, Alive
<1>4. OthersKept'
  BY <1>1, <1>2 DEF EntriesInv, OthersKept
<1>5. Excused(entries)'
  BY DEF EntriesInv, Excused, Living, Conflicts, Overlap
<1> QED
  BY <1>3, <1>4, <1>5 DEF EntriesInv

LEMMA BuriedFacts ==
    ASSUME \A e \in entries : IsEntry(e), NEW g
    PROVE  /\ \A e \in Buried(g) : IsEntry(e)
           /\ Living(Buried(g)) = {e \in Living(entries) : e.group # g}
<1>1. ASSUME NEW e \in entries
      PROVE  IsEntry([e EXCEPT !.dead = TRUE]) /\ [e EXCEPT !.dead = TRUE].dead
  <2>1. IsEntry(e)
    BY <1>1
  <2>2. PICK f : f = [e EXCEPT !.dead = TRUE]
    OBVIOUS
  <2>3. f = [rec |-> e.rec, group |-> e.group, uniq |-> e.uniq, multi |-> e.multi, dead |-> TRUE, n |-> e.n]
    BY <2>1, <2>2 DEF IsEntry
  <2>4. IsEntry(f) /\ f.dead
    BY <2>1, <2>3 DEF IsEntry
  <2> QED
    BY <2>2, <2>4
<1> QED
  BY <1>1 DEF Buried, Living

\* All entries of g go, and what is said goodbye to is not another group's.
LEMMA BuriedKeep ==
    ASSUME EntriesInv, NEW g \in Groups, entries' = Buried(g), cleanup' = TRUE, updated' = updated,
           peers \ Goodbyes(g) \subseteq peers', \A h \in Groups : h # g => group'[h] = group[h]
    PROVE  EntriesInv'
<1>1. /\ \A e \in entries' : IsEntry(e)
      /\ Living(entries') = {e \in Living(entries) : e.group # g}
  BY BuriedFacts DEF EntriesInv
<1>2. \A e \in Living(entries') : e \in Living(entries) /\ e.group \in Groups /\ e.group # g
  BY <1>1 DEF Living, IsEntry
<1>3. \A e \in Living(entries') : Alive(e.group)'
  BY <1>2 DEF EntriesInv, Alive
<1>4. \A e \in Living(entries') : e.rec \notin Goodbyes(g)
  BY <1>2 DEF Goodbyes, Living
<1>5. OthersKept'
  BY <1>2, <1>4 DEF EntriesInv, OthersKept
<1>6. Excused(entries)'
  BY <1>2 DEF EntriesInv, Excused, Conflicts, Overlap
<1> QED
  BY <1>1, <1>3, <1>5, <1>6 DEF EntriesInv

LEMMA UpdateStep ==
    ASSUME EntriesInv, NEW g \in Groups, NEW n, NEW t, UpdateTxt(g, n, t)
    PROVE  EntriesInv' /\ group' = group
<1>1. PICK e \in Living(Of(entries, g)) :
          /\ LET f == [e EXCEPT !.rec.data = t]
             IN  entries' = (entries \ {e}) \cup {Copy(entries \ {e}, f)}
          /\ peers' = IF group[g].st = "ESTABLISHED" THEN {r \in peers : r.key # e.rec.key} \cup {[e.rec EXCEPT !.data = t]}
                      ELSE peers
          /\ updated' = updated \cup {e.rec.key}
  BY DEF UpdateTxt
<1>2. /\ Alive(g) /\ group' = group /\ cleanup' = cleanup
      /\ \A r \in peers : r.key # e.rec.key => r \in peers'
  BY <1>1 DEF UpdateTxt
<1>3. IsEntry(e) /\ e.group = g /\ ~e.dead /\ e \in Living(entries)
  BY DEF EntriesInv, Living, Of
<1>4. PICK f : f = [e EXCEPT !.rec.data = t]
  OBVIOUS
<1>5. IsEntry(f) /\ f.rec.key = e.rec.key /\ f.group = g /\ ~f.dead
  <2>1. f = [rec |-> [key |-> e.rec.key, data |-> t], group |-> e.group, uniq |-> e.uniq,
             multi |-> e.multi, dead |-> e.dead, n |-> e.n]
    BY <1>3, <1>4 DEF IsEntry
  <2> QED
    BY <1>3, <2>1 DEF IsEntry
<1>6. PICK c : c = Copy(entries \ {e}, f)
  OBVIOUS
<1>7. IsEntry(c) /\ c.rec.key = e.rec.key /\ c.group = g /\ ~c.dead
  BY <1>5, <1>6, CopyFacts
<1>8. entries' = (entries \ {e}) \cup {c}
  BY <1>1, <1>4, <1>6
<1>9. \A x \in Living(entries') : x \in Living(entries) \/ x = c
  BY <1>8 DEF Living
<1>10. \A x \in entries' : IsEntry(x) /\ (x.dead => cleanup')
  BY <1>2, <1>7, <1>8 DEF EntriesInv
<1>11. \A x \in Living(entries') : Alive(x.group)'
  BY <1>2, <1>7, <1>9 DEF EntriesInv, Alive
<1>12. OthersKept'
  BY <1>1, <1>2, <1>7, <1>9 DEF EntriesInv, OthersKept
<1>13. Excused(entries)'
  <2>1. SUFFICES ASSUME NEW x \in Living(entries'), NEW y \in Living(entries'), Conflicts(x, y)
                 PROVE  x.rec.key \in updated'
    BY DEF Excused, Conflicts, Overlap
  <2>2. x.rec.key = y.rec.key
    BY <2>1 DEF Conflicts
  <2> QED
    BY <1>1, <1>7, <1>9, <2>1, <2>2 DEF EntriesInv, Excused
<1> QED
  BY <1>2, <1>10, <1>11, <1>12, <1>13 DEF EntriesInv

\* The names of the constants' values, and that hold-offs are not negative.
LEMMA Holds == Hold \in Nat /\ Hold > 0 /\ LongHold \in Nat /\ Hold <= LongHold /\ Limit \in Nat /\ Young \in Nat
  BY GroupsAssumption

LEMMA NoGroupInv == GroupInv(NoGroup) /\ NoGroup.st = "none" /\ ~NoGroup.dead /\ ~NoGroup.timer /\ NoGroup.last = Hold
  BY Holds DEF NoGroup, GroupInv, IsGroup, States

LEMMA ChangeFacts ==
    ASSUME NEW k, IsGroup(k), NEW state \in States, NEW c, c = ChangeState(k, state)
    PROVE  /\ IsGroup(c) /\ c.st = state
           /\ c.dead = k.dead /\ c.age = k.age /\ c.last = k.last
           /\ c.timer => k.timer /\ (k.st = "REGISTERING" => state = "REGISTERING")
  BY DEF ChangeState, IsGroup, States

\* To any state but registering.
LEMMA ChangeKeeps ==
    ASSUME NEW k, GroupInv(k), NEW state \in States, state # "REGISTERING", NEW c, c = ChangeState(k, state)
    PROVE  GroupInv(c) /\ c.st = state /\ c.dead = k.dead /\ ~c.timer
<1>1. /\ IsGroup(c) /\ c.st = state /\ c.dead = k.dead /\ c.age = k.age /\ c.last = k.last /\ ~c.timer
  BY ChangeFacts DEF GroupInv
<1>2. k.last >= Hold \/ k.age <= k.last
  BY Holds DEF GroupInv, IsGroup
<1> QED
  BY <1>1, <1>2, Holds DEF GroupInv, IsGroup

LEMMA CommitFacts ==
    ASSUME NEW k, IsGroup(k), ~k.timer, NEW c, c = CommitReal(k)
    PROVE  GroupInv(c) /\ c.st = "REGISTERING" /\ c.dead = k.dead
<1>0. PICK i : i = [k EXCEPT !.age = 0]
  OBVIOUS
<1>1. PICK j : j = [i EXCEPT !.last = 0]
  OBVIOUS
<1>2. IsGroup(i) /\ ~i.timer /\ i.age = 0 /\ i.dead = k.dead
  BY <1>0 DEF IsGroup
<1>3. IsGroup(j) /\ ~j.timer /\ j.age = 0 /\ j.last = 0 /\ j.dead = k.dead
  BY <1>1, <1>2 DEF IsGroup
<1>4. c = ChangeState(j, "REGISTERING") /\ "REGISTERING" \in States
  BY <1>0, <1>1 DEF CommitReal, States
<1>5. IsGroup(c) /\ c.st = "REGISTERING" /\ c.dead = k.dead /\ c.age = 0 /\ c.last = 0 /\ ~c.timer
  BY <1>3, <1>4, ChangeFacts
<1> QED
  BY <1>5 DEF GroupInv

(***************************************************************************)
(* What an action does to one group: the others stay as they are.          *)
(***************************************************************************)
Moves(g) ==
    /\ group' = [group EXCEPT ![g] = group'[g]]
    /\ GroupInv(group'[g])
    /\ ~Probing(group[g]) /\ Probing(group'[g]) => group[g].last >= Hold

LEMMA MovesKeep ==
    ASSUME GroupsInv, NEW g \in Groups, Moves(g)
    PROVE  /\ GroupsInv'
           /\ \A h \in Groups : h # g => group'[h] = group[h]
           /\ \A h \in Groups : ~Probing(group[h]) /\ Probing(group'[h]) => group[h].last >= Hold
<1>1. group' = [h \in Groups |-> IF h = g THEN group'[g] ELSE group[h]]
  BY DEF Moves, GroupsInv
<1>2. \A h \in Groups : h # g => group'[h] = group[h]
  BY <1>1
<1>3. group' = [h \in Groups |-> group'[h]]
  BY <1>1
<1> QED
  BY <1>2, <1>3 DEF Moves, GroupsInv

\* An action that writes the group anew moves it.
LEMMA Written ==
    ASSUME GroupsInv, NEW g \in Groups, NEW c, group' = [group EXCEPT ![g] = c], GroupInv(c),
           ~Probing(group[g]) /\ Probing(c) => group[g].last >= Hold
    PROVE  Moves(g) /\ group'[g] = c
<1>1. group'[g] = c
  BY DEF GroupsInv
<1> QED
  BY <1>1 DEF Moves

LEMMA GroupNewStep ==
    ASSUME GroupsInv, NEW g \in Groups, GroupNew(g)
    PROVE  Moves(g) /\ group'[g].st = "UNCOMMITED" /\ ~Alive(g)
<1>1. PICK c : c = [NoGroup EXCEPT !.st = "UNCOMMITED"]
  OBVIOUS
<1>2. c.st = "UNCOMMITED" /\ GroupInv(c)
  <2>1. c = [st |-> "UNCOMMITED", dead |-> FALSE, try |-> 0, age |-> LongHold, timer |-> FALSE, est |-> 0, last |-> Hold]
    BY <1>1 DEF NoGroup
  <2> QED
    BY <2>1, Holds DEF GroupInv, IsGroup, States
<1>3. group' = [group EXCEPT ![g] = c] /\ ~Alive(g)
  BY <1>1 DEF GroupNew, Alive
<1> QED
  BY <1>2, <1>3, Written DEF Probing

LEMMA CommitStep ==
    ASSUME GroupsInv, NEW g \in Groups, GroupCommit(g)
    PROVE  Moves(g) /\ group'[g].st = "REGISTERING" /\ ~group'[g].dead
<1>1. PICK k : k = [group[g] EXCEPT !.try = IF @ < Limit THEN @ + 1 ELSE @]
  OBVIOUS
<1>2. GroupInv(group[g]) /\ group[g].st \in {"UNCOMMITED", "COLLISION"} /\ ~group[g].dead
  BY DEF GroupsInv, GroupCommit, Alive
<1>3. IsGroup(k) /\ k.age = group[g].age /\ k.last = group[g].last /\ k.st = group[g].st /\ ~k.dead /\ ~k.timer
  BY <1>1, <1>2 DEF GroupInv, IsGroup
<1>4. HoldOff(k) \in Nat /\ HoldOff(k) >= Hold
  BY Holds DEF HoldOff
<1>5. PICK wait : wait = [k EXCEPT !.age = @ - HoldOff(k)]
  OBVIOUS
<1>6. /\ IsGroup(wait) /\ wait.age = k.age - HoldOff(k) /\ wait.last = k.last
      /\ wait.st = k.st /\ ~wait.dead /\ ~wait.timer
  BY <1>3, <1>4, <1>5 DEF IsGroup
<1>7. group' = [group EXCEPT ![g] = IF wait.age >= 0 THEN CommitReal(wait)
                                    ELSE [ChangeState(wait, "REGISTERING") EXCEPT !.timer = TRUE]]
  BY <1>1, <1>5 DEF GroupCommit
<1>8. group[g].last >= Hold \/ group[g].age <= group[g].last
  BY <1>2, Holds DEF GroupInv, IsGroup
<1>9. CASE wait.age >= 0
  <2>1. PICK c : c = CommitReal(wait)
    OBVIOUS
  <2>2. GroupInv(c) /\ c.st = "REGISTERING" /\ ~c.dead
    BY <1>6, <2>1, CommitFacts
  <2>3. group[g].last >= Hold
    BY <1>2, <1>3, <1>4, <1>6, <1>8, <1>9, Holds DEF GroupInv, IsGroup
  <2>4. group' = [group EXCEPT ![g] = c]
    BY <1>7, <1>9, <2>1
  <2> QED
    BY <2>2, <2>3, <2>4, Written
<1>10. CASE ~(wait.age >= 0)
  <2>1. PICK j : j = ChangeState(wait, "REGISTERING")
    OBVIOUS
  <2>2. PICK c : c = [j EXCEPT !.timer = TRUE]
    OBVIOUS
  <2>3. "REGISTERING" \in States
    BY DEF States
  <2>4. IsGroup(j) /\ j.st = "REGISTERING" /\ ~j.dead /\ j.age = wait.age /\ j.last = wait.last
    BY <1>6, <2>1, <2>3, ChangeFacts
  <2>5. /\ IsGroup(c) /\ c.st = "REGISTERING" /\ ~c.dead /\ c.timer
        /\ c.age = wait.age /\ c.last = wait.last
    BY <2>2, <2>4 DEF IsGroup
  <2>6. c.last >= Hold \/ c.age + Hold <= c.last
    BY <1>2, <1>3, <1>4, <1>6, <1>8, <2>5, Holds DEF GroupInv, IsGroup
  <2>7. GroupInv(c) /\ ~Probing(c)
    BY <2>5, <2>6 DEF GroupInv, Probing
  <2>8. group' = [group EXCEPT ![g] = c]
    BY <1>7, <1>10, <2>1, <2>2
  <2> QED
    BY <2>5, <2>7, <2>8, Written
<1> QED
  BY <1>9, <1>10

LEMMA RegisterTimerStep ==
    ASSUME GroupsInv, NEW g \in Groups, RegisterTimer(g)
    PROVE  Moves(g) /\ group'[g].st = "REGISTERING" /\ ~group'[g].dead
<1>1. PICK k : k = [group[g] EXCEPT !.timer = FALSE]
  OBVIOUS
<1>2. GroupInv(group[g]) /\ group[g].timer /\ group[g].age >= 0
  BY DEF GroupsInv, RegisterTimer
<1>3. IsGroup(k) /\ ~k.timer /\ ~k.dead
  BY <1>1, <1>2 DEF GroupInv, IsGroup
<1>4. group[g].last >= Hold
  BY <1>2, Holds DEF GroupInv, IsGroup
<1>5. PICK c : c = CommitReal(k)
  OBVIOUS
<1>6. group' = [group EXCEPT ![g] = c]
  BY <1>1, <1>5 DEF RegisterTimer
<1>7. GroupInv(c) /\ c.st = "REGISTERING" /\ ~c.dead
  BY <1>3, <1>5, CommitFacts
<1> QED
  BY <1>4, <1>6, <1>7, Written

LEMMA ChangedStep ==
    ASSUME GroupsInv, NEW g \in Groups, NEW state \in States, state # "REGISTERING",
           group' = [group EXCEPT ![g] = ChangeState(@, state)]
    PROVE  Moves(g) /\ group'[g].st = state /\ group'[g].dead = group[g].dead
<1>1. PICK c : c = ChangeState(group[g], state)
  OBVIOUS
<1>2. GroupInv(group[g])
  BY DEF GroupsInv
<1>3. GroupInv(c) /\ c.st = state /\ c.dead = group[g].dead
  BY <1>1, <1>2, ChangeKeeps
<1>4. group' = [group EXCEPT ![g] = c]
  BY <1>1
<1> QED
  BY <1>3, <1>4, Written DEF Probing

LEMMA FreeStep ==
    ASSUME GroupsInv, NEW g \in Groups, GroupFree(g)
    PROVE  Moves(g)
<1>0. PICK i : i = [group[g] EXCEPT !.dead = TRUE]
  OBVIOUS
<1>1. PICK c : c = [i EXCEPT !.timer = FALSE]
  OBVIOUS
<1>2. GroupInv(group[g])
  BY DEF GroupsInv
<1>3. GroupInv(c) /\ c.dead
  <2>1. IsGroup(i) /\ i.dead /\ i.age = group[g].age /\ i.last = group[g].last
    BY <1>0, <1>2 DEF GroupInv, IsGroup
  <2>2. IsGroup(c) /\ c.dead /\ ~c.timer /\ c.age = group[g].age /\ c.last = group[g].last
    BY <1>1, <2>1 DEF IsGroup
  <2>3. group[g].last >= Hold \/ group[g].age <= group[g].last
    BY <1>2, Holds DEF GroupInv, IsGroup
  <2> QED
    BY <2>2, <2>3, Holds DEF GroupInv, IsGroup
<1>4. group' = [group EXCEPT ![g] = c]
  BY <1>0, <1>1 DEF GroupFree
<1> QED
  BY <1>3, <1>4, Written DEF Probing

LEMMA TickKeeps ==
    ASSUME NEW k, GroupInv(k), NEW c, c = GroupLater(k)
    PROVE  GroupInv(c) /\ c.st = k.st /\ c.dead = k.dead /\ c.timer = k.timer
<1>1. PICK i : i = [k EXCEPT !.age = Older(@, LongHold)]
  OBVIOUS
<1>2. PICK j : j = [i EXCEPT !.est = Older(@, Young + 1)]
  OBVIOUS
<1>3. c = [j EXCEPT !.last = Older(@, Hold)]
  BY <1>1, <1>2 DEF GroupLater
<1>4. /\ IsGroup(i) /\ i.age = Older(k.age, LongHold) /\ i.last = k.last
      /\ i.st = k.st /\ i.dead = k.dead /\ i.timer = k.timer
  BY <1>1, Holds DEF GroupInv, IsGroup, Older
<1>5. /\ IsGroup(j) /\ j.age = i.age /\ j.last = i.last
      /\ j.st = i.st /\ j.dead = i.dead /\ j.timer = i.timer
  BY <1>2, <1>4, Holds DEF IsGroup, Older
<1>6. /\ IsGroup(c) /\ c.age = j.age /\ c.last = Older(j.last, Hold)
      /\ c.st = j.st /\ c.dead = j.dead /\ c.timer = j.timer
  BY <1>3, <1>5, Holds DEF IsGroup, Older
<1>7. /\ IsGroup(c) /\ c.age = Older(k.age, LongHold) /\ c.last = Older(k.last, Hold)
      /\ c.st = k.st /\ c.dead = k.dead /\ c.timer = k.timer
  BY <1>4, <1>5, <1>6
<1>8. c.last >= Hold \/ c.age + (IF c.timer THEN Hold ELSE 0) <= c.last
  <2>1. k.age \in Int /\ k.last \in Nat /\ (k.last >= Hold \/ k.age + (IF k.timer THEN Hold ELSE 0) <= k.last)
    BY DEF GroupInv, IsGroup
  <2>2. CASE k.timer
    BY <1>7, <2>1, <2>2, Holds DEF Older
  <2>3. CASE ~k.timer
    BY <1>7, <2>1, <2>3, Holds DEF Older
  <2> QED
    BY <2>2, <2>3
<1>9. c.timer => c.st = "REGISTERING" /\ ~c.dead
  BY <1>7 DEF GroupInv
<1> QED
  BY <1>7, <1>8, <1>9 DEF GroupInv

LEMMA TickStep ==
    ASSUME ZoneInv, Tick
    PROVE  /\ ZoneInv'
           /\ \A g \in Groups : ~Probing(group[g]) => ~Probing(group'[g])
<1>1. group' = [g \in Groups |-> GroupLater(group[g])] /\ UNCHANGED <<entries, cleanup, peers, updated>>
  BY DEF Tick
<1>2. ASSUME NEW g \in Groups
      PROVE  GroupInv(group'[g]) /\ group'[g].st = group[g].st /\ group'[g].dead = group[g].dead
                /\ group'[g].timer = group[g].timer
  <2>1. GroupInv(group[g]) /\ group'[g] = GroupLater(group[g])
    BY <1>1 DEF ZoneInv, GroupsInv
  <2> QED
    BY <2>1, TickKeeps
<1>3. GroupsInv'
  BY <1>1, <1>2 DEF GroupsInv
<1>4. EntriesInv'
  BY <1>1, <1>2, GroupsOnly DEF ZoneInv, Alive
<1> QED
  BY <1>2, <1>3, <1>4 DEF ZoneInv, Probing

LEMMA CleanupStep ==
    ASSUME ZoneInv, CleanupDead
    PROVE  /\ ZoneInv'
           /\ \A g \in Groups : ~Probing(group[g]) => ~Probing(group'[g])
<1>1. /\ group' = [g \in Groups |-> IF group[g].dead THEN NoGroup ELSE group[g]]
      /\ entries' = Living(entries) /\ peers' = peers /\ updated' = updated
  BY DEF CleanupDead
<1>2. \A g \in Groups : group'[g] = NoGroup \/ group'[g] = group[g]
  BY <1>1
<1>3. GroupsInv'
  BY <1>1, <1>2, NoGroupInv DEF ZoneInv, GroupsInv
<1>4. \A g \in Groups : ~Probing(group[g]) => ~Probing(group'[g])
  BY <1>2, NoGroupInv DEF Probing
<1>5. Living(entries') = Living(entries) /\ \A e \in entries' : e \in entries /\ ~e.dead
  BY <1>1 DEF Living
<1>6. \A e \in Living(entries) : e.group \in Groups /\ Alive(e.group) /\ group'[e.group] = group[e.group]
  <2>1. \A e \in Living(entries) : e.group \in Groups /\ Alive(e.group)
    BY DEF ZoneInv, EntriesInv, Living, IsEntry
  <2> QED
    BY <1>1, <2>1 DEF Alive
<1>7. \A e \in Living(entries') : Alive(e.group)'
  BY <1>5, <1>6 DEF Alive
<1>8. OthersKept'
  BY <1>1, <1>5, <1>6 DEF ZoneInv, EntriesInv, OthersKept
<1>9. Excused(entries)'
  <2>1. SUFFICES ASSUME NEW x \in Living(entries'), NEW y \in Living(entries'), Conflicts(x, y)
                 PROVE  x.rec.key \in updated'
    BY DEF Excused, Conflicts, Overlap
  <2> QED
    BY <1>1, <1>5, <2>1 DEF ZoneInv, EntriesInv, Excused
<1>10. EntriesInv'
  BY <1>5, <1>7, <1>8, <1>9 DEF ZoneInv, EntriesInv
<1> QED
  BY <1>3, <1>4, <1>10 DEF ZoneInv

LEMMA EstablishStep ==
    ASSUME EntriesInv, NEW g \in Groups, Establish(g), \A h \in Groups : h # g => group'[h] = group[h],
           group'[g].st = "ESTABLISHED", ~group'[g].dead
    PROVE  EntriesInv'
<1>1. /\ entries' = entries /\ cleanup' = cleanup /\ updated' = updated
      /\ peers' = peers \cup {e.rec : e \in Living(Of(entries, g))}
  BY DEF Establish
<1>2. \A e \in Living(entries') : e \in Living(entries) /\ e.group \in Groups
  BY <1>1 DEF EntriesInv, Living, IsEntry
<1>3. \A e \in Living(entries') : Alive(e.group)'
  BY <1>2 DEF EntriesInv, Alive
<1>4. \A e \in Living(entries') : e.group = g => e.rec \in peers'
  BY <1>1, <1>2 DEF Living, Of
<1>5. OthersKept'
  BY <1>1, <1>2, <1>4 DEF EntriesInv, OthersKept
<1>6. Excused(entries)'
  <2>1. SUFFICES ASSUME NEW x \in Living(entries'), NEW y \in Living(entries'), Conflicts(x, y)
                 PROVE  x.rec.key \in updated'
    BY DEF Excused, Conflicts, Overlap
  <2> QED
    BY <1>1, <1>2, <2>1 DEF EntriesInv, Excused
<1> QED
  BY <1>1, <1>3, <1>5, <1>6 DEF EntriesInv

\* Every step keeps the invariant, and begins to probe only after a hold-off.
LEMMA ZoneStep ==
    ASSUME ZoneInv, [ZoneNext]_zoneVars
    PROVE  /\ ZoneInv'
           /\ \A g \in Groups : ~Probing(group[g]) /\ Probing(group'[g]) => group[g].last >= Hold
<1> DEFINE Goal == /\ ZoneInv'
                   /\ \A g \in Groups : ~Probing(group[g]) /\ Probing(group'[g]) => group[g].last >= Hold
<1> USE DEF ZoneInv
<1>1. CASE UNCHANGED zoneVars
  BY <1>1 DEF zoneVars, EntriesInv, GroupsInv, Living, Alive, Excused, Conflicts, Overlap, OthersKept
<1>2. ASSUME NEW g \in Groups, GroupNew(g) PROVE Goal
  <2>1. Moves(g) /\ group'[g].st = "UNCOMMITED" /\ ~Alive(g)
    BY <1>2, GroupNewStep
  <2>2. UNCHANGED <<entries, cleanup, peers, updated>>
    BY <1>2 DEF GroupNew
  <2> QED
    BY <2>1, <2>2, MovesKeep, GroupsOnly DEF Alive
<1>3. ASSUME NEW g \in Groups, GroupCommit(g) \/ RegisterTimer(g) PROVE Goal
  <2>1. Moves(g) /\ group'[g].st = "REGISTERING" /\ ~group'[g].dead
    BY <1>3, CommitStep, RegisterTimerStep
  <2>2. UNCHANGED <<entries, cleanup, peers, updated>>
    BY <1>3 DEF GroupCommit, RegisterTimer
  <2> QED
    BY <2>1, <2>2, MovesKeep, GroupsOnly DEF Alive
<1>4. ASSUME NEW g \in Groups, GroupReset(g) \/ GroupFree(g) \/ Collide(g) PROVE Goal
  <2>1. Moves(g)
    <3>1. CASE GroupReset(g)
      BY <3>1, ChangedStep DEF GroupReset, States
    <3>2. CASE Collide(g)
      BY <3>2, ChangedStep DEF Collide, States
    <3> QED
      BY <1>4, <3>1, <3>2, FreeStep
  <2>2. entries' = Buried(g) /\ cleanup' = TRUE /\ updated' = updated /\ peers \ Goodbyes(g) \subseteq peers'
    BY <1>4 DEF GroupReset, GroupFree, Collide
  <2> QED
    BY <2>1, <2>2, MovesKeep, BuriedKeep
<1>5. ASSUME NEW g \in Groups, Establish(g) PROVE Goal
  <2>1. Moves(g) /\ group'[g].st = "ESTABLISHED" /\ ~group'[g].dead
    BY <1>5, ChangedStep DEF Establish, States, Alive
  <2> QED
    BY <1>5, <2>1, MovesKeep, EstablishStep
<1>6. ASSUME NEW g \in Groups, NEW n, NEW d, NEW u,
             \/ AddService(g, n, d, u) \/ AddAddress(g, n) \/ AddDNSServer(g) \/ AddSubtype(g, n)
             \/ UpdateTxt(g, n, d)
      PROVE Goal
  <2>1. EntriesInv' /\ group' = group
    BY <1>6, AddStep, UpdateStep
  <2> QED
    BY <2>1 DEF GroupsInv
<1>7. CASE Tick \/ CleanupDead
  BY <1>7, TickStep, CleanupStep
<1> HIDE DEF Goal, ZoneInv
<1>8. Goal
  BY <1>1, <1>2, <1>3, <1>4, <1>5, <1>6, <1>7 DEF ZoneNext, Goal
<1> QED
  BY <1>8 DEF Goal

LEMMA ZoneStarts == ZoneInit => ZoneInv
  BY NoGroupInv DEF ZoneInit, ZoneInv, EntriesInv, GroupsInv, Living, Excused, OthersKept

LEMMA ZoneSafeFrom == ZoneInv => ZoneSafe
<1> SUFFICES ASSUME ZoneInv PROVE ZoneSafe
  OBVIOUS
<1>1. ZoneTypeOK
  BY DEF ZoneInv, EntriesInv, GroupsInv, GroupInv, ZoneTypeOK
<1>2. NoContradiction /\ OthersKept
  BY DEF ZoneInv, EntriesInv, Excused, NoContradiction
<1> QED
  BY <1>1, <1>2 DEF ZoneSafe

(* The zone does not contradict itself but where a record was updated, and the records
   of an established group stay with the peers whatever the other groups do (entry.c,
   announce.c).                                                                        *)
THEOREM ZoneCorrect == ZoneSpec => []ZoneSafe
<1>1. ZoneInv /\ [ZoneNext]_zoneVars => ZoneInv'
  BY ZoneStep
<1> QED
  BY <1>1, ZoneStarts, ZoneSafeFrom, PTL DEF ZoneSpec

(* No group is registered twice in a hold-off, however it is reset and committed, or
   collides (entry.c, avahi_s_entry_group_commit).                                   *)
THEOREM CommitsAreLimited == ZoneSpec => RateLimited
<1>1. ZoneInv /\ [ZoneNext]_zoneVars => ZoneInv'
  BY ZoneStep
<1>2. ZoneInv /\ [ZoneNext]_zoneVars
        => [\A g \in Groups : ~Probing(group[g]) /\ Probing(group'[g]) => group[g].last >= Hold]_zoneVars
  BY ZoneStep
<1> QED
  BY <1>1, <1>2, ZoneStarts, PTL DEF ZoneSpec, RateLimited

(***************************************************************************)
(* Services are whole: what a call adds, what is buried and what is        *)
(* updated, seen by the keys of the living entries of one group.           *)
(***************************************************************************)
PtrType == <<"ptr", "type">>

\* Who has the same living entries is as whole as before.
LEMMA SameWhole ==
    ASSUME NEW E, NEW F, NEW g, Living(Of(F, g)) = Living(Of(E, g)), Whole(E, g)
    PROVE  Whole(F, g)
  BY DEF Whole

LEMMA OthersWhole ==
    ASSUME NEW g, NEW h, g # h, NEW E, Grown(E, h), Whole(entries, g)
    PROVE  Whole(E, g)
<1>1. Living(Of(E, g)) = Living(Of(entries, g))
  BY DEF Grown, Living, Of
<1> QED
  BY <1>1, SameWhole

\* A record that is added keeps what was there, and is there if all of it was added.
LEMMA Added ==
    ASSUME NEW g, NEW a, NEW e, NewEntry(e, g), NEW b, b = Add(a, e)
    PROVE  \/ b.E = a.E /\ ~b.ok
           \/ a.ok /\ \E c : b.E = a.E \cup {c} /\ c.rec = e.rec /\ c.group = g /\ ~c.dead
<1>1. CASE a.ok /\ Fits(a.E, e)
  <2>1. PICK c : c = Copy(a.E, e)
    OBVIOUS
  <2>2. c.rec = e.rec /\ c.group = g /\ ~c.dead
    BY <2>1, CopyFacts DEF NewEntry
  <2> QED
    BY <1>1, <2>1, <2>2 DEF Add
<1>2. CASE ~(a.ok /\ Fits(a.E, e))
  BY <1>2 DEF Add
<1> QED
  BY <1>1, <1>2

\* Records of other kinds do not make a group less whole.
LEMMA AddedWhole ==
    ASSUME NEW g, NEW a, Whole(a.E, g), NEW e, NewEntry(e, g), e.rec.key # PtrType
    PROVE  Whole(Add(a, e).E, g)
<1>1. PICK b : b = Add(a, e)
  OBVIOUS
<1>2. CASE b.E = a.E
  BY <1>1, <1>2
<1>3. ASSUME NEW c, b.E = a.E \cup {c}, c.rec = e.rec, c.group = g, ~c.dead
      PROVE  Whole(b.E, g)
  <2>1. PICK mine : mine = Living(Of(a.E, g))
    OBVIOUS
  <2>2. Living(Of(b.E, g)) = mine \cup {c}
    BY <1>3, <2>1 DEF Living, Of
  <2>3. PICK K : K = {f.rec.key : f \in mine \cup {c}}
    OBVIOUS
  <2>4. \A x \in mine : x.rec.key = PtrType => {<<"srv", x.rec.data>>, <<"txt", x.rec.data>>} \subseteq K
    BY <2>1, <2>3 DEF Whole, PtrType
  <2>5. c.rec.key # PtrType
    BY <1>3
  <2> QED
    BY <2>2, <2>3, <2>4, <2>5 DEF Whole, PtrType
<1>4. b.E = a.E \/ \E c : b.E = a.E \cup {c} /\ c.rec = e.rec /\ c.group = g /\ ~c.dead
  BY <1>1, Added
<1> QED
  BY <1>1, <1>2, <1>3, <1>4

\* A service that was added altogether: its PTR comes with the other two.
LEMMA ServiceWhole ==
    ASSUME NEW g \in Groups, NEW n, NEW d, Whole(entries, g), Service(g, n, d).ok
    PROVE  Whole(Service(g, n, d).E, g)
<1>1. PICK a : a = Add(Begin, Entry(g, Rec("ptr", "type", n), FALSE, FALSE))
  OBVIOUS
<1>2. PICK b : b = Add(a, Entry(g, Rec("srv", n, d), TRUE, FALSE))
  OBVIOUS
<1>3. PICK c : c = Add(b, Entry(g, Rec("txt", n, d), TRUE, FALSE))
  OBVIOUS
<1>4. PICK x : x = Add(c, Entry(g, Rec("ptr", "enum", "type"), FALSE, FALSE))
  OBVIOUS
<1>5. x = Service(g, n, d) /\ x.ok
  BY <1>1, <1>2, <1>3, <1>4 DEF Service
<1>6. Begin.E = entries
  BY DEF Begin
<1>7. \A k, y, z, u, m : NewEntry(Entry(g, Rec(k, y, z), u, m), g)
  BY EntryIsNew
<1>8. /\ x.ok => c.ok /\ \E s : /\ x.E = c.E \cup {s} /\ s.group = g /\ ~s.dead
                                /\ s.rec = [key |-> <<"ptr", "enum">>, data |-> "type"]
      /\ c.ok => b.ok /\ \E s : /\ c.E = b.E \cup {s} /\ s.group = g /\ ~s.dead
                                /\ s.rec = [key |-> <<"txt", n>>, data |-> d]
      /\ b.ok => a.ok /\ \E s : /\ b.E = a.E \cup {s} /\ s.group = g /\ ~s.dead
                                /\ s.rec = [key |-> <<"srv", n>>, data |-> d]
      /\ a.ok => \E s : /\ a.E = entries \cup {s} /\ s.group = g /\ ~s.dead
                        /\ s.rec = [key |-> <<"ptr", "type">>, data |-> n]
  <2>1. PICK e : e = Entry(g, Rec("ptr", "enum", "type"), FALSE, FALSE)
    OBVIOUS
  <2>2. PICK f : f = Entry(g, Rec("txt", n, d), TRUE, FALSE)
    OBVIOUS
  <2>3. PICK h : h = Entry(g, Rec("srv", n, d), TRUE, FALSE)
    OBVIOUS
  <2>4. PICK i : i = Entry(g, Rec("ptr", "type", n), FALSE, FALSE)
    OBVIOUS
  <2>5. NewEntry(e, g) /\ NewEntry(f, g) /\ NewEntry(h, g) /\ NewEntry(i, g)
    BY <1>7, <2>1, <2>2, <2>3, <2>4
  <2>6. /\ e.rec = [key |-> <<"ptr", "enum">>, data |-> "type"]
        /\ f.rec = [key |-> <<"txt", n>>, data |-> d]
        /\ h.rec = [key |-> <<"srv", n>>, data |-> d]
        /\ i.rec = [key |-> <<"ptr", "type">>, data |-> n]
    BY <2>1, <2>2, <2>3, <2>4 DEF Entry, Rec
  <2>7. x = Add(c, e) /\ c = Add(b, f) /\ b = Add(a, h) /\ a = Add(Begin, i)
    BY <1>1, <1>2, <1>3, <1>4, <2>1, <2>2, <2>3, <2>4
  <2>8. ASSUME x.ok
         PROVE  c.ok /\ \E s : x.E = c.E \cup {s} /\ s.group = g /\ ~s.dead /\ s.rec = e.rec
    BY <2>5, <2>7, <2>8, Added
  <2>9. ASSUME c.ok
         PROVE  b.ok /\ \E s : c.E = b.E \cup {s} /\ s.group = g /\ ~s.dead /\ s.rec = f.rec
    BY <2>5, <2>7, <2>9, Added
  <2>10. ASSUME b.ok
         PROVE  a.ok /\ \E s : b.E = a.E \cup {s} /\ s.group = g /\ ~s.dead /\ s.rec = h.rec
    BY <2>5, <2>7, <2>10, Added
  <2>11. ASSUME a.ok
         PROVE  \E s : a.E = Begin.E \cup {s} /\ s.group = g /\ ~s.dead /\ s.rec = i.rec
    BY <2>5, <2>7, <2>11, Added
  <2> QED
    BY <1>6, <2>6, <2>8, <2>9, <2>10, <2>11
<1>9. PICK p, s, t, q :
         /\ x.E = entries \cup {p, s, t, q}
         /\ \A r \in {p, s, t, q} : r.group = g /\ ~r.dead
         /\ p.rec = [key |-> <<"ptr", "type">>, data |-> n]
         /\ s.rec = [key |-> <<"srv", n>>, data |-> d]
         /\ t.rec = [key |-> <<"txt", n>>, data |-> d]
         /\ q.rec = [key |-> <<"ptr", "enum">>, data |-> "type"]
  <2>1. PICK q : /\ x.E = c.E \cup {q} /\ q.group = g /\ ~q.dead
                 /\ q.rec = [key |-> <<"ptr", "enum">>, data |-> "type"]
    BY <1>5, <1>8
  <2>2. PICK t : /\ c.E = b.E \cup {t} /\ t.group = g /\ ~t.dead
                 /\ t.rec = [key |-> <<"txt", n>>, data |-> d]
    BY <1>5, <1>8
  <2>3. PICK s : /\ b.E = a.E \cup {s} /\ s.group = g /\ ~s.dead
                 /\ s.rec = [key |-> <<"srv", n>>, data |-> d]
    BY <1>5, <1>8
  <2>4. PICK p : /\ a.E = entries \cup {p} /\ p.group = g /\ ~p.dead
                 /\ p.rec = [key |-> <<"ptr", "type">>, data |-> n]
    BY <1>5, <1>8
  <2>5. x.E = entries \cup {p, s, t, q}
    BY <2>1, <2>2, <2>3, <2>4
  <2> QED
    BY <2>1, <2>2, <2>3, <2>4, <2>5
<1>10. Living(Of(x.E, g)) = Living(Of(entries, g)) \cup {p, s, t, q}
  BY <1>9 DEF Living, Of
<1>11. Whole(x.E, g)
  <2>1. PICK K : K = {f.rec.key : f \in Living(Of(x.E, g))}
    OBVIOUS
  <2>2. {<<"srv", n>>, <<"txt", n>>} \subseteq K
    BY <1>9, <1>10, <2>1
  <2>3. \A e \in Living(Of(entries, g)) : e.rec.key = PtrType =>
            {<<"srv", e.rec.data>>, <<"txt", e.rec.data>>} \subseteq K
    BY <1>10, <2>1 DEF Whole, PtrType
  <2>4. \A e \in Living(Of(x.E, g)) : e.rec.key = PtrType =>
            {<<"srv", e.rec.data>>, <<"txt", e.rec.data>>} \subseteq K
    BY <1>9, <1>10, <2>2, <2>3 DEF PtrType
  <2> QED
    BY <2>1, <2>4 DEF Whole, PtrType
<1> QED
  BY <1>5, <1>11

\* The calls that add: of g all or nothing, of others nothing that g has.
LEMMA CallsWhole ==
    ASSUME EntriesInv, NEW g, Whole(entries, g), NEW h \in Groups, NEW n, NEW d, NEW u,
           \/ AddService(h, n, d, u) \/ AddAddress(h, n) \/ AddDNSServer(h) \/ AddSubtype(h, n),
           ~(h = g /\ u = TRUE /\ AddService(h, n, d, u)), u \in BOOLEAN
    PROVE  Whole(entries', g)
<1>1. /\ Grown(Begin.E, h) /\ Begin.E = entries
      /\ \A a, k, y, z, v, m : Grown(a.E, h) => Grown(Add(a, Entry(h, Rec(k, y, z), v, m)).E, h)
  BY BeginGrown, AddGrows, EntryIsNew DEF Begin
<1>2. ASSUME h = g, NEW a, NEW k, NEW y, NEW z, NEW v, NEW m, Whole(a.E, g), <<k, y>> # PtrType
      PROVE  Whole(Add(a, Entry(h, Rec(k, y, z), v, m)).E, g)
  <2>1. PICK e : e = Entry(h, Rec(k, y, z), v, m)
    OBVIOUS
  <2>2. NewEntry(e, g) /\ e.rec.key = <<k, y>>
    BY <1>2, <2>1, EntryIsNew DEF Entry, Rec
  <2> QED
    BY <1>2, <2>1, <2>2, AddedWhole
<1>3. ASSUME NEW a, NEW keep, Adds(h, a, keep), Whole(a.E, g) PROVE Whole(entries', g)
  BY <1>3 DEF Adds
<1>4. CASE AddService(h, n, d, u)
  <2>1. CASE h # g
    <3>1. Grown(Service(h, n, d).E, h)
      BY <1>1 DEF Service
    <3> QED
      BY <1>3, <1>4, <2>1, <3>1, OthersWhole DEF AddService
  <2>2. CASE h = g
    <3>1. u = FALSE
      BY <1>4, <2>2
    <3>2. entries' = entries \/ (Service(g, n, d).ok /\ entries' = Service(g, n, d).E)
      BY <1>4, <2>2, <3>1 DEF AddService, Adds
    <3> QED
      BY <2>2, <3>2, ServiceWhole
  <2> QED
    BY <2>1, <2>2
<1>5. CASE AddAddress(h, n)
  <2>1. CASE h # g
    <3>1. Grown(Address(h, n).E, h)
      BY <1>1 DEF Address
    <3> QED
      BY <1>3, <1>5, <2>1, <3>1, OthersWhole DEF AddAddress
  <2>2. CASE h = g
    <3>1. Whole(Address(h, n).E, g)
      BY <1>1, <1>2, <2>2 DEF Address, PtrType
    <3> QED
      BY <1>3, <1>5, <3>1 DEF AddAddress
  <2> QED
    BY <2>1, <2>2
<1>6. CASE AddDNSServer(h)
  <2>1. CASE h # g
    <3>1. Grown(DNSServer(h).E, h)
      BY <1>1 DEF DNSServer
    <3> QED
      BY <1>3, <1>6, <2>1, <3>1, OthersWhole DEF AddDNSServer
  <2>2. CASE h = g
    <3>1. Whole(DNSServer(h).E, g)
      BY <1>1, <1>2, <2>2 DEF DNSServer, PtrType
    <3> QED
      BY <1>3, <1>6, <3>1 DEF AddDNSServer
  <2> QED
    BY <2>1, <2>2
<1>7. CASE AddSubtype(h, n)
  <2>1. PICK a : a = Add(Begin, Entry(h, Rec("ptr", "subtype", n), FALSE, FALSE))
    OBVIOUS
  <2>2. Whole(a.E, g)
    <3>1. CASE h # g
      BY <1>1, <2>1, <3>1, OthersWhole
    <3>2. CASE h = g
      BY <1>1, <1>2, <2>1, <3>2 DEF PtrType
    <3> QED
      BY <3>1, <3>2
  <2> QED
    BY <1>3, <1>7, <2>1, <2>2 DEF AddSubtype
<1> QED
  BY <1>4, <1>5, <1>6, <1>7

\* An update keeps the key of the record it changes.
LEMMA UpdateWhole ==
    ASSUME EntriesInv, NEW g, Whole(entries, g), NEW h \in Groups, NEW n, NEW t, UpdateTxt(h, n, t)
    PROVE  Whole(entries', g)
<1>1. PICK e \in Living(Of(entries, h)) :
          /\ e.rec.key = <<"txt", n>>
          /\ LET f == [e EXCEPT !.rec.data = t]
             IN  entries' = (entries \ {e}) \cup {Copy(entries \ {e}, f)}
  BY DEF UpdateTxt
<1>2. IsEntry(e) /\ e.group = h /\ ~e.dead /\ e \in entries
  BY DEF EntriesInv, Living, Of
<1>3. PICK f : f = [e EXCEPT !.rec.data = t]
  OBVIOUS
<1>4. IsEntry(f) /\ f.rec.key = e.rec.key /\ f.group = h /\ ~f.dead
  <2>1. f = [rec |-> [key |-> e.rec.key, data |-> t], group |-> e.group, uniq |-> e.uniq,
             multi |-> e.multi, dead |-> e.dead, n |-> e.n]
    BY <1>2, <1>3 DEF IsEntry
  <2> QED
    BY <1>2, <2>1 DEF IsEntry
<1>5. PICK c : c = Copy(entries \ {e}, f)
  OBVIOUS
<1>6. c.rec.key = e.rec.key /\ c.group = h /\ ~c.dead
  BY <1>4, <1>5, CopyFacts
<1>7. entries' = (entries \ {e}) \cup {c}
  BY <1>1, <1>3, <1>5
<1>8. CASE h # g
  <2>1. Living(Of(entries', g)) = Living(Of(entries, g))
    BY <1>2, <1>6, <1>7, <1>8 DEF Living, Of
  <2> QED
    BY <2>1, SameWhole
<1>9. CASE h = g
  <2>1. PICK mine : mine = Living(Of(entries, g))
    OBVIOUS
  <2>2. Living(Of(entries', g)) = (mine \ {e}) \cup {c} /\ e \in mine
    BY <1>2, <1>6, <1>7, <1>9, <2>1 DEF Living, Of
  <2>3. {x.rec.key : x \in (mine \ {e}) \cup {c}} = {x.rec.key : x \in mine}
    BY <1>6, <2>2
  <2>4. \A x \in (mine \ {e}) \cup {c} : x.rec.key = PtrType => x \in mine
    BY <1>1, <1>6 DEF PtrType
  <2> QED
    BY <2>1, <2>2, <2>3, <2>4 DEF Whole, PtrType
<1> QED
  BY <1>8, <1>9

LEMMA WholeStep ==
    ASSUME ZoneInv, [ZoneNext]_zoneVars, NEW g \in Groups, Whole(entries, g)
    PROVE  Whole(entries', g) \/ OnlyUpdates(g)
<1>0. EntriesInv
  BY DEF ZoneInv
<1>1. ASSUME entries' = entries PROVE Whole(entries', g)
  BY <1>1
<1>2. ASSUME NEW h \in Groups, GroupReset(h) \/ GroupFree(h) \/ Collide(h) PROVE Whole(entries', g)
  <2>1. entries' = Buried(h)
    BY <1>2 DEF GroupReset, GroupFree, Collide
  <2>2. Living(entries') = {e \in Living(entries) : e.group # h}
    BY <1>0, <2>1, BuriedFacts DEF EntriesInv
  <2>3. Living(Of(entries', g)) = IF h = g THEN {} ELSE Living(Of(entries, g))
    BY <2>2 DEF Living, Of
  <2> QED
    BY <2>3, SameWhole DEF Whole
<1>3. ASSUME NEW h \in Groups, NEW n, NEW d, NEW u \in BOOLEAN,
             \/ AddService(h, n, d, u) \/ AddAddress(h, n) \/ AddDNSServer(h) \/ AddSubtype(h, n),
             ~(h = g /\ u = TRUE /\ AddService(h, n, d, u))
      PROVE  Whole(entries', g)
  BY <1>0, <1>3, CallsWhole
<1>4. ASSUME NEW h \in Groups, NEW n, NEW t, UpdateTxt(h, n, t) PROVE Whole(entries', g)
  BY <1>0, <1>4, UpdateWhole
<1>5. CASE CleanupDead
  <2>1. Living(Of(entries', g)) = Living(Of(entries, g))
    BY <1>5 DEF CleanupDead, Living, Of
  <2> QED
    BY <2>1, SameWhole
<1>6. ASSUME NEW h \in Groups, GroupNew(h) \/ GroupCommit(h) \/ RegisterTimer(h) \/ Establish(h)
      PROVE  entries' = entries
  BY <1>6 DEF GroupNew, GroupCommit, RegisterTimer, Establish
<1>7. Tick \/ UNCHANGED zoneVars => entries' = entries
  BY DEF Tick, zoneVars
<1>8. ASSUME NEW h \in Groups, NEW n \in Names, AddAddress(h, n) \/ AddSubtype(h, n) PROVE Whole(entries', g)
  <2>1. CASE AddService(h, n, n, FALSE)
    BY <1>3, <2>1
  <2> QED
    BY <1>3, <1>8
<1>9. ASSUME NEW h \in Groups, AddDNSServer(h) PROVE Whole(entries', g)
  BY <1>3, <1>9
<1>10. ASSUME NEW h \in Groups, NEW n \in Names, NEW d \in Data, NEW u \in BOOLEAN, AddService(h, n, d, u)
       PROVE  Whole(entries', g) \/ OnlyUpdates(g)
  <2>1. CASE h = g /\ u = TRUE /\ ~AddService(g, n, d, FALSE)
    BY <1>10, <2>1 DEF OnlyUpdates
  <2>2. CASE h = g /\ AddService(g, n, d, FALSE)
    BY <1>3, <2>2
  <2>3. CASE ~(h = g /\ u = TRUE)
    BY <1>3, <1>10, <2>3
  <2> QED
    BY <2>1, <2>2, <2>3
<1> QED
  BY <1>1, <1>2, <1>4, <1>5, <1>6, <1>7, <1>8, <1>9, <1>10 DEF ZoneNext

(* Services stay whole through every failure, update, reset and collision; only a failed
   call with UPDATE may leave part of one (entry.c:614-680).                             *)
THEOREM ServicesStayWhole == ZoneSpec => ServicesWhole
<1>1. ZoneInv /\ [ZoneNext]_zoneVars => ZoneInv'
  BY ZoneStep
<1>2. ZoneInv /\ [ZoneNext]_zoneVars =>
        [\A g \in Groups : Whole(entries, g) => Whole(entries', g) \/ OnlyUpdates(g)]_zoneVars
  BY WholeStep
<1> QED
  BY <1>1, <1>2, ZoneStarts, PTL DEF ZoneSpec, ServicesWhole

=============================================================================
