----------------------------- MODULE TimeEvents -----------------------------
(***************************************************************************)
(* The time events of an avahi server (timeeventq.c) in their priority     *)
(* queue (prioq.c), woken by the one timer the Qt adapter gives them       *)
(* (AvahiTimeout, qt-watch.cpp).  Time is counted in halves of the         *)
(* millisecond the Qt timer is set in.                                     *)
(***************************************************************************)
EXTENDS Integers, Sequences, FiniteSets

CONSTANTS
    Events,
    MaxTime      \* bound: the clock stops there

ASSUME TimeAssumption == MaxTime \in Nat /\ IsFiniteSet(Events)

VARIABLES
    heap,     \* the queue: the node at (x, y) is the (2^y + x)-th
    expiry,   \* AvahiTimeEvent.expiry
    lastRun,  \* AvahiTimeEvent.last_run, as a rank: 0 never, greater is later
    now,      \* gettimeofday()
    timer,    \* when AvahiTimeout.m_timer fires; -1 when it is stopped
    ran,      \* the event whose callback ran in the last step, or "none"
    turn      \* alternates with each call of expiration_event

timeVars == <<heap, expiry, lastRun, now, timer, ran, turn>>

Queued == {heap[i] : i \in DOMAIN heap}

-----------------------------------------------------------------------------
(* Mistake: of two events for one time neither comes first. *)
BeforeByExpiry(ex, lr, a, b) == ex[a] < ex[b]

(* compare(a, b) < 0 *)
Before(ex, lr, a, b) == ex[a] < ex[b] \/ (ex[a] = ex[b] /\ lr[a] < lr[b])

(* exchange_nodes: two nodes take each other's place, links and neighbours. *)
Exchange(h, i, j) == [h EXCEPT ![i] = h[j], ![j] = h[i]]

(* avahi_prio_queue_shuffle, a step from queue p[1] with the node at p[2]: up, while it
   comes before its parent                                                               *)
Raise(p, ex, lr) ==
    LET i == p[2]
    IN  IF i > 1 /\ Before(ex, lr, p[1][i], p[1][i \div 2])
          THEN <<Exchange(p[1], i, i \div 2), i \div 2>> ELSE p

(* down, while its lesser child comes before it *)
Lesser(h, ex, lr, i) ==
    IF 2 * i + 1 <= Len(h) /\ Before(ex, lr, h[2 * i + 1], h[2 * i]) THEN 2 * i + 1 ELSE 2 * i

Sink(p, ex, lr) ==
    LET i == p[2]
        c == Lesser(p[1], ex, lr, i)
    IN  IF 2 * i <= Len(p[1]) /\ Before(ex, lr, p[1][c], p[1][i])
          THEN <<Exchange(p[1], i, c), c>> ELSE p

(* up, then down: no more steps are left to go than there are nodes *)
Up(h, ex, lr, i) ==
    LET f[n \in 0..Len(h)] == IF n = 0 THEN <<h, i>> ELSE Raise(f[n - 1], ex, lr)
    IN  f[Len(h)]

Down(p, ex, lr) ==
    LET f[n \in 0..Len(p[1])] == IF n = 0 THEN p ELSE Sink(f[n - 1], ex, lr)
    IN  f[Len(p[1])]

Shuffle(h, ex, lr, i) == Down(Up(h, ex, lr, i), ex, lr)[1]

(* avahi_prio_queue_put: behind the last node *)
Put(h, ex, lr, e) == Shuffle(Append(h, e), ex, lr, Len(h) + 1)

(* avahi_prio_queue_remove: the last node takes the place of the node at i *)
Take(h, ex, lr, i) ==
    LET rest == SubSeq(Exchange(h, i, Len(h)), 1, Len(h) - 1)
    IN  IF i = Len(h) THEN rest ELSE Shuffle(rest, ex, lr, i)

Place(h, e) == CHOOSE i \in DOMAIN h : h[i] = e

(* AvahiTimeout::update: whole milliseconds, rounded down *)
SetTimer(t) == IF t <= now THEN now ELSE now + 2 * ((t - now) \div 2)

(* Mistake: the timer that is set is kept for an event that comes earlier. *)
KeepTimer(h, ex) == IF h = <<>> THEN -1 ELSE IF timer # -1 THEN timer ELSE SetTimer(ex[h[1]])

(* update_timeout *)
UpdateTimeout(h, ex) == IF h = <<>> THEN -1 ELSE SetTimer(ex[h[1]])

-----------------------------------------------------------------------------
TimeInit ==
    /\ heap = <<>> /\ expiry = [e \in Events |-> 0] /\ lastRun = [e \in Events |-> 0]
    /\ now = 0 /\ timer = -1 /\ ran = "none" /\ turn = FALSE

(* avahi_time_event_new *)
TimeEventNew(e, t) ==
    /\ e \notin Queued
    /\ expiry' = [expiry EXCEPT ![e] = t] /\ lastRun' = [lastRun EXCEPT ![e] = 0]
    /\ heap' = Put(heap, expiry', lastRun', e)
    /\ timer' = UpdateTimeout(heap', expiry') /\ ran' = "none"
    /\ UNCHANGED <<now, turn>>

(* avahi_time_event_free *)
TimeEventFree(e) ==
    /\ e \in Queued
    /\ heap' = Take(heap, expiry, lastRun, Place(heap, e))
    /\ timer' = UpdateTimeout(heap', expiry) /\ ran' = "none"
    /\ UNCHANGED <<expiry, lastRun, now, turn>>

(* avahi_time_event_update *)
TimeEventUpdate(e, t) ==
    /\ e \in Queued
    /\ expiry' = [expiry EXCEPT ![e] = t]
    /\ heap' = Shuffle(heap, expiry', lastRun, Place(heap, e))
    /\ timer' = UpdateTimeout(heap', expiry') /\ ran' = "none"
    /\ UNCHANGED <<lastRun, now, turn>>

(* e is the one that ran last; the ranks stay dense. *)
RunLast(e) ==
    LET lr == [lastRun EXCEPT ![e] = Cardinality(Events) + 1]
        ranks == {lr[o] : o \in Events} \ {0}
    IN  [o \in Events |-> IF lr[o] = 0 THEN 0 ELSE Cardinality({r \in ranks : r <= lr[o]})]

(* The Qt timer has run out. *)
Fires == timer # -1 /\ timer <= now /\ turn' = ~turn

(* expiration_event.  The Qt timer is rounded down: nothing may have expired.  A
   callback frees its event or sets it for a time that has not passed (every callback
   of avahi-core does); what else it does are steps of their own.                      *)
ExpirationEvent ==
    /\ Fires
    /\ IF heap = <<>> \/ now < expiry[heap[1]]
         THEN ran' = "none" /\ UNCHANGED <<heap, expiry, lastRun>>
         ELSE LET e == heap[1]
                  lr == RunLast(e)
                  h == Shuffle(heap, expiry, lr, 1)
              IN  /\ lastRun' = lr /\ ran' = e
                  /\ \/ \E t \in now..MaxTime :
                          /\ expiry' = [expiry EXCEPT ![e] = t]
                          /\ heap' = Shuffle(h, expiry', lr, Place(h, e))
                     \/ heap' = Take(h, expiry, lr, Place(h, e)) /\ UNCHANGED expiry
    /\ timer' = UpdateTimeout(heap', expiry')
    /\ UNCHANGED now

(* Half a millisecond passes. *)
Clock == now < MaxTime /\ now' = now + 1 /\ ran' = "none" /\ UNCHANGED <<heap, expiry, lastRun, timer, turn>>

TimeNext ==
    \/ \E e \in Events : TimeEventFree(e) \/ \E t \in 0..MaxTime : TimeEventNew(e, t) \/ TimeEventUpdate(e, t)
    \/ ExpirationEvent \/ Clock

(* Qt fires a timer that is due, and time passes.  (Fires is what enables
   expiration_event, and no other action is a step of it.)             *)
TimeFairness == WF_turn(Fires) /\ WF_now(now < MaxTime /\ now' = now + 1)

TimeSpec == TimeInit /\ [][TimeNext]_timeVars /\ TimeFairness

-----------------------------------------------------------------------------
(* Type correctness: every event is in the queue at most once. *)
TimeTypeOK ==
    /\ heap \in Seq(Events) /\ \A i, j \in DOMAIN heap : heap[i] = heap[j] => i = j
    /\ expiry \in [Events -> 0..MaxTime] /\ lastRun \in [Events -> 0..Cardinality(Events)]
    /\ now \in 0..MaxTime /\ timer \in -1..MaxTime /\ ran \in Events \cup {"none"} /\ turn \in BOOLEAN

(* Whatever is put, removed or set for another time, and in whatever order, no node of
   the queue comes before its parent: the root is the next event.                       *)
HeapOrdered == \A i \in DOMAIN heap : i > 1 => ~Before(expiry, lastRun, heap[i], heap[i \div 2])

(* While an event waits the timer is set, and for no later than the first of them. *)
TimerInTime == \A e \in Queued : timer # -1 /\ (timer <= expiry[e] \/ timer <= now)

(* What runs has expired, and nothing that waits expired before it. *)
EarliestRuns == [][ran' # "none" => /\ expiry[ran'] <= now
                                    /\ \A e \in Queued : expiry[ran'] <= expiry[e]]_timeVars

(* No event starves: one that is due runs, unless it is freed or set for another time or
   others are put before it (set for an earlier time, or for its own and never run yet),
   however often the callbacks of others set their events for now.                        *)
DueRuns == \A e \in Events :
    (e \in Queued /\ expiry[e] <= now)
        ~> \/ ran = e \/ e \notin Queued \/ expiry[e] > now
           \/ \E o \in Queued \ {e} : expiry[o] < expiry[e] \/ (expiry[o] = expiry[e] /\ lastRun[o] = 0)

(* The queue is a heap with every event once, and the timer is in time for it. *)
TimeSafe == TimeTypeOK /\ HeapOrdered /\ TimerInTime

=============================================================================
