------------------------------ MODULE EventLoop ------------------------------
(***************************************************************************)
(* The poll loop of avahi-common (simple-watch.c) run by a thread of its   *)
(* own (thread-watch.c), which holds the mutex except in poll(), and the   *)
(* main thread, which takes the mutex to change watches and timeouts.      *)
(* Callbacks change them, too.                                             *)
(***************************************************************************)
EXTENDS Integers, Sequences, Functions

CONSTANTS Watches, Timeouts

ASSUME LoopAssumption == Watches \cap Timeouts = {} /\ {"none", "quit"} \cap (Watches \cup Timeouts) = {}

VARIABLES
    loop,      \* where the thread is (AvahiSimplePoll.state): see LoopTypeOK
    mutex,     \* AvahiThreadedPoll.mutex: who holds it
    main,      \* the main thread: "idle", "locked", "stopping" or "joining"
    running,   \* thread_running
    list,      \* watches, the newest first, dead ones included
    dead,      \* what has been freed and not yet been destroyed
    events,    \* the watches that wait for an event (pollfd.events # 0)
    fds,       \* pollfds, from 1 on: [w, on: events, re: revents]; place 0 is the pipe
    idx,       \* AvahiWatch.idx; 0 for -1
    timeout,     \* the timeouts: "none", "off" (not enabled), "later" or "due"
    flags,     \* what of rebuild_pollfds, watch_req_cleanup, timeout_req_cleanup, quit is set
    pipe,      \* a byte waits in wakeup_pipe, and wakeup_issued is set
    sleep,     \* prepared_timeout: "now", "soon" or "forever"
    called     \* whose callback runs, or "none"

threadVars == <<loop, mutex, main, running>>
objVars == <<list, dead, events, fds, idx, timeout, flags, pipe>>
loopVars == <<threadVars, objVars, sleep, called>>

LiveWatches == {w \in Watches : w \in Range(list)} \ dead
LiveTimeouts == {t \in Timeouts : timeout[t] # "none"} \ dead

LoopInit ==
    /\ loop = "init" /\ mutex = "none" /\ main = "idle" /\ running = FALSE
    /\ list = <<>> /\ dead = {} /\ events = {} /\ fds = <<>> /\ idx = [w \in Watches |-> 0]
    /\ timeout = [t \in Timeouts |-> "none"] /\ flags = {"rebuild"} /\ pipe = TRUE
    /\ sleep = "now" /\ called = "none"

-----------------------------------------------------------------------------
(* The calls of AvahiPoll: by the main thread, which has the mutex or no other thread
   runs, or by a callback.                                                             *)
Entitled == main = "locked" \/ (main = "idle" /\ ~running) \/ loop = "callback"

Call == Entitled /\ loop # "aborted" /\ pipe' = TRUE /\ UNCHANGED <<threadVars, sleep, called>>

(* watch_new *)
WatchNew(w) ==
    /\ Call /\ w \notin Range(list)
    /\ list' = <<w>> \o list /\ events' = events \cup {w} /\ idx' = [idx EXCEPT ![w] = 0]
    /\ flags' = flags \cup {"rebuild"}
    /\ UNCHANGED <<dead, fds, timeout>>

(* watch_update *)
WatchUpdate(w, on) ==
    /\ Call /\ w \in LiveWatches
    /\ events' = IF on THEN events \cup {w} ELSE events \ {w}
    /\ IF idx[w] # 0
         THEN fds' = [fds EXCEPT ![idx[w]] = [w |-> w, on |-> on, re |-> FALSE]] /\ UNCHANGED flags
         ELSE flags' = flags \cup {"rebuild"} /\ UNCHANGED fds
    /\ UNCHANGED <<list, dead, idx, timeout>>

(* watch_free *)
WatchFree(w) ==
    /\ Call /\ w \in LiveWatches
    /\ dead' = dead \cup {w}
    /\ flags' = flags \cup {"watches"} \cup (IF idx[w] # 0 THEN {"rebuild"} ELSE {})
    /\ UNCHANGED <<list, events, fds, idx, timeout>>

(* timeout_new *)
TimeoutNew(t, when) ==
    /\ Call /\ timeout[t] = "none"
    /\ timeout' = [timeout EXCEPT ![t] = when]
    /\ UNCHANGED <<list, dead, events, fds, idx, flags>>

(* timeout_update *)
TimeoutUpdate(t, when) ==
    /\ Call /\ t \in LiveTimeouts
    /\ timeout' = [timeout EXCEPT ![t] = when]
    /\ UNCHANGED <<list, dead, events, fds, idx, flags>>

(* timeout_free *)
TimeoutFree(t) ==
    /\ Call /\ t \in LiveTimeouts
    /\ dead' = dead \cup {t} /\ flags' = flags \cup {"timeouts"}
    /\ UNCHANGED <<list, events, fds, idx, timeout>>

(* avahi_threaded_poll_quit, from a callback *)
Quit ==
    /\ Call /\ loop = "callback"
    /\ flags' = flags \cup {"quit"}
    /\ UNCHANGED <<list, dead, events, fds, idx, timeout>>

-----------------------------------------------------------------------------
(* avahi_threaded_poll_start *)
LoopStart ==
    /\ main = "idle" /\ ~running /\ loop # "aborted"
    /\ running' = TRUE /\ loop' = IF loop = "quit" THEN "again" ELSE "ready"
    /\ UNCHANGED <<mutex, main, objVars, sleep, called>>

(* avahi_threaded_poll_lock, avahi_threaded_poll_unlock *)
Lock == main = "idle" /\ running /\ mutex = "none" /\ mutex' = "main" /\ main' = "locked" /\ UNCHANGED <<loop, running, objVars, sleep, called>>
Unlock == main = "locked" /\ mutex' = "none" /\ main' = "idle" /\ UNCHANGED <<loop, running, objVars, sleep, called>>

(* avahi_threaded_poll_stop: waits for the mutex; the loop is asked to quit; the thread is joined *)
LoopStop == main = "idle" /\ running /\ main' = "stopping" /\ UNCHANGED <<loop, mutex, running, objVars, sleep, called>>

AskToQuit ==
    /\ main = "stopping" /\ mutex = "none"
    /\ main' = "joining" /\ flags' = flags \cup {"quit"} /\ pipe' = TRUE
    /\ UNCHANGED <<loop, mutex, running, list, dead, events, fds, idx, timeout, sleep, called>>

JoinThread == main = "joining" /\ loop = "quit" /\ mutex = "none" /\ main' = "idle" /\ running' = FALSE /\ UNCHANGED <<loop, mutex, objVars, sleep, called>>

-----------------------------------------------------------------------------
(* cleanup_watches: it takes back timeout_req_cleanup, and not its own flag. *)
WatchesGone == IF "watches" \in flags THEN dead \cap Watches ELSE {}

(* cleanup_timeouts, which comes after *)
TimeoutsGone == IF "timeouts" \in flags /\ "watches" \notin flags THEN dead \cap Timeouts ELSE {}

(* The list q without what is in D: a function on the lengths of its beginnings. *)
Keep(q, D) ==
    LET f[i \in 0..Len(q)] == IF i = 0 THEN <<>>
                              ELSE IF q[i] \in D THEN f[i - 1] ELSE Append(f[i - 1], q[i])
    IN  f[Len(q)]

(* rebuild: the watches that live, in the order of the list l *)
Rebuild(l) ==
    LET live == Keep(l, dead)
    IN  [i \in 1..Len(live) |-> [w |-> live[i], on |-> live[i] \in events, re |-> FALSE]]

(* avahi_simple_poll_prepare *)
Prepare ==
    LET gone == WatchesGone \cup TimeoutsGone
        left == flags \ {"timeouts"}
        l == Keep(list, gone)
    IN  /\ loop = "ready" /\ mutex \in {"none", "loop"}
        /\ pipe' = FALSE /\ list' = l /\ dead' = dead \ gone
        /\ events' = events \ gone
        /\ timeout' = [t \in Timeouts |-> IF t \in gone THEN "none" ELSE timeout[t]]
        /\ IF "quit" \in flags
             THEN loop' = "quit" /\ flags' = left /\ UNCHANGED <<fds, idx, sleep>>
             ELSE /\ loop' = "poll" /\ flags' = left \ {"rebuild"}
                  /\ IF "rebuild" \in flags
                       THEN /\ fds' = Rebuild(l)
                            /\ idx' = [w \in Watches |->
                                  IF \E i \in DOMAIN fds' : fds'[i].w = w
                                  THEN CHOOSE i \in DOMAIN fds' : fds'[i].w = w ELSE IF w \in Range(l) THEN idx[w] ELSE 0]
                       ELSE fds' = fds /\ idx' = [w \in Watches |-> IF w \in Range(l) THEN idx[w] ELSE 0]
                  /\ LET waits == {timeout[t] : t \in LiveTimeouts \ gone}
                     IN  sleep' = IF "due" \in waits THEN "now" ELSE IF "later" \in waits THEN "soon" ELSE "forever"
        /\ mutex' = "none"
        /\ UNCHANGED <<main, running, called>>

(* avahi_simple_poll_prepare's assertion: a loop that has quit is not run again. *)
PrepareAgain == loop = "again" /\ loop' = "aborted" /\ UNCHANGED <<mutex, main, running, objVars, sleep, called>>

(* poll() returns in poll_func, with the mutex unlocked: the watches of came have an event. *)
PollReturns(came) ==
    /\ loop = "poll" /\ loop' = "woken"
    /\ fds' = [i \in DOMAIN fds |-> [fds[i] EXCEPT !.re = fds[i].w \in came]]
    /\ UNCHANGED <<mutex, main, running, list, dead, events, idx, timeout, flags, pipe, sleep, called>>

(* Any watch may have an event: poll() asks for what was wanted when it started,
   and POLLERR and POLLHUP come to a watch that wants nothing.                   *)
Polled == {fds[i].w : i \in DOMAIN fds}
SomethingCame == \E came \in SUBSET Polled : came # {} /\ PollReturns(came)
WokenUp == (pipe \/ sleep # "forever") /\ \E came \in SUBSET Polled : PollReturns(came)

(* poll_func takes the mutex again; the events are valid. *)
Relock ==
    /\ loop = "woken" /\ mutex = "none"
    /\ mutex' = "loop" /\ loop' = "ran"
    /\ UNCHANGED <<main, running, objVars, sleep, called>>

(* The places of the watches avahi_simple_poll_dispatch looks at. *)
Candidates == {i \in DOMAIN list : list[i] \notin dead}
Ready(w) == idx[w] # 0 /\ fds[idx[w]].re

(* find_next_timeout, when its time has come *)
Due == {t \in LiveTimeouts : timeout[t] = "due"}

(* Mistake: one that is dead is called as well. *)
DispatchDead ==
    /\ loop = "ran"
    /\ \E i \in DOMAIN list : Ready(list[i]) /\ called' = list[i]
    /\ loop' = "callback"
    /\ UNCHANGED <<mutex, main, running, objVars, sleep>>

(* avahi_simple_poll_dispatch: one callback, of a timeout first *)
Dispatch ==
    /\ loop = "ran"
    /\ \/ \E t \in Due :
            /\ timeout' = [timeout EXCEPT ![t] = "off"]
            /\ called' = t /\ loop' = "callback"
       \/ /\ Due = {}
          /\ \E i \in Candidates :
               /\ \A j \in Candidates : j < i => idx[list[j]] # 0 /\ ~Ready(list[j])
               /\ \/ idx[list[i]] = 0 /\ loop' = "aborted" /\ UNCHANGED called
                  \/ Ready(list[i]) /\ loop' = "callback" /\ called' = list[i]
          /\ UNCHANGED timeout
       \/ /\ Due = {}
          /\ \A i \in Candidates : idx[list[i]] # 0 /\ ~Ready(list[i])
          /\ loop' = "ready" /\ UNCHANGED <<called, timeout>>
    /\ UNCHANGED <<mutex, main, running, list, dead, events, fds, idx, flags, pipe, sleep>>

(* A callback returns. *)
Return ==
    /\ loop = "callback" /\ loop' = "ready" /\ called' = "none"
    /\ UNCHANGED <<mutex, main, running, objVars, sleep>>

(* The time of a timeout comes. *)
Elapse(t) == timeout[t] = "later" /\ timeout' = [timeout EXCEPT ![t] = "due"] /\ UNCHANGED <<threadVars, list, dead, events, fds, idx, flags, pipe, sleep, called>>

Waits == {"off", "later", "due"}
LoopNext ==
    \/ \E w \in Watches : WatchNew(w) \/ WatchFree(w) \/ \E on \in BOOLEAN : WatchUpdate(w, on)
    \/ \E t \in Timeouts : TimeoutFree(t) \/ Elapse(t) \/ \E when \in Waits : TimeoutNew(t, when) \/ TimeoutUpdate(t, when)
    \/ Quit \/ LoopStart \/ Lock \/ Unlock \/ LoopStop \/ AskToQuit \/ JoinThread
    \/ Prepare \/ PrepareAgain \/ SomethingCame \/ WokenUp \/ Relock \/ Dispatch \/ Return

(* The thread goes on, a thread that waits for the mutex gets it in the end, and a thread
   that holds it gives it back.                                                           *)
LoopFairness ==
    /\ SF_loopVars(Prepare) /\ WF_loopVars(PrepareAgain) /\ WF_loopVars(WokenUp) /\ WF_loopVars(Dispatch) /\ WF_loopVars(Return)
    /\ SF_loopVars(Relock) /\ SF_loopVars(AskToQuit) /\ WF_loopVars(Unlock) /\ WF_loopVars(JoinThread)

LoopSpec == LoopInit /\ [][LoopNext]_loopVars /\ LoopFairness

-----------------------------------------------------------------------------
(* Type correctness; the mutex is the thread's when it is not in poll() or waiting for it. *)
LoopTypeOK ==
    /\ loop \in {"init", "ready", "again", "poll", "woken", "ran", "callback", "quit", "aborted"}
    /\ mutex \in {"none", "main", "loop"} /\ (mutex = "main" <=> main = "locked")
    /\ main \in {"idle", "locked", "stopping", "joining"} /\ running \in BOOLEAN
    /\ list \in Seq(Watches) /\ dead \subseteq Range(list) \cup Timeouts /\ events \subseteq Range(list)
    /\ fds \in Seq([w : Watches, on : BOOLEAN, re : BOOLEAN]) /\ idx \in [Watches -> 0..Len(fds)]
    /\ \A w \in LiveWatches : idx[w] # 0 => fds[idx[w]].w = w
    /\ timeout \in [Timeouts -> {"none"} \cup Waits] /\ pipe \in BOOLEAN
    /\ flags \subseteq {"rebuild", "watches", "timeouts", "quit"} /\ sleep \in {"now", "soon", "forever"}
    /\ called \in {"none"} \cup Watches \cup Timeouts
    /\ (loop \in {"ran", "callback"} => mutex = "loop") /\ (mutex = "loop" => loop \in {"ran", "callback", "ready", "aborted"})

(* The thread never sleeps on what was true before: if no byte waits in the pipe, poll()
   looks at the watches that live with the events they have, and no longer than until
   the next timeout.                                                                       *)
PollIsCurrent ==
    (loop = "poll" /\ ~pipe) =>
        /\ {[w |-> fds[i].w, on |-> fds[i].on] : i \in DOMAIN fds} = {[w |-> w, on |-> w \in events] : w \in LiveWatches}
        /\ \A t \in LiveTimeouts : timeout[t] \in {"later", "due"} => sleep # "forever"

(* What has been freed is not called any more, by whichever thread it was freed and
   whatever poll() had reported for it.                                                *)
FreedNotCalled == [][(called' # called /\ called' # "none") => called' \notin dead]_loopVars

(* avahi_threaded_poll_stop returns, unless an assertion has failed. *)
StopReturns == (main = "stopping") ~> (main = "idle" \/ loop = "aborted")

(* A timeout that is due is called, while the thread runs, or is changed or freed. *)
DueIsCalled == \A t \in Timeouts :
    (running /\ t \in LiveTimeouts /\ timeout[t] = "due")
        ~> (timeout[t] # "due" \/ t \in dead \/ loop \in {"quit", "again", "aborted"} \/ ~running)

(* avahi_simple_poll_dispatch asserts that each watch it looks at has a place in pollfds. *)
WatchesArePlaced == loop = "ran" => \A i \in Candidates : idx[list[i]] # 0

(* The thread looks at what is current, and calls nothing that has been freed. *)
LoopSafe == [](LoopTypeOK /\ PollIsCurrent) /\ FreedNotCalled

=============================================================================
