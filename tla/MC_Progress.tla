------------------------------ MODULE MC_Progress ------------------------------
(***************************************************************************)
(* What must happen in the end, in six parts side by side: time events,   *)
(* the main loop, entry groups, responses, the interfaces' dumps and the   *)
(* host name's records; and three small ones: the messages of the host,    *)
(* the file of tokens and the registration over Bonjour.  Only one part    *)
(* moves in a behaviour; the others rest where none of their fair actions  *)
(* is enabled.                                                             *)
(***************************************************************************)
EXTENDS PassThruMsgs, TokenStore, BonjourPublisher,
        TimeEvents, EventLoop, EntryGroups, Responding, Interfaces, HostRecords

CONSTANTS a1, a2, a3

MCAddresses == <<a1, a2, a3>>
MCInterfaces == [k \in Groups |-> IF k = "g1" THEN 0 ELSE 1]
MCAuxOf == [z \in Zone |-> IF z = "ptr" THEN {"srv"} \intersect Zone ELSE {}]

\* Messages shorter than a header, with no more than one, and as long as Data; and those
\* of the device: one byte less than a header, a header, one more than Data.
MCFields == [protocol |-> 1, time |-> 2, rx |-> 3, tx |-> 4, extra |-> 5]
NoMCFields == [protocol |-> 0, time |-> 0, rx |-> 0, tx |-> 0, extra |-> 0]
MCHostMsgs == [size : {2}, data : {<<1, 2, 3, 4, 0, 6>>}, fields : {MCFields}]
    \union [size : {4, 6}, data : {<<1, 2, 3, 4, 5, 6>>}, fields : {MCFields}]
MCDeviceMsgs == [header : {<<7, 7, 7>>}, data : {<<>>, <<8>>, <<8, 8, 8, 8>>}, fields : {NoMCFields}]

MCTokensOf == [k \in TokenKeys |-> IF k = "d1" THEN {"t1", "t2"} ELSE {"u1"}]

VARIABLE part

otherVars == <<msgsVars, storeVars, publisherVars>>
progressVars == <<part, otherVars, timeVars, loopVars, zoneVars, respVars, wireVars, hostVars>>

TimeRests ==
    /\ heap = <<>> /\ expiry = [e \in Events |-> 0] /\ lastRun = [e \in Events |-> 0]
    /\ now = MaxTime /\ timer = -1 /\ ran = "none" /\ turn = FALSE

ZoneRests ==
    /\ entries = {} /\ group = [k \in Groups |-> [NoGroup EXCEPT !.est = Young + 1]]
    /\ cleanup = FALSE /\ peers = {} /\ updated = {} /\ adds = 0

WiresRest ==
    /\ kernel = [w \in Wires |-> NoLink] /\ churn = MaxChurn /\ dump = {} /\ queue = <<>>
    /\ listing = "done" /\ ifs = [w \in Wires |-> NoIf] /\ refused = FALSE

ProgressInit ==
    /\ part \in {"messages", "tokens", "publisher", "time", "loop", "groups", "responses", "interfaces", "host"}
    /\ MsgsInit /\ StoreInit /\ PublisherInit
    /\ LoopInit /\ RespInit /\ HostInit
    /\ IF part = "time" THEN TimeInit ELSE TimeRests
    /\ IF part = "groups" THEN ZoneInit ELSE ZoneRests
    /\ IF part = "interfaces" THEN IfInit ELSE WiresRest

ProgressNext ==
    /\ part' = part
    /\ \/ /\ UNCHANGED <<timeVars, loopVars, zoneVars, respVars, wireVars, hostVars>>
          /\ \/ part = "messages" /\ MsgsNext /\ UNCHANGED <<storeVars, publisherVars>>
             \/ part = "tokens" /\ StoreNext /\ UNCHANGED <<msgsVars, publisherVars>>
             \/ part = "publisher" /\ PublisherNext /\ UNCHANGED <<msgsVars, storeVars>>
       \/ part = "time" /\ TimeNext /\ UNCHANGED <<otherVars, loopVars, zoneVars, respVars, wireVars, hostVars>>
       \/ part = "loop" /\ LoopNext /\ UNCHANGED <<otherVars, timeVars, zoneVars, respVars, wireVars, hostVars>>
       \/ part = "groups" /\ ZoneNext /\ UNCHANGED <<otherVars, timeVars, loopVars, respVars, wireVars, hostVars>>
       \/ part = "responses" /\ RespNext /\ UNCHANGED <<otherVars, timeVars, loopVars, zoneVars, wireVars, hostVars>>
       \/ part = "interfaces" /\ IfNext /\ UNCHANGED <<otherVars, timeVars, loopVars, zoneVars, respVars, hostVars>>
       \/ part = "host" /\ ~s.failed /\ HostNext /\ UNCHANGED <<otherVars, timeVars, loopVars, zoneVars, respVars, wireVars>>

ProgressSpec ==
    /\ ProgressInit /\ [][ProgressNext]_progressVars
    /\ TimeFairness /\ LoopFairness /\ ZoneFairness /\ RespFairness /\ IfFairness /\ HostFairness

(* What must happen in the end does: due events and timeouts run, a stopped loop
   returns, a commit leads to probing, who asked is answered, the kernel's dumps
   end, and the host is registered or collides.                                  *)
ProgressMade ==
    /\ DueRuns /\ DueIsCalled /\ StopReturns
    /\ CommitProbes /\ EveryoneAnswered /\ DumpsEnd /\ HostRegistered

=============================================================================
