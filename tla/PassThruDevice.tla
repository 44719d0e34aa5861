---------------------------- MODULE PassThruDevice ----------------------------
(***************************************************************************)
(* What the pass thru functions promise the host (J2534.cpp), without the  *)
(* websocket, the login and the event loops behind them:                   *)
(*                                                                         *)
(*   - one device, opened by PassThruOpen, which may fail, and closed by   *)
(*     PassThruClose, for a host that calls it when no call is running;    *)
(*   - a call is refused at once, or it runs; it returns once, with the    *)
(*     result of ITS operation or with ERR_FAILED;                         *)
(*   - calls may overlap, and their answers come in any order.             *)
(***************************************************************************)
CONSTANTS
    Ops,  \* the operations
    Ids   \* identities of running calls

VARIABLES
    device,  \* "closed", "opening" or "open"
    calls,   \* the running calls, as [id, op, answer] records
    result   \* what the last function to return has returned

dvars == <<device, calls, result>>

DInit == device = "closed" /\ calls = {} /\ result = "none"

\* Codes returned at once, by what the device is.
Refusals(d) ==
    IF d = "closed" THEN {"ERR_DEVICE_NOT_CONNECTED", "STATUS_NOERROR"}
    ELSE {"ERR_DEVICE_IN_USE", "ERR_INVALID_DEVICE_ID", "ERR_NULL_PARAMETER"}

Refuse == result' \in Refusals(device) /\ UNCHANGED <<device, calls>>

Open == device = "closed" /\ device' = "opening" /\ UNCHANGED <<calls, result>>

Opened ==
    /\ device = "opening" /\ calls = {} /\ UNCHANGED calls
    /\ \/ device' = "open" /\ result' = "STATUS_NOERROR"
       \/ device' = "closed" /\ result' = "ERR_DEVICE_NOT_CONNECTED"

Close ==
    /\ device # "closed" /\ calls = {} /\ UNCHANGED calls
    /\ device' = "closed" /\ result' = "STATUS_NOERROR"

Begin(op, id) ==
    /\ device # "closed"
    /\ \A c \in calls : c.id # id
    /\ calls' = calls \cup {[id |-> id, op |-> op, answer |-> "none"]}
    /\ UNCHANGED <<device, result>>

Answered(c) ==
    /\ c.answer = "none"
    /\ calls' = (calls \ {c}) \cup {[c EXCEPT !.answer = c.op]}
    /\ UNCHANGED <<device, result>>

Return(c) ==
    /\ calls' = calls \ {c}
    /\ result' = IF c.answer = c.op THEN "passThruResult" ELSE "ERR_FAILED"
    /\ UNCHANGED device

DNext ==
    \/ Refuse \/ Open \/ Opened \/ Close
    \/ \E op \in Ops, id \in Ids : Begin(op, id)
    \/ \E c \in calls : Answered(c) \/ Return(c)

DSpec == DInit /\ [][DNext]_dvars

=============================================================================
