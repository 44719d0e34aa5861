---------------------------- MODULE MC_Publishing ----------------------------
(* Two hosts that want the same service name: the SRV records differ, the PTR
   record is the same.                                                        *)
EXTENDS Publishing, TLC

CONSTANTS h1, h2, l1

MCOffer ==
    LET Srv(d) == [key |-> "srv", data |-> d, unique |-> TRUE]
        Ptr == [key |-> "ptr", data |-> 0, unique |-> FALSE]
    IN  h1 :> {Srv(1), Ptr} @@ h2 :> {Srv(2), Ptr}

ASSUME Protocol == ProtocolAssumption

=============================================================================
