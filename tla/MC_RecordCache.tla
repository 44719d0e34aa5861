---------------------------- MODULE MC_RecordCache ----------------------------
(* Two records of one key and one other host: a cache that holds one of them and
   a lossy link, a cache that holds both records of a unique key, and a link
   that goes away.                                                             *)
EXTENDS RecordCache

CONSTANTS r1, r2, c1, h1

MCConfs == {[limit |-> 1, unique |-> FALSE, loss |-> 3, flaps |-> 0, poof |-> 3],
            [limit |-> 2, unique |-> TRUE, loss |-> 0, flaps |-> 0, poof |-> 0],
            [limit |-> 1, unique |-> FALSE, loss |-> 0, flaps |-> 1, poof |-> 0]}

=============================================================================
