--------------------------- MODULE MC_RecordBrowser ---------------------------
(* Two interfaces; a record of the browsed key, a CNAME for it, a record of what
   that stands for and a record that names no service; a browser of all interfaces
   made as QZeroConf does, one of one interface that leaves the transport open.   *)
EXTENDS RecordBrowser

CONSTANTS i1, i2, b1, b2

Service  == [name |-> "service", key |-> "k", target |-> NotCname]
Other    == [name |-> "other", key |-> "k", target |-> NotCname]
Cname    == [name |-> "cname", key |-> "k", target |-> "t"]
Target   == [name |-> "target", key |-> "t", target |-> NotCname]

MCRecords == {Service, Other, Cname, Target}
MCNoServices == {Other}
MCKeyFor == [b \in Browsers |-> "k"]
MCIfaceFor == [b \in Browsers |-> IF b = b1 THEN Unspec ELSE i1]
MCFlagsFor == [b \in Browsers |-> IF b = b1 THEN "multicast" ELSE "none"]

=============================================================================
