-------------------------- MODULE ServiceDirectory --------------------------
(***************************************************************************)
(* What QZeroConf promises its user (qzeroconf.h and its README): from     *)
(* startBrowser to stopBrowser, serviceAdded and serviceRemoved alternate  *)
(* for each service, and when the browser ends every service that was      *)
(* added has been removed.                                                 *)
(***************************************************************************)
CONSTANT Keys      \* the names under which services are kept

VARIABLES
    browsing,      \* browserExists()
    listed         \* the services added and not removed since

dirVars == <<browsing, listed>>

DirInit == browsing = FALSE /\ listed = {}

BrowserStarts == /\ ~browsing
                 /\ browsing' = TRUE
                 /\ UNCHANGED listed

BrowserEnds == /\ browsing
               /\ browsing' = FALSE
               /\ listed' = {}

ServiceAdded(k) == /\ k \notin listed
                   /\ listed' = listed \union {k}
                   /\ UNCHANGED browsing

ServiceRemoved(k) == /\ k \in listed
                     /\ listed' = listed \ {k}
                     /\ UNCHANGED browsing

(***************************************************************************)
(* The promise, and the weaker one of a directory that may add services    *)
(* when nothing browses.                                                   *)
(***************************************************************************)
DirNext == \/ BrowserStarts
           \/ BrowserEnds
           \/ \E k \in Keys : \/ browsing /\ ServiceAdded(k)
                              \/ ServiceRemoved(k)

LooseNext == DirNext \/ \E k \in Keys : ServiceAdded(k)

DirSpec   == DirInit /\ [][DirNext]_dirVars
LooseSpec == DirInit /\ [][LooseNext]_dirVars

=============================================================================
