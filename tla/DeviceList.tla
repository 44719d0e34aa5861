----------------------------- MODULE DeviceList -----------------------------
(***************************************************************************)
(* The list of devices the user selects from: GretioServiceFinder starts   *)
(* the browser and passes on serviceAdded, and no other signal of it; the  *)
(* window adds one row with the address of that moment, and keeps the      *)
(* service, which is shared with the browser.                              *)
(***************************************************************************)
EXTENDS BonjourBrowser

CONSTANT MaxRows   \* BOUND: the rows of the table

ASSUME RowsAssumption == MaxRows \in Nat

VARIABLES
    isFinding,     \* GretioServiceFinder::isFinding
    rows           \* the table and GretioMainWindow::services

listVars == <<bonjourVars, isFinding, rows>>

ListInit == BonjourInit /\ isFinding = FALSE /\ rows = <<>>

\* GretioMainWindow::addService for the services this step has added.
addService ==
    LET added == {k \in Keys : k \in told' /\ k \notin told} IN
    \/ (added = {} /\ UNCHANGED rows)
    \/ \E k \in added :
          LET r == services'[k] IN
          /\ Len(rows) < MaxRows
          /\ rows' = Append(rows, [zcs |-> r, ip |-> zcs'[r].ip])

\* The error of a browser that does not start is not connected.
findServices ==
    /\ ~isFinding
    /\ isFinding' = TRUE
    /\ startBrowser \/ UNCHANGED bonjourVars
    /\ UNCHANGED rows

stopFindingServices ==
    /\ isFinding
    /\ isFinding' = FALSE
    /\ stopBrowser \/ (~browser /\ UNCHANGED bonjourVars)
    /\ UNCHANGED rows

Discovery == Daemon /\ addService /\ UNCHANGED isFinding

ListNext == ~crashed /\ (findServices \/ stopFindingServices \/ Discovery)

ListSpec == ListInit /\ [][ListNext]_listVars

(***************************************************************************)
(* Properties                                                              *)
(***************************************************************************)
ListTypeOK ==
    /\ isFinding \in BOOLEAN
    /\ rows \in Seq([zcs : Made, ip : Ips])

\* Whatever is listed can be selected: it has a row, with the very service
\* that later addresses are written to.
ListedHasRow ==
    \A k \in Listed : \E n \in 1..Len(rows) : rows[n].zcs = services[k]

\* The table, the list of services, the hash and the Resolvers agree: a listed
\* service has its row and key, the hash leads to living Resolvers only, and the
\* only Resolver of a key is found (bonjour.cpp:46-144, gretiomainwindow.cpp:66-81).
ListSafe ==
    /\ BonjourTypeOK /\ ResolversLive /\ SoleResolverTracked /\ ListedUnderKey
    /\ ListTypeOK /\ ListedHasRow

=============================================================================
