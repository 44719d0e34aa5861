------------------------------- MODULE MC_Parts -------------------------------
(***************************************************************************)
(* Seven parts that do not meet, side by side: the list of devices on the   *)
(* Bonjour browser, the stub of the Bonjour service, and the entry groups, *)
(* the responses, the reflector, the interfaces and the time events of     *)
(* avahi-core.  Only one part moves in a behaviour.                        *)
(***************************************************************************)
EXTENDS DeviceList, ClientStub, EntryGroups, Responding, Reflector, Interfaces, TimeEvents

CONSTANTS i1, i2, i3, k1, k2, q1, q2

\* i1 has a key of its own; i2 and i3 share one.
SharedKey == [i \in Instances |-> IF i = i1 THEN k1 ELSE k2]

MCInterfaces == [g \in Groups |-> IF g = "g1" THEN 0 ELSE 1]

MCAuxOf == [z \in Zone |-> IF z = "ptr" THEN {"srv"} ELSE {}]

\* The queriers differ in nothing but their names.
QuerierSymmetry == Permutations(Queriers)

VARIABLE part

partsVars == <<part, listVars, stubVars, zoneVars, respVars, reflVars, wireVars, timeVars>>

\* Where the reflector and the interfaces are when another part moves.
ReflRests == ReflInit /\ nextId = 0
WiresRest == IfInit /\ \A w \in Wires : kernel[w] = NoLink

PartsInit ==
    /\ part \in {"devices", "stub", "groups", "responses", "reflector", "interfaces", "time"}
    /\ ListInit /\ StubInit /\ ZoneInit /\ RespInit /\ TimeInit
    /\ IF part = "reflector" THEN ReflInit ELSE ReflRests
    /\ IF part = "interfaces" THEN IfInit ELSE WiresRest

PartsNext ==
    /\ part' = part
    /\ \/ part = "devices" /\ ListNext /\ UNCHANGED <<stubVars, zoneVars, respVars, reflVars, wireVars, timeVars>>
       \/ part = "stub" /\ StubNext /\ UNCHANGED <<listVars, zoneVars, respVars, reflVars, wireVars, timeVars>>
       \/ part = "groups" /\ ZoneNext /\ UNCHANGED <<listVars, stubVars, respVars, reflVars, wireVars, timeVars>>
       \/ part = "responses" /\ RespNext /\ UNCHANGED <<listVars, stubVars, zoneVars, reflVars, wireVars, timeVars>>
       \/ part = "reflector" /\ ReflNext /\ UNCHANGED <<listVars, stubVars, zoneVars, respVars, wireVars, timeVars>>
       \/ part = "interfaces" /\ IfNext /\ UNCHANGED <<listVars, stubVars, zoneVars, respVars, reflVars, timeVars>>
       \/ part = "time" /\ TimeNext /\ UNCHANGED <<listVars, stubVars, zoneVars, respVars, reflVars, wireVars>>

PartsSpec == PartsInit /\ [][PartsNext]_partsVars

(* What no step of a part may do: leave part of a service, register too often,
   run another event before the earliest, or take over a slot that is in use.     *)
PartsSteps == ServicesWhole /\ RateLimited /\ EarliestRuns /\ NoneTakenOver

=============================================================================
