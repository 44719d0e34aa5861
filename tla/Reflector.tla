------------------------------ MODULE Reflector ------------------------------
(***************************************************************************)
(* The reflector of an avahi server (server.c): what it hears on one       *)
(* interface it repeats on the others; a legacy unicast query goes out     *)
(* under an id of the server's own, and the answers that come under that   *)
(* id go back to the client, for two seconds.                              *)
(***************************************************************************)
EXTENDS Integers, Sequences, FiniteSets

CONSTANTS
    Links,
    Clients,     \* who asks: an address, a port, the id of the query and the link it came by
    Slots,       \* AVAHI_LEGACY_UNICAST_REFLECT_SLOTS_MAX
    IdMod,       \* 2^16: the width of legacy_unicast_reflect_id
    Lag          \* assumption: an answer comes before that many more ids are gone

ASSUME ReflectorAssumption ==
    Slots \in Nat \ {0} /\ IdMod \in Nat /\ Lag \in Nat /\ Lag + Slots < IdMod

VARIABLES
    nextId,     \* legacy_unicast_reflect_id
    slot,       \* legacy_unicast_reflect_slots: [id, client]
    asked,      \* queries that may still be answered: [id, client, lag: ids taken since]
    answered,   \* the last answer that was forwarded, and whose query it was for
    heard       \* of each link, the multicast message it carries: [from, ours: sent by us]

reflVars == <<nextId, slot, asked, answered, heard>>

Free == [id |-> -1, client |-> "none"]
Silence == [from |-> "none", ours |-> FALSE]
NoAnswer == [to |-> "none", for |-> "none"]

ReflInit ==
    /\ nextId \in 0..(IdMod - 1) /\ slot = [i \in 0..(Slots - 1) |-> Free]
    /\ asked = {} /\ answered = NoAnswer
    /\ heard = [l \in Links |-> Silence]

(* allocate_slot: Slots ids are tried from legacy_unicast_reflect_id on; -1: no slot *)
AllocateSlot ==
    LET tries == {n \in 0..(Slots - 1) : slot[((nextId + n) % IdMod) % Slots] = Free}
    IN  IF tries = {} THEN -1 ELSE (nextId + (CHOOSE n \in tries : \A m \in tries : n <= m)) % IdMod

(* n ids later. *)
Later(n) == {q \in {[p EXCEPT !.lag = @ + n] : p \in asked} : q.lag <= Lag}

(* reflect_legacy_unicast_query_packet *)
ReflectLegacyQuery(c) ==
    LET id == AllocateSlot
        new == [id |-> id, client |-> c]
    IN  /\ IF id = -1
           THEN nextId' = (nextId + Slots) % IdMod /\ asked' = Later(Slots) /\ UNCHANGED slot
           ELSE /\ nextId' = (id + 1) % IdMod
                /\ slot' = [slot EXCEPT ![id % Slots] = new]
                /\ asked' = Later((id + 1 - nextId) % IdMod) \cup {[id |-> id, client |-> c, lag |-> 0]}
        /\ UNCHANGED <<answered, heard>>

(* legacy_unicast_reflect_slot_timeout, deallocate_slot *)
SlotTimeout(i) ==
    /\ slot[i] # Free
    /\ slot' = [slot EXCEPT ![slot[i].id % Slots] = Free]
    /\ UNCHANGED <<nextId, asked, answered, heard>>

(* Mistake: the slot is not asked for its id. *)
FindSlotByPlace(id) == slot[id % Slots]

(* find_slot *)
FindSlot(id) == IF slot[id % Slots].id = id THEN slot[id % Slots] ELSE Free

(* dispatch_legacy_unicast_packet: an answer to q *)
LegacyAnswer(q) ==
    LET s == FindSlot(q.id)
    IN  /\ s # Free
        /\ answered' = [to |-> s.client, for |-> q.client]
        /\ UNCHANGED <<nextId, slot, asked, heard>>

(* A host of link l sends a multicast message. *)
Say(l) ==
    /\ heard' = [heard EXCEPT ![l] = [from |-> l, ours |-> FALSE]]
    /\ UNCHANGED <<nextId, slot, asked, answered>>

(* reflect_query, reflect_probe, reflect_response: on every link but l *)
Repeat(l) == [k \in Links |-> IF k = l THEN Silence ELSE [from |-> heard[l].from, ours |-> TRUE]]

(* dispatch_packet: the message of link l, unless an address of that link's interface sent it *)
Reflect(l) ==
    /\ heard[l] # Silence
    /\ heard' = IF heard[l].ours THEN [heard EXCEPT ![l] = Silence] ELSE Repeat(l)
    /\ UNCHANGED <<nextId, slot, asked, answered>>

ReflNext ==
    \/ \E c \in Clients : ReflectLegacyQuery(c)
    \/ \E i \in 0..(Slots - 1) : SlotTimeout(i)
    \/ \E q \in asked : LegacyAnswer(q)
    \/ \E l \in Links : Say(l) \/ Reflect(l)

ReflSpec == ReflInit /\ [][ReflNext]_reflVars

-----------------------------------------------------------------------------
(* A slot that is in use is not given to another query before it is free: the two
   timers of one slot would free it twice (deallocate_slot).                          *)
NoneTakenOver == [][\A i \in DOMAIN slot : slot[i] # Free => slot'[i] \in {slot[i], Free}]_reflVars

(* An answer goes to the client that asked, under the id it asked with, although ids
   and slots are used again and the id wraps around. *)
AnswersGoHome == answered.to = answered.for

(* Nothing comes back to the link where it was said. *)
NoEcho == \A l \in Links : heard[l].ours => heard[l].from # l

(* What is reflected, query or answer, goes where it belongs. *)
ReflectorSafe == AnswersGoHome /\ NoEcho

=============================================================================
