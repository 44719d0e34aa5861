--------------------------- MODULE BonjourPublisher ---------------------------
(***************************************************************************)
(* QZeroConf's registration of a service over Bonjour (bonjour.cpp).  The  *)
(* daemon answers through a socket that bsRead reads; it may answer more   *)
(* than once, and withdraw a name it has registered because of a later     *)
(* conflict (dns_sd.h, DNSServiceRegisterReply), or end.                   *)
(***************************************************************************)
EXTENDS Naturals

CONSTANT MaxPublishes   \* BOUND: the calls of startServicePublish

ASSUME PublisherAssumption == MaxPublishes \in Nat

VARIABLES
    dnssRef,    \* BOOLEAN: there is a reference to a registration
    notifier,   \* BOOLEAN: serviceNotifier watches its socket
    daemon,     \* the registration the daemon keeps: "none", "asked", "registered", "withdrawn"
    believed,   \* by the signals: "nothing", "waiting", "published", "failed"
    publishes   \* the calls of startServicePublish

publisherVars == <<dnssRef, notifier, daemon, believed, publishes>>

PublisherInit ==
    /\ dnssRef = FALSE /\ notifier = FALSE /\ daemon = "none"
    /\ believed = "nothing" /\ publishes = 0

(* Mistake: the registration ends with the next one only. *)
CleanUpKeepsRegistration == notifier' = FALSE /\ dnssRef' = FALSE /\ UNCHANGED daemon

(* cleanUp(dnssRef), DNSServiceRefDeallocate *)
CleanUpRegistration ==
    dnssRef' = FALSE /\ notifier' = FALSE /\ daemon' = "none"

(* startServicePublish: one registration at a time *)
startServicePublish ==
    /\ publishes < MaxPublishes /\ publishes' = publishes + 1
    /\ \/ /\ dnssRef /\ believed' = "failed"
          /\ UNCHANGED <<dnssRef, notifier, daemon>>
       \/ /\ ~dnssRef /\ dnssRef' = TRUE /\ notifier' = TRUE /\ daemon' = "asked"
          /\ believed' = "waiting"
       \/ ~dnssRef /\ CleanUpRegistration /\ believed' = "failed"

(* stopServicePublish and the destructor *)
stopServicePublish ==
    /\ CleanUpRegistration
    /\ believed' = "nothing"
    /\ UNCHANGED publishes

(* registerCallback without an error: the flags are not looked at, and a name that is
   withdrawn is reported as published once more                                       *)
RegisterReply ==
    /\ notifier
    /\ daemon' = IF daemon = "registered" THEN "withdrawn" ELSE "registered"
    /\ believed' = "published"
    /\ UNCHANGED <<dnssRef, notifier, publishes>>

(* registerCallback with an error, bsRead on a socket that failed *)
RegisterFails ==
    /\ notifier
    /\ CleanUpRegistration
    /\ believed' = "failed"
    /\ UNCHANGED publishes

PublisherNext == startServicePublish \/ stopServicePublish \/ RegisterReply \/ RegisterFails

PublisherSpec == PublisherInit /\ [][PublisherNext]_publisherVars

-----------------------------------------------------------------------------
(* The daemon keeps a registration exactly while there is a reference to it and its
   answers are read: none is left behind and none goes unheard.                       *)
RegistrationHeld == (dnssRef <=> daemon # "none") /\ (dnssRef <=> notifier)

(* Who was told that the service is published, and not otherwise since, has a
   registration (publishExists), which the daemon may have withdrawn.                 *)
PublishedExists == believed \in {"waiting", "published"} => dnssRef

(* The reference, the daemon's registration and what the user was told agree. *)
PublisherSafe == RegistrationHeld /\ PublishedExists

=============================================================================
