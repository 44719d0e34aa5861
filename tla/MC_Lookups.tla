------------------------------ MODULE MC_Lookups ------------------------------
(***************************************************************************)
(* Who asks for services, in four parts side by side: the resolvers, the   *)
(* wide-area lookups, the browsers for domains, types and servers, and the *)
(* browser of QZeroConf on Avahi.  Only one part moves in a behaviour; the *)
(* others rest where none of their fair actions is enabled.                *)
(***************************************************************************)
EXTENDS Resolvers, WideArea, Browsers, AvahiBrowser

CONSTANTS i1, i2, i3, k1, k2, l1, l2, r1, r2

\* i1 has a key of its own; i2 and i3 share one, as "printer1" on interface 1
\* and "printer" on interface 11 do.
SharedKey == [i \in Instances |-> IF i = i1 THEN k1 ELSE k2]

\* A service that moves from one host to another, with an address of each.
MCRecords == [type : {"srv", "a"}, host : Hosts] \union [type : {"txt", "aaaa", "ptr"}, host : {First}]

\* Two lookups of one key, and a record that may come along with an answer.
MCKeyOf == [w \in WideRecords |-> IF w = r1 THEN "k" ELSE "other"]
MCKeyFor == [l \in Lookups |-> "k"]

MCStatics == <<"d1", "d2">>

VARIABLE part

lookupsVars == <<part, resolverVars, wideVars, browsersVars, avahiVars>>

ResolverRests == ResolverInit /\ ~wide /\ cache = {} /\ conf.kind = "host" /\ conf.protos = {"a"}
WideRests == WideInit /\ servers = <<>>
AvahiRests == AvahiInit /\ server

LookupsInit ==
    /\ part \in {"resolvers", "wide", "browsers", "avahi"}
    /\ BrowsersInit
    /\ IF part = "resolvers" THEN ResolverInit ELSE ResolverRests
    /\ IF part = "wide" THEN WideInit ELSE WideRests
    /\ IF part = "avahi" THEN AvahiInit ELSE AvahiRests

LookupsNext ==
    /\ part' = part
    /\ \/ part = "resolvers" /\ ResolverNext /\ UNCHANGED <<wideVars, browsersVars, avahiVars>>
       \/ part = "wide" /\ WideNext /\ UNCHANGED <<resolverVars, browsersVars, avahiVars>>
       \/ part = "browsers" /\ BrowsersNext /\ UNCHANGED <<resolverVars, wideVars, avahiVars>>
       \/ part = "avahi" /\ AvahiNext /\ UNCHANGED <<resolverVars, wideVars, browsersVars>>

LookupsSpec ==
    /\ LookupsInit /\ [][LookupsNext]_lookupsVars
    /\ ResolverFairness /\ WideFairness /\ BrowsersFairness

(* Whoever resolves, looks up or browses hears of an end. *)
LookupsAnswer == ResolverAnswers /\ LookupEnds /\ AllForNowComes

=============================================================================
