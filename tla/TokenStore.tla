------------------------------ MODULE TokenStore ------------------------------
(***************************************************************************)
(* servertoken.json (gretioauthhandler.cpp), the file where the tokens of  *)
(* all servers are kept, and the processes that store tokens in it.        *)
(* addToken reads the file, adds one token and writes all of it: it        *)
(* truncates the file when it opens it and writes when it closes it.       *)
(* AuthHandler has one process, for which addToken is one step.            *)
(*                                                                         *)
(* Two processes may have the file open; each writes from its beginning.   *)
(* A text written over a longer one leaves the end of it, and the file     *)
(* cannot be parsed.                                                       *)
(***************************************************************************)
EXTENDS Naturals

CONSTANTS
    Processes,
    TokenKeys,     \* the public keys of the servers
    TokensOf       \* BOUND: the tokens each server gives out

NoEntry == "none"

ASSUME TokenAssumption == \A k \in TokenKeys : NoEntry \notin TokensOf[k]

VARIABLES
    file,      \* [st: "empty", "broken" (it cannot be parsed) or "parsed", tokens]
    adding,    \* of each process, the call of addToken that runs
    disturbed, \* two calls of addToken have overlapped, or one has not come to its end
    stored,    \* the token last stored for each key
    sole       \* the last token stored by a call that no other one overlapped

storeVars == <<file, adding, disturbed, stored, sole>>

NoTokens == [k \in TokenKeys |-> NoEntry]
Empty == [st |-> "empty"]
Broken == [st |-> "broken"]
NotAdding == [at |-> "idle"]
NobodySole == [key |-> NoEntry]

StoreInit ==
    /\ file = Empty /\ adding = [p \in Processes |-> NotAdding]
    /\ disturbed = FALSE /\ stored = NoTokens /\ sole = NobodySole

(* readServersFile: what is missing or cannot be parsed is an empty document *)
readServersFile == IF file.st = "parsed" THEN file.tokens ELSE NoTokens

Busy(p) == adding[p].at # "idle"

(* addToken: the file is read, and one token added *)
AddToken(p, k, t) ==
    LET others == {q \in Processes : Busy(q)}
    IN  /\ ~Busy(p)
        /\ adding' = [q \in Processes |->
              IF q = p THEN [at |-> "read", key |-> k, token |-> t, alone |-> others = {},
                             doc |-> [readServersFile EXCEPT ![k] = t]]
              ELSE IF q \in others THEN [adding[q] EXCEPT !.alone = FALSE]
              ELSE adding[q]]
        /\ disturbed' = (disturbed \/ others # {})
        /\ UNCHANGED <<file, stored, sole>>

(* writeServerFiles: the file cannot be opened *)
OpenFails(p) ==
    /\ adding[p].at = "read"
    /\ adding' = [adding EXCEPT ![p] = NotAdding]
    /\ UNCHANGED <<file, disturbed, stored, sole>>

(* Mistake: the file is not truncated. *)
OpenKeeps(p) ==
    /\ adding[p].at = "read"
    /\ adding' = [adding EXCEPT ![p].at = "opened"]
    /\ sole' = NobodySole
    /\ UNCHANGED <<file, disturbed, stored>>

(* writeServerFiles: QIODevice::Truncate *)
OpenTruncates(p) ==
    /\ adding[p].at = "read"
    /\ adding' = [adding EXCEPT ![p].at = "opened"]
    /\ file' = Empty /\ sole' = NobodySole
    /\ UNCHANGED <<disturbed, stored>>

(* writeServerFiles: file.close() *)
Close(p) ==
    LET a == adding[p]
    IN  /\ a.at = "opened"
        /\ adding' = [adding EXCEPT ![p] = NotAdding]
        /\ \/ file' = [st |-> "parsed", tokens |-> a.doc]
           \/ file # Empty /\ file' = Broken
        /\ stored' = [stored EXCEPT ![a.key] = a.token]
        /\ sole' = IF a.alone THEN [key |-> a.key, token |-> a.token] ELSE NobodySole
        /\ UNCHANGED disturbed

(* The process ends inside addToken, or the disk is full: nothing is written, or a part. *)
EndsBefore(p) ==
    /\ Busy(p)
    /\ adding' = [adding EXCEPT ![p] = NotAdding]
    /\ IF adding[p].at = "opened" THEN disturbed' = TRUE /\ file' \in {file, Broken}
       ELSE UNCHANGED <<disturbed, file>>
    /\ UNCHANGED <<stored, sole>>

StoreNext ==
    \E p \in Processes :
        \/ \E k \in TokenKeys : \E t \in TokensOf[k] : AddToken(p, k, t)
        \/ OpenFails(p) \/ OpenTruncates(p) \/ Close(p) \/ EndsBefore(p)

StoreSpec == StoreInit /\ [][StoreNext]_storeVars

-----------------------------------------------------------------------------
(* As long as no two calls of addToken overlap and none is cut short, the file holds
   the token last stored for every server, and no other.                             *)
KeptUndisturbed ==
    ~disturbed /\ (\A p \in Processes : adding[p].at # "opened") => readServersFile = stored

(* Whatever happened to the file before, a call of addToken that runs to its end with
   no other beside it leaves its token there.                                         *)
StoreRecovers == sole # NobodySole => readServersFile[sole.key] = sole.token

(* What was stored undisturbed is there. *)
StoreSafe == KeptUndisturbed /\ StoreRecovers

=============================================================================
