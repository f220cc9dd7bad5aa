---------------------------- MODULE TokenManager ----------------------------
(***************************************************************************)
(* The tokens of the service accounts that objects are submitted with      *)
(* (pkg/satoken/token_manager.go).  The reconciliations of a controller    *)
(* share one Manager; its lock is held for a single access of the cache,   *)
(* never while the API server is asked for a token.                        *)
(*                                                                         *)
(* There is one name of a service account.  The account may be deleted and *)
(* created again, with another UID; a reconciliation reads it from an      *)
(* informer cache, which may still hold an earlier one.  A token:          *)
(* [uid, ttl, left], where left is the time until it expires, -1 once it   *)
(* has: only differences of times matter, and time never ends.             *)
(***************************************************************************)
EXTENDS Integers, Optional

CONSTANTS
    Callers,     \* the reconciliations that run concurrently
    MaxTTL,      \* maxTTL
    MaxJitter,   \* maxJitter
    MaxLatency,  \* bound: how long a request to the API server may take
    MaxUid       \* bound: how often the account is created

ASSUME TokenAssumption ==
    /\ MaxTTL \in Nat /\ MaxJitter \in Nat /\ MaxLatency \in Nat /\ MaxUid \in Nat \ {0}
    /\ 4 * MaxLatency <= MaxTTL   \* an answer takes less than half of the shortest life

VARIABLES
    tokens,   \* the cache, by key
    calls,    \* the calls of GetServiceAccountToken
    account   \* [uid, alive] at the API server

tokenVars == <<tokens, calls, account>>

NoCall == [pc |-> "idle", uid |-> 0, cached |-> Nil, waited |-> 0, token |-> Nil, refused |-> FALSE]

TokenInit ==
    /\ account = [uid |-> 1, alive |-> TRUE]
    /\ tokens = [k \in 1..MaxUid |-> Nil]
    /\ calls = [c \in Callers |-> NoCall]

\* Mutation: the UID is no part of the key.
TokenKeyByName(uid) == 1

\* The key: the name and the namespace, which are always the same, and the UID.
TokenKey(uid) == uid

Expired(token) == token.left < 0

\* Older than maxTTL, or in the second half of its life, less a jitter.
RequiresRefresh(token, jitter) ==
    \/ token.ttl - token.left > MaxTTL - jitter
    \/ token.left < token.ttl \div 2 + jitter

\* GetServiceAccountToken up to the request: get, under the read lock.
GetServiceAccountToken(c) ==
    /\ calls[c].pc = "idle"
    /\ \E uid \in 1..account.uid, jitter \in 0..MaxJitter :
         LET ctr == tokens[TokenKey(uid)]
         IN calls' = [calls EXCEPT ![c] =
              IF ctr # Nil /\ ~RequiresRefresh(ctr, jitter)
              THEN [NoCall EXCEPT !.pc = "returned", !.uid = uid, !.token = ctr]
              ELSE [NoCall EXCEPT !.pc = "asking", !.uid = uid, !.cached = ctr]]
    /\ UNCHANGED <<tokens, account>>

\* The API server issues a token to the account that has the name now.  It may
\* grant a shorter life than it is asked for.
CreateToken(c) ==
    /\ calls[c].pc = "asking" /\ account.alive
    /\ \E ttl \in {MaxTTL, MaxTTL \div 2} :
         calls' = [calls EXCEPT ![c].pc = "granted",
                                ![c].token = [uid |-> account.uid, ttl |-> ttl, left |-> ttl]]
    /\ UNCHANGED <<tokens, account>>

\* The request fails: what is in hand is returned if it has not expired.
CreateTokenFails(c) ==
    /\ calls[c].pc = "asking"
    /\ LET ctr == calls[c].cached
       IN calls' = [calls EXCEPT ![c].pc = "returned", ![c].refused = TRUE, ![c].cached = Nil, ![c].waited = 0,
                                 ![c].token = IF ctr = Nil THEN Nil ELSE IF Expired(ctr) THEN Nil ELSE ctr]
    /\ UNCHANGED <<tokens, account>>

\* set, under the write lock, whatever the cache holds by now.
SetToken(c) ==
    /\ calls[c].pc = "granted"
    /\ tokens' = [tokens EXCEPT ![TokenKey(calls[c].uid)] = calls[c].token]
    /\ calls' = [calls EXCEPT ![c] = [@ EXCEPT !.pc = "returned", !.cached = Nil, !.waited = 0]]
    /\ UNCHANGED account

\* The reconciliation is over.
UseToken(c) ==
    /\ calls[c].pc = "returned"
    /\ calls' = [calls EXCEPT ![c] = NoCall]
    /\ UNCHANGED <<tokens, account>>

Cleanup ==
    /\ tokens' = [k \in DOMAIN tokens |->
                    IF tokens[k] = Nil THEN Nil ELSE IF Expired(tokens[k]) THEN Nil ELSE tokens[k]]
    /\ UNCHANGED <<calls, account>>

\* NewManager, when the controller starts again.
NewManager ==
    /\ tokens' = [k \in 1..MaxUid |-> Nil]
    /\ calls' = [c \in Callers |-> NoCall]
    /\ UNCHANGED account

DeleteAccount ==
    /\ account.alive
    /\ account' = [account EXCEPT !.alive = FALSE]
    /\ UNCHANGED <<tokens, calls>>

CreateAccount ==
    /\ ~account.alive /\ account.uid < MaxUid
    /\ account' = [uid |-> account.uid + 1, alive |-> TRUE]
    /\ UNCHANGED <<tokens, calls>>

Older(token) == IF token = Nil THEN Nil ELSE [token EXCEPT !.left = IF @ < 0 THEN @ ELSE @ - 1]

\* Time passes for the tokens in the cache and in the hands of the calls; a
\* token that was returned stays as it was then.
TokenTick ==
    /\ \A c \in Callers : calls[c].pc \in {"asking", "granted"} => calls[c].waited < MaxLatency
    /\ tokens' = [k \in DOMAIN tokens |-> Older(tokens[k])]
    /\ calls' = [c \in Callers |->
                    IF calls[c].pc \in {"idle", "returned"} THEN calls[c]
                    ELSE [calls[c] EXCEPT !.cached = Older(@), !.token = Older(@), !.waited = @ + 1]]
    /\ UNCHANGED account

TokenNext ==
    \/ \E c \in Callers : \/ GetServiceAccountToken(c) \/ CreateToken(c) \/ CreateTokenFails(c)
                          \/ SetToken(c) \/ UseToken(c)
    \/ Cleanup \/ NewManager \/ DeleteAccount \/ CreateAccount \/ TokenTick

TokenSpec == TokenInit /\ [][TokenNext]_tokenVars
-----------------------------------------------------------------------------
\* A token that GetServiceAccountToken returns has not expired and was not
\* issued to an earlier account of the same name than the one it was asked for.
\* Unless the API server refused to issue another, half of its life is left.
\* All of this in spite of callers that overwrite each other's tokens with
\* older ones, of cleanups in between and of answers that take long.
TokenIsUsable ==
    \A c \in Callers :
        calls[c].pc = "returned" /\ calls[c].token # Nil =>
            LET token == calls[c].token
            IN /\ token.uid >= calls[c].uid
               /\ ~Expired(token)
               /\ calls[c].refused \/ token.left >= token.ttl \div 2
=============================================================================
