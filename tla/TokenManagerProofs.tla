------------------------ MODULE TokenManagerProofs ------------------------
(* The proof that GetServiceAccountToken returns usable tokens, for any    *)
(* number of concurrent reconciliations, any maxTTL and maxJitter, and any *)
(* number of accounts of the same name one after the other.                *)
EXTENDS TokenManager, TLAPS

Lives == {MaxTTL, MaxTTL \div 2}

(* A token that was issued to one of the first n accounts, and a call that *)
(* handles such tokens.                                                    *)
IsToken(token, n) ==
    /\ DOMAIN token = {"uid", "ttl", "left"}
    /\ token.uid \in 1..n /\ token.ttl \in Lives /\ token.left \in Int

IsNilOrToken(token, n) == token # Nil => IsToken(token, n)

IsCall(call, n) ==
    /\ DOMAIN call = {"pc", "uid", "cached", "waited", "token", "refused"}
    /\ call.pc \in {"idle", "asking", "granted", "returned"}
    /\ call.uid \in 0..n /\ call.waited \in 0..MaxLatency /\ call.refused \in BOOLEAN
    /\ IsNilOrToken(call.cached, n) /\ IsNilOrToken(call.token, n)

TokenTypes ==
    /\ account.uid \in 1..MaxUid /\ DOMAIN account = {"uid", "alive"}
    /\ DOMAIN tokens = 1..MaxUid /\ \A k \in 1..MaxUid : IsNilOrToken(tokens[k], account.uid)
    /\ DOMAIN calls = Callers /\ \A c \in Callers : IsCall(calls[c], account.uid)

(* What is in the cache under a UID was issued to that account or a later  *)
(* one: the account is read before the token is asked for.                 *)
CacheIsFresh == \A k \in 1..MaxUid : tokens[k] # Nil => tokens[k].uid >= k

(* A call has in hand what was in the cache for its account, or a token    *)
(* that is at most as old as the call.                                     *)
InHand(call) ==
    /\ call.pc # "idle" => call.uid >= 1
    /\ call.pc = "asking" => /\ call.token = Nil
                             /\ call.refused = FALSE
                             /\ call.cached # Nil => call.cached.uid >= call.uid
    /\ call.pc = "granted" => /\ call.token # Nil => /\ call.token.uid >= call.uid
                                                     /\ call.token.ttl - call.token.left <= call.waited
                              /\ call.refused = FALSE
    /\ call.pc = "returned" /\ call.token # Nil =>
          /\ call.token.uid >= call.uid
          /\ call.token.left >= 0
          /\ call.refused = TRUE \/ call.token.left >= call.token.ttl \div 2

(* The inductive invariant.                                                *)
TokenInv ==
    /\ TokenTypes
    /\ CacheIsFresh
    /\ \A c \in Callers : InHand(calls[c])

-----------------------------------------------------------------------------
(* A token that has been waited for has half of its life left: this is     *)
(* where the bound on the latency is needed.                               *)
LEMMA HalfLife ==
    ASSUME NEW ttl \in Lives, NEW left \in Int, NEW waited \in 0..MaxLatency,
           ttl - left <= waited
    PROVE  left >= 0 /\ left >= ttl \div 2
BY TokenAssumption DEF Lives

(* The lives of tokens are natural numbers.                                *)
LEMMA LivesAreNat == Lives \subseteq Nat
BY TokenAssumption DEF Lives

(* Time leaves the type and the holder of a token alone, and takes at most *)
(* one from what is left.                                                  *)
LEMMA OlderProperties ==
    ASSUME NEW n \in Nat, NEW token, IsNilOrToken(token, n)
    PROVE  /\ IsNilOrToken(Older(token), n)
           /\ token = Nil => Older(token) = Nil
           /\ token # Nil => /\ Older(token).uid = token.uid
                             /\ Older(token).ttl = token.ttl
                             /\ Older(token).left \in Int
                             /\ Older(token).left >= token.left - 1
<1>1. CASE token = Nil
  BY <1>1 DEF Older
<1>2. CASE token # Nil
  <2>1. IsToken(token, n)
    BY <1>2 DEF IsNilOrToken
  <2>2. Older(token) = [token EXCEPT !.left = IF @ < 0 THEN @ ELSE @ - 1]
    BY <1>2 DEF Older
  <2>3. token.left \in Int
    BY <2>1 DEF IsNilOrToken, IsToken
  <2> QED BY <1>2, <2>1, <2>2, <2>3 DEF IsNilOrToken, IsToken
<1> QED BY <1>1, <1>2

(* What is a token or a call while there were n accounts is one later, too. *)
LEMMA Monotone ==
    ASSUME NEW n \in Nat, NEW m \in Nat, n <= m
    PROVE  /\ \A token : IsNilOrToken(token, n) => IsNilOrToken(token, m)
           /\ \A call : IsCall(call, n) => IsCall(call, m)
<1>1. \A token : IsNilOrToken(token, n) => IsNilOrToken(token, m)
  BY DEF IsNilOrToken, IsToken
<1>2. \A call : IsCall(call, n) => IsCall(call, m)
  BY <1>1 DEF IsCall
<1> QED BY <1>1, <1>2

(* A call that has not begun.                                              *)
LEMMA NoCallIsCall ==
    ASSUME NEW n \in Nat
    PROVE  IsCall(NoCall, n) /\ InHand(NoCall)
BY TokenAssumption DEF NoCall, IsCall, InHand, IsNilOrToken

(* A step of one call that keeps its invariant and touches nothing else.   *)
LEMMA OneCall ==
    ASSUME TokenInv, NEW c \in Callers, NEW x, IsCall(x, account.uid), InHand(x),
           calls' = [calls EXCEPT ![c] = x],
           UNCHANGED <<tokens, account>>
    PROVE  TokenInv'
<1>1. TokenTypes'
  BY DEF TokenInv, TokenTypes
<1>2. CacheIsFresh'
  BY DEF TokenInv, CacheIsFresh
<1>3. \A d \in Callers : calls'[d] = IF d = c THEN x ELSE calls[d]
  BY DEF TokenInv, TokenTypes
<1>4. \A d \in Callers : InHand(calls'[d])
  BY <1>3 DEF TokenInv
<1> QED BY <1>1, <1>2, <1>4 DEF TokenInv
-----------------------------------------------------------------------------
\* An empty cache and idle callers satisfy the inductive invariant.
LEMMA TokenInitInv == TokenInit => TokenInv
<1> SUFFICES ASSUME TokenInit PROVE TokenInv
  OBVIOUS
<1>1. account.uid = 1 /\ 1 \in 1..MaxUid /\ DOMAIN account = {"uid", "alive"}
  BY TokenAssumption DEF TokenInit
<1>2. \A k \in 1..MaxUid : tokens[k] = Nil
  BY DEF TokenInit
<1>3. \A c \in Callers : calls[c] = NoCall
  BY DEF TokenInit
<1>4. IsCall(NoCall, account.uid) /\ InHand(NoCall)
  BY <1>1, NoCallIsCall
<1>5. TokenTypes
  BY <1>1, <1>2, <1>3, <1>4 DEF TokenTypes, TokenInit, IsNilOrToken
<1>6. CacheIsFresh
  BY <1>2 DEF CacheIsFresh
<1> QED BY <1>3, <1>4, <1>5, <1>6 DEF TokenInv

\* Every step of a caller, of the clean-up, of the clock and of the account
\* preserves the invariant.
LEMMA TokenNextInv == TokenInv /\ [TokenNext]_tokenVars => TokenInv'
<1> SUFFICES ASSUME TokenInv, [TokenNext]_tokenVars PROVE TokenInv'
  OBVIOUS
<1> USE TokenAssumption
<1>a. account.uid \in 1..MaxUid /\ account.uid \in Nat
  BY DEF TokenInv, TokenTypes
<1>b. \A c \in Callers : IsCall(calls[c], account.uid) /\ InHand(calls[c])
  BY DEF TokenInv, TokenTypes
<1>c. \A k \in 1..MaxUid : /\ IsNilOrToken(tokens[k], account.uid)
                           /\ tokens[k] # Nil => tokens[k].uid >= k
  BY DEF TokenInv, TokenTypes, CacheIsFresh
<1>1. ASSUME NEW c \in Callers, GetServiceAccountToken(c) PROVE TokenInv'
  <2> DEFINE fast(uid) == [NoCall EXCEPT !.pc = "returned", !.uid = uid, !.token = tokens[uid]]
             slow(uid) == [NoCall EXCEPT !.pc = "asking", !.uid = uid, !.cached = tokens[uid]]
  <2>1. PICK uid \in 1..account.uid, jitter \in 0..MaxJitter :
           calls' = [calls EXCEPT ![c] = IF tokens[uid] # Nil /\ ~RequiresRefresh(tokens[uid], jitter)
                                         THEN fast(uid) ELSE slow(uid)]
    BY <1>1 DEF GetServiceAccountToken, TokenKey
  <2>2. IsNilOrToken(tokens[uid], account.uid) /\ (tokens[uid] # Nil => tokens[uid].uid >= uid)
    BY <1>a, <1>c
  <2>3. UNCHANGED <<tokens, account>>
    BY <1>1 DEF GetServiceAccountToken
  <2>4. CASE tokens[uid] # Nil /\ ~RequiresRefresh(tokens[uid], jitter)
    <3>1. tokens[uid].left \in Int /\ tokens[uid].ttl \in Nat
      BY <2>2, <2>4, LivesAreNat DEF IsNilOrToken, IsToken
    <3>2. tokens[uid].left >= tokens[uid].ttl \div 2 /\ tokens[uid].left >= 0
      BY <2>4, <3>1 DEF RequiresRefresh
    <3>3. IsCall(fast(uid), account.uid)
      BY <1>a, <2>2 DEF IsCall, IsNilOrToken, NoCall
    <3>4. InHand(fast(uid))
      BY <2>2, <3>2 DEF InHand, NoCall
    <3>5. calls' = [calls EXCEPT ![c] = fast(uid)]
      BY <2>1, <2>4
    <3> QED BY <2>3, <3>3, <3>4, <3>5, OneCall
  <2>5. CASE ~(tokens[uid] # Nil /\ ~RequiresRefresh(tokens[uid], jitter))
    <3>1. IsCall(slow(uid), account.uid)
      BY <1>a, <2>2 DEF IsCall, IsNilOrToken, NoCall
    <3>2. InHand(slow(uid))
      BY <2>2 DEF InHand, NoCall
    <3>3. calls' = [calls EXCEPT ![c] = slow(uid)]
      BY <2>1, <2>5
    <3> QED BY <2>3, <3>1, <3>2, <3>3, OneCall
  <2> QED BY <2>4, <2>5
<1>2. ASSUME NEW c \in Callers, CreateToken(c) PROVE TokenInv'
  <2> DEFINE token(ttl) == [uid |-> account.uid, ttl |-> ttl, left |-> ttl]
             x(ttl) == [calls[c] EXCEPT !.pc = "granted", !.token = token(ttl)]
  <2>1. PICK ttl \in Lives : calls' = [calls EXCEPT ![c] = x(ttl)]
    BY <1>2 DEF CreateToken, Lives
  <2>2. IsCall(calls[c], account.uid) /\ InHand(calls[c]) /\ calls[c].pc = "asking"
    BY <1>2, <1>b DEF CreateToken
  <2>3. IsToken(token(ttl), account.uid) /\ ttl \in Nat
    BY <1>a, LivesAreNat DEF IsNilOrToken, IsToken
  <2>4. IsCall(x(ttl), account.uid)
    BY <2>2, <2>3 DEF IsCall, IsNilOrToken
  <2>5. calls[c].waited \in Nat /\ calls[c].uid \in 1..account.uid /\ calls[c].refused = FALSE
    BY <2>2 DEF IsCall, InHand
  <2>6. /\ x(ttl).pc = "granted" /\ x(ttl).uid = calls[c].uid /\ x(ttl).waited = calls[c].waited
        /\ x(ttl).token = token(ttl) /\ x(ttl).refused = FALSE
    BY <2>2, <2>5 DEF IsCall
  <2>7. InHand(x(ttl))
    BY <2>3, <2>5, <2>6, <1>a DEF InHand
  <2>8. UNCHANGED <<tokens, account>>
    BY <1>2 DEF CreateToken
  <2> QED BY <2>1, <2>4, <2>7, <2>8, OneCall
<1>3. ASSUME NEW c \in Callers, CreateTokenFails(c) PROVE TokenInv'
  <2> DEFINE ctr == calls[c].cached
             token == IF ctr = Nil THEN Nil ELSE IF Expired(ctr) THEN Nil ELSE ctr
             x == [calls[c] EXCEPT !.pc = "returned", !.refused = TRUE, !.cached = Nil, !.waited = 0,
                                   !.token = token]
  <2>1. IsCall(calls[c], account.uid) /\ InHand(calls[c]) /\ calls[c].pc = "asking"
    BY <1>3, <1>b DEF CreateTokenFails
  <2>2. calls' = [calls EXCEPT ![c] = x] /\ UNCHANGED <<tokens, account>>
    BY <1>3 DEF CreateTokenFails
  <2>3. IsNilOrToken(ctr, account.uid) /\ (ctr # Nil => ctr.uid >= calls[c].uid)
    BY <2>1 DEF IsCall, InHand
  <2>4. IsNilOrToken(token, account.uid)
    BY <2>3 DEF IsNilOrToken
  <2>5. token # Nil => token.uid >= calls[c].uid /\ token.left >= 0
    BY <2>3 DEF Expired, IsNilOrToken, IsToken
  <2> HIDE DEF token
  <2>6. IsCall(x, account.uid)
    BY <2>1, <2>4 DEF IsCall, IsNilOrToken
  <2>7. /\ x.pc = "returned" /\ x.uid = calls[c].uid /\ x.token = token /\ x.refused = TRUE
        /\ calls[c].uid >= 1
    BY <2>1 DEF IsCall, InHand
  <2>8. InHand(x)
    BY <2>5, <2>7 DEF InHand
  <2> QED BY <2>2, <2>6, <2>8, OneCall
<1>4. ASSUME NEW c \in Callers, SetToken(c) PROVE TokenInv'
  <2> DEFINE call == calls[c]
             x == [call EXCEPT !.pc = "returned", !.cached = Nil, !.waited = 0]
  <2>1. IsCall(call, account.uid) /\ InHand(call) /\ call.pc = "granted"
    BY <1>4, <1>b DEF SetToken
  <2>2. /\ calls' = [calls EXCEPT ![c] = x] /\ account' = account
        /\ tokens' = [tokens EXCEPT ![call.uid] = call.token]
    BY <1>4 DEF SetToken, TokenKey
  <2>3. IsCall(x, account.uid)
    BY <2>1 DEF IsCall, IsNilOrToken
  <2>4. /\ IsNilOrToken(call.token, account.uid) /\ call.uid \in 1..account.uid
        /\ call.waited \in 0..MaxLatency /\ call.refused = FALSE
    BY <2>1 DEF IsCall, InHand
  <2>5. call.token # Nil => /\ call.token.uid >= call.uid
                            /\ call.token.ttl - call.token.left <= call.waited
    BY <2>1 DEF InHand
  <2>6. call.token # Nil => call.token.left >= 0 /\ call.token.left >= call.token.ttl \div 2
    <3> SUFFICES ASSUME call.token # Nil
                 PROVE  call.token.left >= 0 /\ call.token.left >= call.token.ttl \div 2
      OBVIOUS
    <3>1. call.token.ttl \in Lives /\ call.token.left \in Int
      BY <2>4 DEF IsNilOrToken, IsToken
    <3> QED BY <3>1, <2>4, <2>5, HalfLife
  <2>7. x.pc = "returned" /\ x.uid = call.uid /\ x.token = call.token
    BY <2>1 DEF IsCall
  <2>8. InHand(x)
    BY <2>4, <2>5, <2>6, <2>7 DEF InHand
  <2> HIDE DEF x, call
  <2>9. \A d \in Callers : calls'[d] = IF d = c THEN x ELSE calls[d]
    BY <2>2 DEF TokenInv, TokenTypes
  <2>10. TokenTypes'
    BY <1>a, <2>2, <2>3, <2>4 DEF TokenTypes, TokenInv
  <2>11. CacheIsFresh'
    BY <1>c, <2>2, <2>5 DEF CacheIsFresh, TokenInv, TokenTypes
  <2>12. \A d \in Callers : InHand(calls'[d])
    BY <1>b, <2>8, <2>9
  <2> QED BY <2>10, <2>11, <2>12 DEF TokenInv
<1>5. ASSUME NEW c \in Callers, UseToken(c) PROVE TokenInv'
  BY <1>5, <1>a, NoCallIsCall, OneCall DEF UseToken
<1>6. ASSUME Cleanup PROVE TokenInv'
  <2>1. tokens' = [k \in 1..MaxUid |->
                    IF tokens[k] = Nil THEN Nil ELSE IF Expired(tokens[k]) THEN Nil ELSE tokens[k]]
    BY <1>6 DEF Cleanup, TokenInv, TokenTypes
  <2>2. account' = account /\ calls' = calls
    BY <1>6 DEF Cleanup
  <2>3. \A k \in 1..MaxUid : tokens'[k] = Nil \/ tokens'[k] = tokens[k]
    BY <2>1
  <2>4. TokenTypes'
    BY <1>a, <1>b, <1>c, <2>1, <2>2, <2>3 DEF TokenTypes, TokenInv, IsNilOrToken
  <2>5. CacheIsFresh'
    BY <1>c, <2>3 DEF CacheIsFresh
  <2> QED BY <1>b, <2>2, <2>4, <2>5 DEF TokenInv
<1>7. ASSUME NewManager PROVE TokenInv'
  <2>1. \A k \in 1..MaxUid : tokens'[k] = Nil
    BY <1>7 DEF NewManager
  <2>2. \A c \in Callers : calls'[c] = NoCall
    BY <1>7 DEF NewManager
  <2>3. IsCall(NoCall, account.uid) /\ InHand(NoCall)
    BY <1>a, NoCallIsCall
  <2>4. TokenTypes'
    BY <1>7, <2>1, <2>2, <2>3 DEF TokenTypes, TokenInv, NewManager, IsNilOrToken
  <2> QED BY <2>1, <2>2, <2>3, <2>4 DEF TokenInv, CacheIsFresh
<1>8. ASSUME DeleteAccount \/ CreateAccount PROVE TokenInv'
  <2>1. tokens' = tokens /\ calls' = calls
    BY <1>8 DEF DeleteAccount, CreateAccount
  <2>2. account'.uid \in 1..MaxUid /\ DOMAIN account' = {"uid", "alive"} /\ account.uid <= account'.uid
    BY <1>8 DEF DeleteAccount, CreateAccount, TokenInv, TokenTypes
  <2>3. /\ \A token : IsNilOrToken(token, account.uid) => IsNilOrToken(token, account'.uid)
        /\ \A call : IsCall(call, account.uid) => IsCall(call, account'.uid)
    BY <1>a, <2>2, Monotone
  <2>4. TokenTypes'
    BY <2>1, <2>2, <2>3 DEF TokenTypes, TokenInv
  <2> QED BY <1>b, <1>c, <2>1, <2>4 DEF TokenInv, CacheIsFresh
<1>9. ASSUME TokenTick PROVE TokenInv'
  <2>1. tokens' = [k \in 1..MaxUid |-> Older(tokens[k])] /\ account' = account
    BY <1>9 DEF TokenTick, TokenInv, TokenTypes
  <2>2. \A k \in 1..MaxUid : /\ IsNilOrToken(Older(tokens[k]), account.uid)
                             /\ Older(tokens[k]) # Nil => Older(tokens[k]).uid >= k
    BY <1>a, <1>c, OlderProperties
  <2>3. ASSUME NEW c \in Callers PROVE IsCall(calls'[c], account.uid) /\ InHand(calls'[c])
    <3>1. CASE calls[c].pc \in {"idle", "returned"}
      BY <1>9, <1>b, <3>1 DEF TokenTick
    <3>2. CASE calls[c].pc \notin {"idle", "returned"}
      <4> DEFINE call == calls[c]
                 cached == Older(call.cached)
                 token == Older(call.token)
                 x == [call EXCEPT !.cached = cached, !.token = token, !.waited = @ + 1]
      <4>1. IsCall(call, account.uid) /\ InHand(call) /\ call.pc \in {"asking", "granted"}
        BY <1>b, <3>2 DEF IsCall
      <4>2. calls'[c] = x
        BY <1>9, <3>2 DEF TokenTick
      <4>3. call.waited + 1 \in 0..MaxLatency /\ call.waited \in Int
        <5>1. call.waited < MaxLatency
          BY <1>9, <4>1 DEF TokenTick
        <5> QED BY <4>1, <5>1 DEF IsCall
      <4>4. IsNilOrToken(call.cached, account.uid) /\ IsNilOrToken(call.token, account.uid)
        BY <4>1 DEF IsCall
      <4>5. /\ IsNilOrToken(cached, account.uid) /\ IsNilOrToken(token, account.uid)
            /\ call.cached = Nil => cached = Nil
            /\ call.token = Nil => token = Nil
            /\ call.cached # Nil => cached.uid = call.cached.uid
        BY <1>a, <4>4, OlderProperties
      <4>6. call.token # Nil => /\ token.uid = call.token.uid /\ token.ttl = call.token.ttl
                                /\ token.left \in Int /\ token.left >= call.token.left - 1
        BY <1>a, <4>4, OlderProperties
      <4> HIDE DEF cached, token
      <4>7. IsCall(x, account.uid)
        BY <4>1, <4>3, <4>5 DEF IsCall
      <4>8. /\ x.pc = call.pc /\ x.uid = call.uid /\ x.cached = cached /\ x.token = token
            /\ x.waited = call.waited + 1 /\ x.refused = call.refused
        BY <4>1 DEF IsCall
      <4> HIDE DEF x
      <4>9. ASSUME call.pc = "asking" PROVE InHand(x)
        BY <4>1, <4>5, <4>8, <4>9 DEF InHand
      <4>10. ASSUME call.pc = "granted" PROVE InHand(x)
        <5>1. call.token # Nil => token.ttl - token.left <= call.waited + 1 /\ token.uid >= call.uid
          <6> SUFFICES ASSUME call.token # Nil
                       PROVE  token.ttl - token.left <= call.waited + 1 /\ token.uid >= call.uid
            OBVIOUS
          <6>1. call.token.ttl \in Nat /\ call.token.left \in Int
            BY <4>4, LivesAreNat DEF IsNilOrToken, IsToken
          <6>2. call.token.ttl - call.token.left <= call.waited /\ call.token.uid >= call.uid
            BY <4>1, <4>10 DEF InHand
          <6> QED BY <4>3, <4>6, <6>1, <6>2
        <5> QED BY <4>1, <4>5, <4>8, <4>10, <5>1 DEF InHand
      <4> QED BY <4>1, <4>2, <4>7, <4>9, <4>10
    <3> QED BY <3>1, <3>2
  <2>4. calls' = [c \in Callers |-> calls'[c]]
    BY <1>9 DEF TokenTick
  <2>5. TokenTypes'
    BY <2>1, <2>2, <2>3, <2>4 DEF TokenTypes, TokenInv
  <2>6. CacheIsFresh'
    BY <2>1, <2>2 DEF CacheIsFresh
  <2> QED BY <2>3, <2>5, <2>6 DEF TokenInv
<1>10. CASE UNCHANGED tokenVars
  BY <1>10 DEF tokenVars, TokenInv, TokenTypes, CacheIsFresh
<1> QED BY <1>1, <1>2, <1>3, <1>4, <1>5, <1>6, <1>7, <1>8, <1>9, <1>10 DEF TokenNext

(* The tokens that GetServiceAccountToken returns are usable, whatever the *)
(* number of reconciliations that share the manager.                       *)
THEOREM TokensAreUsable == TokenSpec => []TokenIsUsable
<1>1. TokenInv => TokenIsUsable
  <2> SUFFICES ASSUME TokenInv, NEW c \in Callers, calls[c].pc = "returned", calls[c].token # Nil
               PROVE  /\ calls[c].token.uid >= calls[c].uid
                      /\ ~Expired(calls[c].token)
                      /\ calls[c].refused \/ calls[c].token.left >= calls[c].token.ttl \div 2
    BY DEF TokenIsUsable
  <2>1. InHand(calls[c]) /\ IsToken(calls[c].token, account.uid)
    BY DEF TokenInv, TokenTypes, IsCall, IsNilOrToken
  <2>2. calls[c].token.left \in Int
    BY <2>1 DEF IsNilOrToken, IsToken
  <2> QED BY <2>1, <2>2 DEF InHand, Expired
<1> QED BY <1>1, TokenInitInv, TokenNextInv, PTL DEF TokenSpec
=============================================================================
