-------------------------- MODULE OAuthTokens_proofs --------------------------
(***************************************************************************)
(* For any pulls, clients, lifetimes and numbers of refresh tokens: types  *)
(* are kept, what the cache hands out is alive, an old client's token dies *)
(* out, and the row's refresh token is lost for the six reasons only.      *)
(***************************************************************************)
EXTENDS OAuthTokens, TLAPS

\* What every action proves, every step proves.
LEMMA StepCases ==
    ASSUME [Next]_vars, NEW P,
           \A p \in Pulls : Begin(p) => P,
           \A p \in Pulls : Lookup(p) => P,
           \A p \in Pulls : Exchange(p) => P,
           \A p \in Pulls : ExchangeFails(p) => P,
           \A p \in Pulls : ReplyLost(p) => P,
           \A p \in Pulls : Store(p) => P,
           \A p \in Pulls : PersistRead(p) => P,
           \A p \in Pulls : PersistWrite(p) => P,
           \A p \in Pulls : PersistFails(p) => P,
           \A c \in Clients, g \in {"refresh_token", "other"} : Patch(c, g) => P,
           OpenForm => P,
           SaveForm => P,
           Delete => P,
           Tick => P,
           Crash => P,
           UNCHANGED vars => P
    PROVE  P
BY DEF Next, Proceed

----------------------------------------------------------------------------
(***************************************************************************)
(* Types.                                                                  *)
(***************************************************************************)

\* What a pull has at hand, stage by stage.
Equipped(s) ==
    /\ s.at \in Busy => s.auth \in Auth
    /\ s.at = "reply" => s.token \in Token
    /\ s.at \in {"persist", "write"} => s.new # 0

Shape == TypeOK /\ \A p \in Pulls : Equipped(pull[p])

\* A pull that does nothing is well-formed.
LEMMA IdleIsPull == Idle \in PullType /\ Equipped(Idle) /\ Idle.at = "idle"
BY OAuthAssumption DEF Idle, PullType, Equipped, Busy

\* A step of one pull is type-correct if the pull's new record is.
LEMMA GoesKeeps ==
    ASSUME Shape, NEW p \in Pulls, NEW s \in PullType, Equipped(s), Goes(p, s)
    PROVE  /\ pull' \in [Pulls -> PullType]
           /\ \A q \in Pulls : Equipped(pull'[q])
           /\ pull'[p] = s
           /\ \A q \in Pulls \ {p} : pull'[q] = pull[q]
BY DEF Shape, TypeOK, Goes

\* A clock that ticks stays a number and loses at most one.
LEMMA LessType == \A n \in Nat : Less(n) \in Nat /\ Less(n) <= n /\ n <= Less(n) + 1
BY DEF Less

\* A token that ages is a token.
LEMMA OlderType ==
    ASSUME NEW tok \in Token
    PROVE  [tok EXCEPT !.left = Less(@), !.believed = Less(@)] \in Token
BY LessType DEF Token

\* The shape holds at first.
LEMMA ShapeInit == Init => Shape
<1> SUFFICES ASSUME Init PROVE Shape
  OBVIOUS
<1>1. 1 \in 1..MaxTokens /\ 1 \in 0..MaxTokens
  BY OAuthAssumption
<1>2. row \in [status : {"live", "deleted"}, auth : Auth] /\ wanted \in Clients
  BY <1>1 DEF Init, Auth, RefreshTokens
<1>3. TypeOK
  BY <1>1, <1>2, IdleIsPull DEF Init, TypeOK, RefreshTokens, NoAuth
<1> QED
  BY <1>3, IdleIsPull DEF Init, Shape

\* Every step keeps the shape.
LEMMA ShapeStep == Shape /\ [Next]_vars => Shape'
<1> SUFFICES ASSUME Shape, [Next]_vars PROVE Shape'
  OBVIOUS
<1>b. TTLs \subseteq Nat /\ MaxDelay \in Nat /\ MaxTokens \in Nat
  BY OAuthAssumption
<1> USE <1>b DEF TypeOK
<1>0. /\ row \in [status : {"live", "deleted"}, auth : Auth]
      /\ row.auth \in Auth
      /\ cache \in Token \cup {NoToken}
      /\ issued \in [Clients -> 0..MaxTokens]
      /\ \A p \in Pulls : pull[p] \in PullType /\ Equipped(pull[p])
  BY DEF Shape
<1>1. ASSUME NEW p \in Pulls, Begin(p) PROVE Shape'
  <2> DEFINE s == [Idle EXCEPT !.at = "lookup", !.auth = row.auth]
  <2>1. s \in PullType /\ Equipped(s)
    BY <1>0, IdleIsPull DEF PullType, Busy, Equipped, Idle
  <2> QED  BY <1>1, <2>1, GoesKeeps DEF Begin, Shape
<1>2. ASSUME NEW p \in Pulls, Lookup(p) PROVE Shape'
  <2> DEFINE s == IF Usable(cache) THEN Idle ELSE [pull[p] EXCEPT !.at = "exchange"]
  <2>1. s \in PullType /\ Equipped(s)
    BY <1>0, <1>2, IdleIsPull DEF Lookup, PullType, Busy, Equipped
  <2> QED  BY <1>2, <2>1, GoesKeeps DEF Lookup, Shape
<1>3. ASSUME NEW p \in Pulls, Exchange(p) PROVE Shape'
  <2> DEFINE c == pull[p].auth.client
  <2>1. PICK ttl \in TTLs, rotates \in BOOLEAN, revokes \in BOOLEAN :
          /\ rotates => issued[c] < MaxTokens
          /\ Goes(p, [pull[p] EXCEPT !.at = "reply",
                                     !.token = [client |-> c, left |-> ttl, believed |-> ttl],
                                     !.new = IF rotates THEN issued[c] + 1 ELSE 0])
          /\ issued' = IF rotates THEN [issued EXCEPT ![c] = @ + 1] ELSE issued
          /\ spent' = IF revokes THEN spent \cup ({c} \X (1..issued[c])) ELSE spent
          /\ excused' \in BOOLEAN
    BY <1>3 DEF Exchange
  <2>2. c \in Clients
    BY <1>0, <1>3 DEF Exchange, Equipped, Busy, Auth
  <2>3. issued[c] \in 0..MaxTokens
    BY <1>0, <2>2
  <2> DEFINE s == [pull[p] EXCEPT !.at = "reply",
                                  !.token = [client |-> c, left |-> ttl, believed |-> ttl],
                                  !.new = IF rotates THEN issued[c] + 1 ELSE 0]
  <2>4. /\ rotates => issued[c] + 1 \in 0..MaxTokens
        /\ (IF rotates THEN issued[c] + 1 ELSE 0) \in 0..MaxTokens
    <3>1. rotates => issued[c] < MaxTokens
      BY <2>1
    <3> HIDE DEF c
    <3>2. rotates => issued[c] + 1 \in 0..MaxTokens
      BY <2>3, <3>1
    <3>3. 0 \in 0..MaxTokens
      OBVIOUS
    <3> QED  BY <3>2, <3>3
  <2>5. [client |-> c, left |-> ttl, believed |-> ttl] \in Token
    BY <2>2 DEF Token
  <2>6. s \in PullType /\ Equipped(s)
    <3> HIDE DEF c
    <3> QED  BY <1>0, <1>3, <2>4, <2>5 DEF Exchange, PullType, Busy, Equipped
  <2>7. issued' \in [Clients -> 0..MaxTokens]
    <3>1. issued' = IF rotates THEN [issued EXCEPT ![c] = issued[c] + 1] ELSE issued
      BY <2>1
    <3> HIDE DEF c
    <3> QED  BY <1>0, <2>2, <2>4, <3>1
  <2>8. spent' \subseteq RefreshTokens
    <3>1. 1..issued[c] \subseteq 1..MaxTokens
      BY <2>3
    <3> HIDE DEF c
    <3>2. {c} \X (1..issued[c]) \subseteq RefreshTokens
      BY <2>2, <3>1 DEF RefreshTokens
    <3> QED  BY <2>1, <3>2 DEF Shape
  <2> QED  BY <1>3, <2>1, <2>6, <2>7, <2>8, GoesKeeps DEF Exchange, Shape
<1>4. ASSUME NEW p \in Pulls, ExchangeFails(p) PROVE Shape'
  BY <1>4, IdleIsPull, GoesKeeps DEF ExchangeFails, Shape
<1>5. ASSUME NEW p \in Pulls, ReplyLost(p) PROVE Shape'
  <2>1. excused' \in BOOLEAN
    BY <1>5 DEF ReplyLost
  <2> QED  BY <1>5, <2>1, IdleIsPull, GoesKeeps DEF ReplyLost, Shape
<1>6. ASSUME NEW p \in Pulls, Store(p) PROVE Shape'
  <2>1. Stored(pull[p]) \in PullType /\ Equipped(Stored(pull[p]))
    <3>1. CASE pull[p].new = 0
      BY <3>1, IdleIsPull DEF Stored
    <3>2. CASE pull[p].new # 0
      <4>1. Stored(pull[p]) = [pull[p] EXCEPT !.at = "persist", !.token = NoToken, !.wait = 0]
        BY <3>2 DEF Stored
      <4>2. 0 \in 0..MaxDelay
        OBVIOUS
      <4>3. pull[p] \in PullType /\ pull[p].auth \in Auth
        BY <1>0, <1>6 DEF Store, Busy, Equipped
      <4> QED  BY <3>2, <4>1, <4>2, <4>3 DEF PullType, Busy, Equipped
    <3> QED  BY <3>1, <3>2
  <2>2. cache' \in Token \cup {NoToken}
    BY <1>0, <1>6 DEF Store, Equipped
  <2> QED  BY <1>6, <2>1, <2>2, GoesKeeps DEF Store, Shape
<1>7. ASSUME NEW p \in Pulls, PersistRead(p) PROVE Shape'
  <2>1. CASE row.status = "live"
    <3> DEFINE auth == [row.auth EXCEPT !.refresh = <<pull[p].auth.client, pull[p].new>>]
               s == [pull[p] EXCEPT !.at = "write", !.auth = auth]
    <3>1. <<pull[p].auth.client, pull[p].new>> \in RefreshTokens
      BY <1>0, <1>7 DEF PersistRead, Equipped, Busy, Auth, PullType, RefreshTokens
    <3>2. auth \in Auth
      BY <1>0, <3>1 DEF Auth
    <3>3. s \in PullType /\ Equipped(s)
      <4> HIDE DEF auth
      <4> QED  BY <1>0, <1>7, <3>2 DEF PersistRead, PullType, Busy, Equipped
    <3> QED  BY <1>7, <2>1, <3>3, GoesKeeps DEF PersistRead, Shape
  <2>2. CASE row.status # "live"
    BY <1>7, <2>2, IdleIsPull, GoesKeeps DEF PersistRead, Shape
  <2> QED  BY <2>1, <2>2
<1>8. ASSUME NEW p \in Pulls, PersistWrite(p) PROVE Shape'
  <2>1. row' \in [status : {"live", "deleted"}, auth : Auth]
    BY <1>0, <1>8 DEF PersistWrite, Equipped, Busy
  <2> QED  BY <1>8, <2>1, IdleIsPull, GoesKeeps DEF PersistWrite, Shape
<1>9. ASSUME NEW p \in Pulls, PersistFails(p) PROVE Shape'
  <2>1. excused' \in BOOLEAN
    BY <1>9 DEF PersistFails
  <2> QED  BY <1>9, <2>1, IdleIsPull, GoesKeeps DEF PersistFails, Shape
<1>10. ASSUME NEW c \in Clients, NEW g \in {"refresh_token", "other"}, Patch(c, g)
       PROVE  Shape'
  <2>1. issued[c] \in 0..MaxTokens /\ issued[c] + 1 \in 0..MaxTokens
        /\ issued[c] + 1 \in 1..MaxTokens
    <3>1. issued[c] \in 0..MaxTokens /\ issued[c] < MaxTokens
      BY <1>0, <1>10 DEF Patch
    <3> QED  BY <3>1
  <2>2. issued' \in [Clients -> 0..MaxTokens]
    BY <1>0, <1>10, <2>1 DEF Patch
  <2>3. [grant |-> g, client |-> c, refresh |-> <<c, issued[c] + 1>>] \in Auth
    BY <2>1 DEF Auth, RefreshTokens
  <2>4. row' \in [status : {"live", "deleted"}, auth : Auth]
    BY <1>0, <1>10, <2>3 DEF Patch
  <2>5. excused' \in BOOLEAN
    BY <1>10 DEF Patch
  <2> QED  BY <1>10, <2>2, <2>4, <2>5 DEF Patch, Shape
<1>11. CASE Delete
  BY <1>0, <1>11 DEF Delete, Shape
<1>12. CASE Tick
  <2>1. cache' \in Token \cup {NoToken}
    BY <1>0, <1>12, OlderType DEF Tick, Older
  <2>2. ASSUME NEW p \in Pulls PROVE pull'[p] \in PullType /\ Equipped(pull'[p])
    <3>1. CASE pull[p].at = "reply"
      <4>1. pull'[p] = [pull[p] EXCEPT !.wait = @ + 1, !.token.left = Less(@)]
        BY <1>12, <3>1 DEF Tick
      <4>2. pull[p].wait + 1 \in 0..MaxDelay
        <5>1. pull[p].wait \in 0..MaxDelay
          BY <1>0 DEF PullType
        <5>2. pull[p].wait < MaxDelay
          BY <1>12, <3>1 DEF Tick
        <5> QED  BY <5>1, <5>2
      <4>3. [pull[p].token EXCEPT !.left = Less(@)] \in Token
        BY <1>0, <3>1, LessType DEF Equipped, Token
      <4>4. pull'[p] = [pull[p] EXCEPT !.wait = pull[p].wait + 1,
                                       !.token = [pull[p].token EXCEPT !.left = Less(@)]]
        BY <1>0, <4>1 DEF PullType
      <4> QED  BY <1>0, <3>1, <4>2, <4>3, <4>4 DEF PullType, Equipped, Busy
    <3>2. CASE pull[p].at # "reply"
      BY <1>0, <1>12, <3>2 DEF Tick
    <3> QED  BY <3>1, <3>2
  <2>3. pull' \in [Pulls -> PullType]
    BY <1>12, <2>2 DEF Tick
  <2>4. since' \in Nat
    <3>1. since' \in {0, since, since + 1}
      BY <1>12 DEF Tick
    <3>2. since \in Nat
      BY DEF Shape
    <3> QED  BY <3>1, <3>2
  <2> QED  BY <1>12, <2>1, <2>2, <2>3, <2>4 DEF Tick, Shape
<1>13. CASE Crash
  <2>1. excused' \in BOOLEAN
    BY <1>13 DEF Crash
  <2> QED  BY <1>13, <2>1, IdleIsPull DEF Crash, Shape
<1>14. CASE OpenForm
  BY <1>0, <1>14 DEF OpenForm, Shape
<1>15. CASE SaveForm
  <2>1. form \in Auth /\ form.client \in Clients
    BY <1>15 DEF SaveForm, Shape, Auth
  <2>2. row' \in [status : {"live", "deleted"}, auth : Auth]
    BY <1>0, <1>15, <2>1 DEF SaveForm
  <2>3. excused' \in BOOLEAN
    BY <1>15 DEF SaveForm
  <2> QED  BY <1>15, <2>1, <2>2, <2>3 DEF SaveForm, Shape
<1>16. CASE UNCHANGED vars
  BY <1>16 DEF vars, Shape
<1> QED
  BY <1>1, <1>2, <1>3, <1>4, <1>5, <1>6, <1>7, <1>8, <1>9, <1>10, <1>11, <1>12,
     <1>13, <1>14, <1>15, <1>16, StepCases

\* The shape holds in every state.
LEMMA ShapeAlways == Spec => []Shape
BY ShapeInit, ShapeStep, PTL DEF Spec

\* Every variable keeps the type that TypeOK gives it.
THEOREM TypeCorrect == Spec => []TypeOK
<1>1. Shape => TypeOK
  BY DEF Shape
<1> QED
  BY <1>1, ShapeAlways, PTL

----------------------------------------------------------------------------
(***************************************************************************)
(* The cache counts the lifetime of a token from its storing, the server   *)
(* from its answer: they differ by what the answer waited, and less than   *)
(* the buffer.                                                             *)
(***************************************************************************)

\* What is believed of a token that waited so long is at most this wrong.
Overrated(tok, wait) == tok.believed <= tok.left + wait

ClocksAgree ==
    /\ cache # NoToken => Overrated(cache, MaxDelay)
    /\ \A p \in Pulls : pull[p].at = "reply" => Overrated(pull[p].token, pull[p].wait)

\* How a step changes the tokens that wait to be stored: none but p's.
LEMMA ClocksUndisturbed ==
    ASSUME ClocksAgree, cache' = cache, NEW p \in Pulls, NEW s, Goes(p, s), Shape,
           s.at = "reply" => Overrated(s.token, s.wait)
    PROVE  ClocksAgree'
BY DEF ClocksAgree, Goes, Shape, TypeOK, Overrated

\* A tick ages what a token lives and what it is believed to live alike.
LEMMA OlderAgrees ==
    ASSUME NEW l \in Nat, NEW b \in Nat, NEW w \in Nat, b <= l + w
    PROVE  Less(b) <= Less(l) + w /\ b <= Less(l) + (w + 1)
BY DEF Less

\* Every step keeps the clocks in agreement.
LEMMA ClocksStep == Shape /\ ClocksAgree /\ [Next]_vars => ClocksAgree'
<1> SUFFICES ASSUME Shape, ClocksAgree, [Next]_vars PROVE ClocksAgree'
  OBVIOUS
<1>0. /\ cache \in Token \cup {NoToken}
      /\ pull \in [Pulls -> PullType]
      /\ \A p \in Pulls : Equipped(pull[p])
      /\ MaxDelay \in Nat
  BY OAuthAssumption DEF Shape, TypeOK
<1>1. ASSUME NEW p \in Pulls, Begin(p) PROVE ClocksAgree'
  BY <1>1, ClocksUndisturbed DEF Begin, Idle
<1>2. ASSUME NEW p \in Pulls, Lookup(p) PROVE ClocksAgree'
  <2>1. PICK s : Goes(p, s) /\ s.at # "reply" /\ cache' = cache
    BY <1>0, <1>2 DEF Lookup, Idle, PullType
  <2> QED  BY <2>1, ClocksUndisturbed
<1>3. ASSUME NEW p \in Pulls, Exchange(p) PROVE ClocksAgree'
  <2>0. PICK ttl \in TTLs, rotates \in BOOLEAN :
          Goes(p, [pull[p] EXCEPT !.at = "reply",
                     !.token = [client |-> pull[p].auth.client, left |-> ttl, believed |-> ttl],
                     !.new = IF rotates THEN issued[pull[p].auth.client] + 1 ELSE 0])
    BY <1>3 DEF Exchange
  <2>1. PICK new :
          Goes(p, [pull[p] EXCEPT !.at = "reply",
                     !.token = [client |-> pull[p].auth.client, left |-> ttl, believed |-> ttl],
                     !.new = new])
    BY <2>0
  <2> DEFINE s == [pull[p] EXCEPT !.at = "reply",
                     !.token = [client |-> pull[p].auth.client, left |-> ttl, believed |-> ttl],
                     !.new = new]
  <2>2. s.token.left = ttl /\ s.token.believed = ttl /\ s.wait = pull[p].wait
    BY <1>0 DEF PullType
  <2>3. ttl \in Nat /\ pull[p].wait \in Nat
    BY <1>0, OAuthAssumption DEF PullType
  <2>4. Overrated(s.token, s.wait)
    BY <2>2, <2>3 DEF Overrated
  <2>5. cache' = cache
    BY <1>3 DEF Exchange
  <2> HIDE DEF s
  <2> QED  BY <2>1, <2>4, <2>5, ClocksUndisturbed DEF s
<1>4. ASSUME NEW p \in Pulls, ExchangeFails(p) \/ ReplyLost(p) \/ PersistWrite(p) \/ PersistFails(p)
      PROVE  ClocksAgree'
  BY <1>4, IdleIsPull, ClocksUndisturbed DEF ExchangeFails, ReplyLost, PersistWrite, PersistFails
<1>5. ASSUME NEW p \in Pulls, Store(p) PROVE ClocksAgree'
  <2>1. /\ pull'[p].at # "reply"
        /\ \A q \in Pulls \ {p} : pull'[q] = pull[q]
    <3>1. Stored(pull[p]).at # "reply"
      BY <1>0, IdleIsPull DEF Stored, PullType
    <3> QED  BY <1>0, <1>5, <3>1 DEF Store, Goes
  <2>2. pull[p].token \in Token /\ pull[p].wait \in 0..MaxDelay
        /\ Overrated(pull[p].token, pull[p].wait)
    BY <1>0, <1>5 DEF Store, Equipped, PullType, ClocksAgree
  <2>3. Overrated(pull[p].token, MaxDelay)
    <3>1. pull[p].token.left \in Nat /\ pull[p].token.believed \in Nat
      BY <2>2 DEF Token
    <3> QED  BY <1>0, <2>2, <3>1 DEF Overrated
  <2>4. cache' \in {cache, pull[p].token}
    BY <1>5 DEF Store
  <2> QED  BY <2>1, <2>3, <2>4 DEF ClocksAgree, Overrated
<1>6. ASSUME NEW p \in Pulls, PersistRead(p) PROVE ClocksAgree'
  <2>1. PICK s : Goes(p, s) /\ s.at # "reply" /\ cache' = cache
    BY <1>0, <1>6 DEF PersistRead, Idle, PullType
  <2> QED  BY <2>1, ClocksUndisturbed
<1>7. CASE Tick
  <2>1. ASSUME cache' # NoToken PROVE Overrated(cache', MaxDelay)
    <3>1. cache \in Token /\ cache # NoToken
      BY <1>0, <1>7, <2>1 DEF Tick, Older
    <3>2. cache'.left = Less(cache.left) /\ cache'.believed = Less(cache.believed)
      BY <1>7, <3>1 DEF Tick, Older, Token
    <3>3. cache.left \in Nat /\ cache.believed \in Nat /\ cache.believed <= cache.left + MaxDelay
      BY <3>1 DEF Token, ClocksAgree, Overrated
    <3> QED  BY <1>0, <3>2, <3>3, OlderAgrees DEF Overrated
  <2>2. ASSUME NEW p \in Pulls, pull'[p].at = "reply"
        PROVE  Overrated(pull'[p].token, pull'[p].wait)
    <3>1. pull[p].at = "reply"
      BY <1>0, <1>7, <2>2 DEF Tick, PullType
    <3>2. pull'[p] = [pull[p] EXCEPT !.wait = @ + 1, !.token.left = Less(@)]
      BY <1>7, <3>1 DEF Tick
    <3>3. pull[p].token \in Token /\ pull[p].wait \in Nat
          /\ Overrated(pull[p].token, pull[p].wait)
      BY <1>0, <3>1 DEF Equipped, PullType, ClocksAgree
    <3>4. /\ pull'[p].token = [pull[p].token EXCEPT !.left = Less(@)]
          /\ pull'[p].wait = pull[p].wait + 1
      BY <1>0, <3>2 DEF PullType
    <3>5. /\ pull'[p].token.left = Less(pull[p].token.left)
          /\ pull'[p].token.believed = pull[p].token.believed
          /\ pull[p].token.left \in Nat /\ pull[p].token.believed \in Nat
      BY <3>3, <3>4 DEF Token
    <3> QED  BY <3>3, <3>4, <3>5, OlderAgrees DEF Overrated
  <2> QED  BY <2>1, <2>2 DEF ClocksAgree
<1>8. CASE Crash
  BY <1>8, IdleIsPull DEF Crash, ClocksAgree
<1> QED
  BY <1>1, <1>2, <1>3, <1>4, <1>5, <1>6, <1>7, <1>8, StepCases
  DEF Patch, OpenForm, SaveForm, Delete, vars, ClocksAgree, Overrated

\* The lifetime of a token is counted from its storing and runs from the server's
\* answer: whatever the lifetimes, the cache never hands out a token that the
\* server has let expire, since the answer is stored within _EXPIRY_BUFFER.
THEOREM LiveTokens == Spec => []CacheHandsOutLiveTokens
<1>1. Init => ClocksAgree
  BY IdleIsPull DEF Init, ClocksAgree
<1>2. Shape /\ ClocksAgree => CacheHandsOutLiveTokens
  <2> SUFFICES ASSUME Shape, ClocksAgree, Usable(cache) PROVE cache.left > 0
    BY DEF CacheHandsOutLiveTokens
  <2>1. cache \in Token /\ cache.believed <= cache.left + MaxDelay /\ cache.believed > Buffer
    BY DEF Usable, Shape, TypeOK, ClocksAgree, Overrated
  <2>2. cache.left \in Nat /\ cache.believed \in Nat
    BY <2>1 DEF Token
  <2>3. Buffer \in Nat /\ MaxDelay \in Nat /\ MaxDelay <= Buffer
    BY OAuthAssumption
  <2> QED  BY <2>1, <2>2, <2>3
<1> QED
  BY <1>1, <1>2, ClocksStep, ShapeAlways, PTL DEF Spec

----------------------------------------------------------------------------
(***************************************************************************)
(* An old client's token.  While since counts, nobody can fetch a token    *)
(* for a client other than the one wanted, and what the cache still holds  *)
(* for another has at least as much less to live.                          *)
(***************************************************************************)

Settled == row.auth.client = wanted /\ \A p \in Pulls : ~Carries(p)

CacheFades ==
    cache # NoToken =>
        /\ cache.believed <= LongestLife
        /\ cache.client # wanted => cache.believed + since <= LongestLife

RepliesFit ==
    \A p \in Pulls : pull[p].at = "reply" =>
        /\ pull[p].token.believed <= LongestLife
        /\ pull[p].token.client = pull[p].auth.client

Fades ==
    /\ since # 0 => Settled
    /\ since <= LongestLife
    /\ CacheFades
    /\ RepliesFit

\* There is a longest lifetime.
LEMMA LongestIsLongest == LongestLife \in Nat /\ \A n \in TTLs : n <= LongestLife
<1>1. \E n \in TTLs : \A m \in TTLs : m <= n
  BY OAuthAssumption
<1>2. LongestLife \in TTLs /\ \A m \in TTLs : m <= LongestLife
  BY <1>1 DEF LongestLife
<1> QED
  BY <1>2, OAuthAssumption

\* A step of one pull that leaves the cache alone.
LEMMA FadesUndisturbed ==
    ASSUME Shape, Fades, NEW p \in Pulls, NEW s, Goes(p, s),
           cache' = cache, wanted' = wanted, since' = since,
           since # 0 => row'.auth.client = wanted,
           since # 0 /\ s.at \in Busy => s.auth.client = wanted,
           s.at = "reply" => s.token.believed <= LongestLife /\ s.token.client = s.auth.client
    PROVE  Fades'
<1>1. pull'[p] = s /\ \A q \in Pulls \ {p} : pull'[q] = pull[q]
  BY DEF Shape, TypeOK, Goes
<1>2. since # 0 => Settled'
  BY <1>1 DEF Fades, Settled, Carries
<1>3. RepliesFit'
  BY <1>1 DEF Fades, RepliesFit
<1> QED
  BY <1>2, <1>3 DEF Fades, CacheFades

\* Every step keeps the old client fading.
LEMMA FadesStep == Shape /\ Fades /\ [Next]_vars => Fades'
<1> SUFFICES ASSUME Shape, Fades, [Next]_vars PROVE Fades'
  OBVIOUS
<1>0. /\ cache \in Token \cup {NoToken}
      /\ pull \in [Pulls -> PullType]
      /\ \A p \in Pulls : Equipped(pull[p])
      /\ since \in Nat /\ LongestLife \in Nat
  BY LongestIsLongest DEF Shape, TypeOK
<1>a. ASSUME since # 0
      PROVE  /\ row.auth.client = wanted
             /\ \A p \in Pulls : pull[p].at \in Busy => pull[p].auth.client = wanted
  BY <1>a DEF Fades, Settled, Carries
<1>1. ASSUME NEW p \in Pulls, Begin(p) PROVE Fades'
  <2> DEFINE s == [Idle EXCEPT !.at = "lookup", !.auth = row.auth]
  <2>1. s.at = "lookup" /\ s.auth = row.auth
    BY DEF Idle
  <2>2. Goes(p, s) /\ UNCHANGED <<row, cache, wanted, since>>
    BY <1>1 DEF Begin
  <2> HIDE DEF s
  <2> QED  BY <1>a, <2>1, <2>2, FadesUndisturbed
<1>2. ASSUME NEW p \in Pulls, Lookup(p) PROVE Fades'
  <2>1. PICK s : /\ Goes(p, s) /\ s.at # "reply"
                 /\ s.at \in Busy => s.auth = pull[p].auth /\ pull[p].at \in Busy
    BY <1>0, <1>2 DEF Lookup, Idle, PullType, Busy
  <2>2. UNCHANGED <<row, cache, wanted, since>>
    BY <1>2 DEF Lookup
  <2> QED  BY <1>a, <2>1, <2>2, FadesUndisturbed
<1>3. ASSUME NEW p \in Pulls, Exchange(p) PROVE Fades'
  <2>0. PICK ttl \in TTLs, rotates \in BOOLEAN :
          Goes(p, [pull[p] EXCEPT !.at = "reply",
                     !.token = [client |-> pull[p].auth.client, left |-> ttl, believed |-> ttl],
                     !.new = IF rotates THEN issued[pull[p].auth.client] + 1 ELSE 0])
    BY <1>3 DEF Exchange
  <2>1. PICK new :
          Goes(p, [pull[p] EXCEPT !.at = "reply",
                     !.token = [client |-> pull[p].auth.client, left |-> ttl, believed |-> ttl],
                     !.new = new])
    BY <2>0
  <2> DEFINE s == [pull[p] EXCEPT !.at = "reply",
                     !.token = [client |-> pull[p].auth.client, left |-> ttl, believed |-> ttl],
                     !.new = new]
  <2>2. /\ s.token.client = s.auth.client /\ s.token.believed = ttl
        /\ s.auth = pull[p].auth
    BY <1>0 DEF PullType
  <2>3. ttl <= LongestLife
    BY LongestIsLongest
  <2>4. pull[p].at \in Busy /\ UNCHANGED <<row, cache, wanted, since>>
    BY <1>3 DEF Exchange, Busy
  <2> HIDE DEF s
  <2> QED  BY <1>a, <2>1, <2>2, <2>3, <2>4, FadesUndisturbed DEF s
<1>4. ASSUME NEW p \in Pulls, ExchangeFails(p) \/ ReplyLost(p) \/ PersistFails(p)
      PROVE  Fades'
  <2>1. Goes(p, Idle) /\ UNCHANGED <<row, cache, wanted, since>>
    BY <1>4 DEF ExchangeFails, ReplyLost, PersistFails
  <2> QED  BY <1>a, <2>1, FadesUndisturbed DEF Idle, Busy
<1>5. ASSUME NEW p \in Pulls, Store(p) PROVE Fades'
  <2>1. /\ pull'[p].at # "reply"
        /\ pull'[p].at \in Busy => pull'[p].auth = pull[p].auth
        /\ \A q \in Pulls \ {p} : pull'[q] = pull[q]
    <3>1. /\ Stored(pull[p]).at # "reply"
          /\ Stored(pull[p]).at \in Busy => Stored(pull[p]).auth = pull[p].auth
      BY <1>0 DEF Stored, PullType, Idle, Busy
    <3> QED  BY <1>0, <1>5, <3>1 DEF Store, Goes
  <2>2. pull[p].at = "reply" /\ pull[p].token \in Token /\ pull[p].at \in Busy
    BY <1>0, <1>5 DEF Store, Equipped, Busy
  <2>3. UNCHANGED <<row, wanted, since>> /\ cache' \in {cache, pull[p].token}
    BY <1>5 DEF Store
  <2>4. since # 0 => Settled'
    BY <1>a, <2>1, <2>2, <2>3 DEF Settled, Carries
  <2>5. RepliesFit'
    BY <2>1 DEF Fades, RepliesFit
  <2>6. CacheFades'
    <3>1. CASE cache' = cache
      BY <2>3, <3>1 DEF Fades, CacheFades
    <3>2. CASE cache' = pull[p].token
      <4>1. /\ pull[p].token.believed <= LongestLife
            /\ pull[p].token.client # wanted => since = 0
            /\ pull[p].token.believed \in Nat
        BY <1>a, <2>2 DEF Fades, RepliesFit, Token
      <4> QED  BY <2>3, <3>2, <4>1 DEF CacheFades
    <3> QED  BY <2>3, <3>1, <3>2
  <2> QED  BY <2>3, <2>4, <2>5, <2>6 DEF Fades
<1>6. ASSUME NEW p \in Pulls, PersistRead(p) PROVE Fades'
  <2>1. PICK s : /\ Goes(p, s) /\ s.at # "reply"
                 /\ s.at \in Busy => s.auth.client = row.auth.client
    <3>1. CASE row.status = "live"
      <4> DEFINE s == [pull[p] EXCEPT !.at = "write",
               !.auth = [row.auth EXCEPT !.refresh = <<pull[p].auth.client, pull[p].new>>]]
      <4>1. Goes(p, s)
        BY <1>6, <3>1 DEF PersistRead
      <4>2. s.at = "write" /\ s.auth.client = row.auth.client
        BY <1>0 DEF PullType, Shape, TypeOK, Auth
      <4> QED  BY <4>1, <4>2
    <3>2. CASE row.status # "live"
      BY <1>6, <3>2 DEF PersistRead, Idle, Busy
    <3> QED  BY <3>1, <3>2
  <2>2. UNCHANGED <<row, cache, wanted, since>>
    BY <1>6 DEF PersistRead
  <2> QED  BY <1>a, <2>1, <2>2, FadesUndisturbed
<1>7. ASSUME NEW p \in Pulls, PersistWrite(p) PROVE Fades'
  <2>1. Goes(p, Idle) /\ UNCHANGED <<cache, wanted, since>> /\ pull[p].at \in Busy
    BY <1>7 DEF PersistWrite, Busy
  <2>2. row'.auth \in {row.auth, pull[p].auth}
    BY <1>7 DEF PersistWrite, Shape, TypeOK
  <2> QED  BY <1>a, <2>1, <2>2, FadesUndisturbed DEF Idle, Busy
<1>8. ASSUME NEW c \in Clients, NEW g \in {"refresh_token", "other"}, Patch(c, g)
      PROVE  Fades'
  <2>1. since' = 0 /\ cache' = cache /\ pull' = pull
    BY <1>8 DEF Patch
  <2>2. cache # NoToken => cache.believed \in Nat
    BY <1>0 DEF Token
  <2> QED  BY <1>0, <2>1, <2>2 DEF Fades, CacheFades, RepliesFit
<1>9. CASE Delete
  BY <1>9 DEF Delete, Fades, Settled, Carries, CacheFades, RepliesFit, Shape, TypeOK
<1>10. CASE Tick
  <2>1. row' = row /\ wanted' = wanted
    BY <1>10 DEF Tick
  <2>2. ASSUME NEW p \in Pulls
        PROVE  /\ pull'[p].at = pull[p].at /\ pull'[p].auth = pull[p].auth
               /\ pull[p].at = "reply" =>
                     /\ pull'[p].token.believed = pull[p].token.believed
                     /\ pull'[p].token.client = pull[p].token.client
    <3>1. CASE pull[p].at = "reply"
      <4>1. pull'[p] = [pull[p] EXCEPT !.wait = @ + 1, !.token.left = Less(@)]
        BY <1>10, <3>1 DEF Tick
      <4>2. pull'[p].token = [pull[p].token EXCEPT !.left = Less(@)]
        BY <1>0, <4>1 DEF PullType
      <4>3. pull[p].token \in Token
        BY <1>0, <3>1 DEF Equipped
      <4> QED  BY <1>0, <4>1, <4>2, <4>3 DEF PullType, Token
    <3>2. CASE pull[p].at # "reply"
      BY <1>10, <3>2 DEF Tick
    <3> QED  BY <3>1, <3>2
  <2>3. \/ since' = 0
        \/ /\ Settled
           /\ \/ since' = since /\ since = LongestLife
              \/ since' = since + 1 /\ since # LongestLife
    BY <1>10 DEF Tick, Settled
  <2>4. since' # 0 => Settled'
    <3>1. Settled => \A p \in Pulls : ~Carries(p)'
      <4> SUFFICES ASSUME Settled, NEW p \in Pulls PROVE ~Carries(p)'
        OBVIOUS
      <4>1. ~Carries(p) /\ pull'[p].at = pull[p].at /\ pull'[p].auth = pull[p].auth
        BY <2>2 DEF Settled
      <4> QED  BY <2>1, <4>1 DEF Carries
    <3> QED  BY <2>1, <2>3, <3>1 DEF Settled
  <2>5. since' <= LongestLife /\ since' <= since + 1 /\ since' \in Nat
    <3>1. since <= LongestLife
      BY DEF Fades
    <3> QED  BY <1>0, <2>3, <3>1
  <2>6. CacheFades'
    <3> SUFFICES ASSUME cache' # NoToken
                 PROVE  /\ cache'.believed <= LongestLife
                        /\ cache'.client # wanted => cache'.believed + since' <= LongestLife
      BY <2>1 DEF CacheFades
    <3>1. cache \in Token /\ cache # NoToken
      BY <1>0, <1>10 DEF Tick, Older
    <3>2. cache'.client = cache.client /\ cache'.believed = Less(cache.believed)
      BY <1>10, <3>1 DEF Tick, Older, Token
    <3>3. /\ cache.believed \in Nat /\ cache.believed <= LongestLife
          /\ cache.client # wanted => cache.believed + since <= LongestLife
      BY <3>1 DEF Token, Fades, CacheFades
    <3>4. Less(cache.believed) = 0
          \/ (Less(cache.believed) = cache.believed - 1 /\ Less(cache.believed) \in Nat)
      BY <3>3 DEF Less
    <3> DEFINE less == Less(cache.believed)
    <3>5. less <= LongestLife /\ less <= cache.believed
      BY <1>0, <3>3, <3>4
    <3>6. cache.believed + since <= LongestLife => less + since' <= LongestLife
      <4> DEFINE b == cache.believed
      <4>1. b \in Nat /\ (less = 0 \/ (less = b - 1 /\ less \in Nat))
        BY <3>3, <3>4
      <4> HIDE DEF less, b
      <4>2. b + since <= LongestLife => less + since' <= LongestLife
        BY <1>0, <2>5, <4>1
      <4> QED  BY <4>2 DEF b
    <3> HIDE DEF less
    <3> QED  BY <2>1, <3>2, <3>3, <3>5, <3>6 DEF less
  <2>7. RepliesFit'
    <3> SUFFICES ASSUME NEW p \in Pulls, pull'[p].at = "reply"
                 PROVE  /\ pull'[p].token.believed <= LongestLife
                        /\ pull'[p].token.client = pull'[p].auth.client
      BY DEF RepliesFit
    <3>1. /\ pull[p].token.believed <= LongestLife
          /\ pull[p].token.client = pull[p].auth.client
      BY <2>2 DEF Fades, RepliesFit
    <3>2. /\ pull'[p].auth = pull[p].auth
          /\ pull'[p].token.believed = pull[p].token.believed
          /\ pull'[p].token.client = pull[p].token.client
      BY <2>2
    <3> QED  BY <3>1, <3>2
  <2> QED  BY <2>4, <2>5, <2>6, <2>7 DEF Fades
<1>11. CASE Crash
  <2>1. cache' = NoToken /\ \A p \in Pulls : pull'[p] = Idle
    BY <1>11 DEF Crash
  <2> QED  BY <1>11, <2>1 DEF Crash, Fades, Settled, Carries, CacheFades, RepliesFit, Idle, Busy
<1>12. CASE OpenForm
  BY <1>12 DEF OpenForm, Fades, Settled, Carries, CacheFades, RepliesFit
<1>13. CASE SaveForm
  <2>1. since' = 0 /\ cache' = cache /\ pull' = pull
    BY <1>13 DEF SaveForm
  <2>2. cache # NoToken => cache.believed \in Nat
    BY <1>0 DEF Token
  <2> QED  BY <1>0, <2>1, <2>2 DEF Fades, CacheFades, RepliesFit
<1>14. CASE UNCHANGED vars
  BY <1>14 DEF vars, Fades, Settled, Carries, CacheFades, RepliesFit
<1> QED
  BY <1>1, <1>2, <1>3, <1>4, <1>5, <1>6, <1>7, <1>8, <1>9, <1>10, <1>11, <1>12,
     <1>13, <1>14, StepCases

\* _TOKEN_CACHE is not emptied when a connector is given to another client.  The
\* old client's token is handed out for at most one lifetime after the last pull
\* that read the old configuration, whatever pulls, patches and crashes come.
THEOREM OldClientFades == Spec => []OldClientDiesOut
<1>1. Init => Fades
  BY LongestIsLongest DEF Init, Fades, CacheFades, RepliesFit, Idle
<1>2. Shape /\ Fades => OldClientDiesOut
  <2> SUFFICES ASSUME Shape, Fades, Usable(cache), cache.client # wanted
               PROVE  since < LongestLife
    BY DEF OldClientDiesOut
  <2>1. cache \in Token /\ cache.believed > Buffer /\ cache.believed + since <= LongestLife
    BY DEF Usable, Shape, TypeOK, Fades, CacheFades
  <2>2. cache.believed \in Nat /\ since \in Nat /\ LongestLife \in Nat
    BY <2>1, LongestIsLongest DEF Token, Shape, TypeOK
  <2>3. Buffer \in Nat
    BY OAuthAssumption
  <2> QED  BY <2>1, <2>2, <2>3
<1> QED
  BY <1>1, <1>2, FadesStep, ShapeAlways, PTL DEF Spec

----------------------------------------------------------------------------
(***************************************************************************)
(* The row's refresh token.  As long as nothing excuses it, everybody      *)
(* works for the client that is wanted, at most one pull holds a rotated   *)
(* token, and it is one the server takes: a token is spent only by a later *)
(* rotation, which would be the other pull's.                              *)
(***************************************************************************)

\* The server refuses only tokens it has issued.
SpentWasIssued == \A tok \in spent : tok[2] <= issued[tok[1]]

Rotated(p) == <<wanted, pull[p].new>>

OneClient ==
    /\ row.auth.client = wanted
    /\ \A p \in Pulls : pull[p].at \in Busy => pull[p].auth.client = wanted

HolderIsSound ==
    /\ \A p, q \in Pulls : Holds(p) /\ Holds(q) => p = q
    /\ \A p \in Pulls : Holds(p) => Rotated(p) \notin spent
    /\ \A p \in Pulls : pull[p].at = "write" => pull[p].auth.refresh = Rotated(p)

RowIsSound ==
    (\A p \in Pulls : ~Holds(p)) =>
        \/ row.status = "deleted" \/ row.auth.grant = "other"
        \/ row.auth.refresh \notin spent /\ row.auth.refresh[1] = wanted

Sound == OneClient /\ HolderIsSound /\ RowIsSound

Keeps == SpentWasIssued /\ (~excused => Sound)

\* A step of one pull that leaves the row and the server alone, after which the pull
\* holds what it held before.
LEMMA SoundUndisturbed ==
    ASSUME Shape, Sound, NEW p \in Pulls, NEW s, Goes(p, s),
           row' = row, wanted' = wanted, spent' = spent,
           s.at \in Busy => s.auth.client = wanted,
           s.at \in {"reply", "persist", "write"} /\ s.new # 0 => Holds(p) /\ s.new = pull[p].new,
           Holds(p) => s.at \in {"reply", "persist", "write"} /\ s.new # 0,
           s.at = "write" => s.auth.refresh = <<wanted, s.new>>
    PROVE  Sound'
<1>1. pull'[p] = s /\ \A q \in Pulls \ {p} : pull'[q] = pull[q]
  BY DEF Shape, TypeOK, Goes
<1>2. OneClient'
  BY <1>1 DEF Sound, OneClient
<1>3. \A q \in Pulls : Holds(q)' <=> Holds(q)
  BY <1>1 DEF Holds
<1>4. \A q \in Pulls : Holds(q) => Rotated(q)' = Rotated(q)
  BY <1>1 DEF Holds, Rotated
<1>5. \A q \in Pulls : pull'[q].at = "write" => pull'[q].auth.refresh = Rotated(q)'
  BY <1>1 DEF Sound, HolderIsSound, Rotated
<1>6. HolderIsSound'
  BY <1>3, <1>4, <1>5 DEF Sound, HolderIsSound
<1>7. RowIsSound'
  BY <1>3 DEF Sound, RowIsSound
<1> QED
  BY <1>2, <1>6, <1>7 DEF Sound

\* Every step that is not excused keeps the row and its one holder sound.
LEMMA KeepsStep == Shape /\ Keeps /\ [Next]_vars => Keeps'
<1> SUFFICES ASSUME Shape, Keeps, [Next]_vars PROVE Keeps'
  OBVIOUS
<1>0. /\ row \in [status : {"live", "deleted"}, auth : Auth]
      /\ row.auth \in Auth
      /\ pull \in [Pulls -> PullType]
      /\ \A p \in Pulls : Equipped(pull[p])
      /\ issued \in [Clients -> 0..MaxTokens]
      /\ spent \subseteq RefreshTokens
      /\ MaxTokens \in Nat
  BY OAuthAssumption DEF Shape, TypeOK
<1>1. ASSUME NEW p \in Pulls, Begin(p) PROVE Keeps'
  <2> DEFINE s == [Idle EXCEPT !.at = "lookup", !.auth = row.auth]
  <2>1. s.at = "lookup" /\ s.auth = row.auth
    BY DEF Idle
  <2>2. Goes(p, s) /\ ~Holds(p) /\ UNCHANGED <<row, issued, spent, wanted, excused>>
    BY <1>1 DEF Begin, Holds
  <2> HIDE DEF s
  <2>3. Sound => Sound'
    BY <2>1, <2>2, SoundUndisturbed DEF Sound, OneClient
  <2> QED  BY <2>2, <2>3 DEF Keeps, SpentWasIssued
<1>2. ASSUME NEW p \in Pulls, Lookup(p) PROVE Keeps'
  <2>1. PICK s : /\ Goes(p, s) /\ s.at \in {"idle", "exchange"}
                 /\ s.at \in Busy => s.auth = pull[p].auth /\ pull[p].at \in Busy
    BY <1>0, <1>2 DEF Lookup, Idle, PullType, Busy
  <2>2. ~Holds(p) /\ UNCHANGED <<row, issued, spent, wanted, excused>>
    BY <1>2 DEF Lookup, Holds
  <2>3. Sound => Sound'
    BY <2>1, <2>2, SoundUndisturbed DEF Sound, OneClient
  <2> QED  BY <2>2, <2>3 DEF Keeps, SpentWasIssued
<1>3. ASSUME NEW p \in Pulls, Exchange(p) PROVE Keeps'
  <2> DEFINE c == pull[p].auth.client
  <2>1. PICK ttl \in TTLs, rotates \in BOOLEAN, revokes \in BOOLEAN :
          /\ revokes => rotates
          /\ Goes(p, [pull[p] EXCEPT !.at = "reply",
                                     !.token = [client |-> c, left |-> ttl, believed |-> ttl],
                                     !.new = IF rotates THEN issued[c] + 1 ELSE 0])
          /\ issued' = IF rotates THEN [issued EXCEPT ![c] = @ + 1] ELSE issued
          /\ spent' = IF revokes THEN spent \cup ({c} \X (1..issued[c])) ELSE spent
          /\ excused' = (excused \/ (rotates /\ \E q \in Pulls \ {p} : Holds(q)))
    BY <1>3 DEF Exchange
  <2>2. /\ c \in Clients /\ issued[c] \in Nat /\ ~Holds(p)
        /\ pull[p].at \in Busy /\ row' = row /\ wanted' = wanted
    <3>1. pull[p].at = "exchange" /\ row' = row /\ wanted' = wanted
      BY <1>3 DEF Exchange
    <3>2. pull[p].at \in Busy /\ ~Holds(p)
      BY <3>1 DEF Busy, Holds
    <3>3. c \in Clients
      BY <1>0, <3>2 DEF Equipped, Auth
    <3>4. issued[c] \in Nat
      BY <1>0, <3>3
    <3> QED  BY <3>1, <3>2, <3>3, <3>4
  <2> DEFINE s == [pull[p] EXCEPT !.at = "reply",
                                  !.token = [client |-> c, left |-> ttl, believed |-> ttl],
                                  !.new = IF rotates THEN issued[c] + 1 ELSE 0]
  <2>3. /\ s.at = "reply" /\ s.auth = pull[p].auth
        /\ s.new = IF rotates THEN issued[c] + 1 ELSE 0
    BY <1>0 DEF PullType
  <2>4. Goes(p, s)
    BY <2>1
  <2>5. SpentWasIssued'
    <3> SUFFICES ASSUME NEW tok \in spent' PROVE tok[2] <= issued'[tok[1]]
      BY DEF SpentWasIssued
    <3>1. tok \in spent \/ (revokes /\ tok \in {c} \X (1..issued[c]))
      BY <2>1
    <3> HIDE DEF c
    <3>2. tok[1] \in Clients /\ tok[2] \in Nat /\ tok[2] <= issued[tok[1]]
      <4>1. CASE tok \in spent
        BY <1>0, <4>1 DEF Keeps, SpentWasIssued, RefreshTokens
      <4>2. CASE tok \in {c} \X (1..issued[c])
        BY <2>2, <4>2
      <4> QED  BY <3>1, <4>1, <4>2
    <3>3. issued[tok[1]] \in Nat
      BY <1>0, <3>2
    <3>4. issued'[tok[1]] = issued[tok[1]] \/ issued'[tok[1]] = issued[tok[1]] + 1
      BY <1>0, <2>1, <2>2, <3>2
    <3> QED  BY <3>2, <3>3, <3>4
  <2>6. ASSUME ~excused' PROVE Sound'
    <3>1. ~excused /\ (rotates => \A q \in Pulls \ {p} : ~Holds(q))
      BY <2>1, <2>6
    <3>2. Sound /\ c = wanted
      BY <2>2, <3>1 DEF Keeps, Sound, OneClient
    <3>3. CASE ~rotates
      <4>1. spent' = spent /\ s.new = 0
        BY <2>1, <2>3, <3>3
      <4> HIDE DEF s
      <4> QED  BY <2>2, <2>3, <2>4, <3>2, <4>1, SoundUndisturbed
    <3>4. CASE rotates
      <4>1. pull'[p] = s /\ \A q \in Pulls \ {p} : pull'[q] = pull[q]
        BY <1>0, <2>4 DEF Goes
      <4>2. Holds(p)' /\ \A q \in Pulls \ {p} : ~Holds(q)'
        BY <2>2, <2>3, <3>1, <3>4, <4>1 DEF Holds
      <4>3. OneClient'
        BY <2>2, <2>3, <3>2, <4>1 DEF Sound, OneClient
      <4>4. <<c, issued[c] + 1>> \notin spent'
        <5> HIDE DEF c
        <5>1. <<c, issued[c] + 1>> \notin spent
          <6> SUFFICES ASSUME <<c, issued[c] + 1>> \in spent PROVE FALSE
            OBVIOUS
          <6>1. issued[c] + 1 <= issued[c]
            BY DEF Keeps, SpentWasIssued
          <6> QED  BY <2>2, <6>1
        <5>2. issued[c] + 1 \notin 1..issued[c]
          BY <2>2
        <5> QED  BY <2>1, <5>1, <5>2
      <4>5. Rotated(p)' = <<c, issued[c] + 1>>
        BY <2>2, <2>3, <3>2, <3>4, <4>1 DEF Rotated
      <4>6. \A q \in Pulls : pull'[q].at = "write" => pull'[q].auth.refresh = Rotated(q)'
        BY <2>2, <2>3, <3>2, <4>1 DEF Sound, HolderIsSound, Rotated
      <4>7. HolderIsSound'
        BY <4>2, <4>4, <4>5, <4>6 DEF HolderIsSound
      <4>8. RowIsSound'
        BY <4>2 DEF RowIsSound
      <4> QED  BY <4>3, <4>7, <4>8 DEF Sound
    <3> QED  BY <3>3, <3>4
  <2> QED  BY <2>5, <2>6 DEF Keeps
<1>4. ASSUME NEW p \in Pulls, ExchangeFails(p) \/ ReplyLost(p) \/ PersistFails(p)
      PROVE  Keeps'
  <2>1. /\ Goes(p, Idle) /\ UNCHANGED <<row, issued, spent, wanted>>
        /\ Holds(p) => excused'
        /\ ~excused' => ~excused
    <3>1. CASE ExchangeFails(p)
      BY <3>1 DEF ExchangeFails, Holds
    <3>2. CASE ReplyLost(p)
      BY <3>2 DEF ReplyLost
    <3>3. CASE PersistFails(p)
      BY <3>3 DEF PersistFails
    <3> QED  BY <1>4, <3>1, <3>2, <3>3
  <2>2. Sound /\ ~Holds(p) => Sound'
    BY <2>1, SoundUndisturbed DEF Idle, Busy
  <2> QED  BY <2>1, <2>2 DEF Keeps, SpentWasIssued
<1>5. ASSUME NEW p \in Pulls, Store(p) PROVE Keeps'
  <2>1. /\ Stored(pull[p]).at \in {"idle", "persist"}
        /\ Stored(pull[p]).at = "persist" =>
              pull[p].new # 0 /\ Stored(pull[p]).new = pull[p].new
              /\ Stored(pull[p]).auth = pull[p].auth
        /\ pull[p].new # 0 => Stored(pull[p]).at = "persist"
    BY <1>0 DEF Stored, PullType, Idle
  <2>2. /\ pull[p].at = "reply" /\ pull[p].at \in Busy /\ Goes(p, Stored(pull[p]))
        /\ UNCHANGED <<row, issued, spent, wanted, excused>>
    BY <1>5 DEF Store, Busy
  <2>3. Holds(p) <=> pull[p].new # 0
    BY <2>2 DEF Holds
  <2>4. Sound => Sound'
    <3> DEFINE s == Stored(pull[p])
    <3>1. Sound => pull[p].auth.client = wanted
      BY <2>2 DEF Sound, OneClient
    <3> HIDE DEF s
    <3> QED  BY <2>1, <2>2, <2>3, <3>1, SoundUndisturbed DEF s, Busy
  <2> QED  BY <2>2, <2>4 DEF Keeps, SpentWasIssued
<1>6. ASSUME NEW p \in Pulls, PersistRead(p) PROVE Keeps'
  <2>0. /\ pull[p].at = "persist" /\ pull[p].at \in Busy /\ Holds(p)
        /\ UNCHANGED <<row, issued, spent, wanted, excused>>
    BY <1>0, <1>6 DEF PersistRead, Busy, Holds, Equipped
  <2>1. ASSUME Sound PROVE Sound'
    <3>1. pull[p].auth.client = wanted /\ row.auth.client = wanted
      BY <2>0, <2>1 DEF Sound, OneClient
    <3>2. CASE row.status = "live"
      <4> DEFINE s == [pull[p] EXCEPT !.at = "write",
               !.auth = [row.auth EXCEPT !.refresh = <<pull[p].auth.client, pull[p].new>>]]
      <4>1. Goes(p, s)
        BY <1>6, <3>2 DEF PersistRead
      <4>2. /\ s.at = "write" /\ s.auth.client = row.auth.client /\ s.new = pull[p].new
            /\ s.auth.refresh = <<pull[p].auth.client, pull[p].new>>
        BY <1>0 DEF PullType, Auth
      <4>3. s.new # 0
        BY <1>0, <2>0, <4>2 DEF Equipped
      <4> HIDE DEF s
      <4> QED  BY <2>0, <2>1, <3>1, <4>1, <4>2, <4>3, SoundUndisturbed
    <3>3. CASE row.status # "live"
      <4>1. pull'[p] = Idle /\ \A q \in Pulls \ {p} : pull'[q] = pull[q]
        BY <1>0, <1>6, <3>3 DEF PersistRead, Goes
      <4>2. OneClient'
        BY <2>0, <2>1, <4>1 DEF Sound, OneClient, Idle, Busy
      <4>3. ~Holds(p)' /\ \A q \in Pulls \ {p} : Holds(q)' <=> Holds(q)
        BY <4>1 DEF Holds, Idle
      <4>4. HolderIsSound'
        BY <2>0, <2>1, <4>1, <4>3 DEF Sound, HolderIsSound, Rotated, Idle
      <4>5. RowIsSound'
        BY <1>0, <2>0, <3>3 DEF RowIsSound
      <4> QED  BY <4>2, <4>4, <4>5 DEF Sound
    <3> QED  BY <3>2, <3>3
  <2> QED  BY <2>0, <2>1 DEF Keeps, SpentWasIssued
<1>7. ASSUME NEW p \in Pulls, PersistWrite(p) PROVE Keeps'
  <2>0. /\ pull[p].at = "write" /\ pull[p].at \in Busy /\ Holds(p)
        /\ UNCHANGED <<issued, spent, wanted, excused>>
    BY <1>0, <1>7 DEF PersistWrite, Busy, Holds, Equipped
  <2>1. ASSUME Sound PROVE Sound'
    <3>1. pull'[p] = Idle /\ \A q \in Pulls \ {p} : pull'[q] = pull[q]
      BY <1>0, <1>7 DEF PersistWrite, Goes
    <3>2. row'.status = row.status
          /\ row'.auth = IF row.status = "live" THEN pull[p].auth ELSE row.auth
      BY <1>0, <1>7 DEF PersistWrite
    <3>3. OneClient'
      BY <2>0, <2>1, <3>1, <3>2 DEF Sound, OneClient, Idle, Busy
    <3>4. ~Holds(p)' /\ \A q \in Pulls \ {p} : Holds(q)' <=> Holds(q)
      BY <3>1 DEF Holds, Idle
    <3>5. HolderIsSound'
      BY <2>0, <2>1, <3>1, <3>4 DEF Sound, HolderIsSound, Rotated, Idle
    <3>6. pull[p].auth.refresh = <<wanted, pull[p].new>>
          /\ pull[p].auth.refresh \notin spent
      BY <2>0, <2>1 DEF Sound, HolderIsSound, Rotated
    <3>7. RowIsSound'
      BY <1>0, <2>0, <3>2, <3>6 DEF RowIsSound
    <3> QED  BY <3>3, <3>5, <3>7 DEF Sound
  <2> QED  BY <2>0, <2>1 DEF Keeps, SpentWasIssued
<1>8. ASSUME NEW c \in Clients, NEW g \in {"refresh_token", "other"}, Patch(c, g)
      PROVE  Keeps'
  <2>1. issued[c] \in Nat
    BY <1>0
  <2>2. SpentWasIssued'
    <3> SUFFICES ASSUME NEW tok \in spent PROVE tok[2] <= issued'[tok[1]]
      BY <1>8 DEF Patch, SpentWasIssued
    <3>1. tok[1] \in Clients /\ tok[2] \in Nat /\ tok[2] <= issued[tok[1]]
      BY <1>0 DEF Keeps, SpentWasIssued, RefreshTokens
    <3>2. issued[tok[1]] \in Nat
      BY <1>0, <3>1
    <3>3. issued'[tok[1]] = issued[tok[1]] \/ issued'[tok[1]] = issued[tok[1]] + 1
      BY <1>0, <1>8, <3>1 DEF Patch
    <3> QED  BY <3>1, <3>2, <3>3
  <2>3. ASSUME ~excused' PROVE Sound'
    <3>1. \A p \in Pulls : pull[p].at \notin Busy
      BY <1>8, <2>3 DEF Patch
    <3>2. pull' = pull /\ wanted' = c /\ spent' = spent
      BY <1>8 DEF Patch
    <3>3. \A p \in Pulls : ~Holds(p)' /\ pull'[p].at # "write"
      BY <3>1, <3>2 DEF Holds, Busy
    <3>4. row'.auth = [grant |-> g, client |-> c, refresh |-> <<c, issued[c] + 1>>]
      BY <1>0, <1>8 DEF Patch
    <3>5. <<c, issued[c] + 1>> \notin spent
      <4> SUFFICES ASSUME <<c, issued[c] + 1>> \in spent PROVE FALSE
        OBVIOUS
      <4>1. issued[c] + 1 <= issued[c]
        BY DEF Keeps, SpentWasIssued
      <4> QED  BY <2>1, <4>1
    <3>6. OneClient'
      BY <3>1, <3>2, <3>4 DEF OneClient
    <3>7. HolderIsSound'
      BY <3>3 DEF HolderIsSound
    <3>8. RowIsSound'
      BY <3>2, <3>4, <3>5 DEF RowIsSound
    <3> QED  BY <3>6, <3>7, <3>8 DEF Sound
  <2> QED  BY <2>2, <2>3 DEF Keeps
<1>9. CASE Delete
  <2>1. row'.auth = row.auth /\ row'.status = "deleted"
        /\ UNCHANGED <<pull, issued, spent, wanted, excused>>
    BY <1>0, <1>9 DEF Delete
  <2> QED
    BY <2>1 DEF Keeps, Sound, SpentWasIssued, OneClient, HolderIsSound, RowIsSound, Holds, Rotated
<1>10. CASE Tick
  <2>1. UNCHANGED <<row, issued, spent, wanted, excused>>
    BY <1>10 DEF Tick
  <2>2. ASSUME NEW p \in Pulls
        PROVE  /\ pull'[p].at = pull[p].at /\ pull'[p].auth = pull[p].auth
               /\ pull'[p].new = pull[p].new
    BY <1>0, <1>10 DEF Tick, PullType
  <2>3. ASSUME NEW p \in Pulls PROVE (Holds(p)' <=> Holds(p)) /\ Rotated(p)' = Rotated(p)
    BY <2>1, <2>2 DEF Holds, Rotated
  <2>4. OneClient => OneClient'
    BY <2>1, <2>2 DEF OneClient
  <2>5. HolderIsSound => HolderIsSound'
    BY <2>1, <2>2, <2>3 DEF HolderIsSound
  <2>6. RowIsSound => RowIsSound'
    BY <2>1, <2>3 DEF RowIsSound
  <2> QED  BY <2>1, <2>4, <2>5, <2>6 DEF Keeps, SpentWasIssued, Sound
<1>11. CASE Crash
  <2>1. /\ UNCHANGED <<row, issued, spent, wanted>>
        /\ \A p \in Pulls : pull'[p] = Idle
        /\ ~excused' => ~excused /\ \A p \in Pulls : ~Holds(p)
    BY <1>11 DEF Crash
  <2>2. \A p \in Pulls : ~Holds(p)' /\ pull'[p].at = "idle"
    BY <2>1 DEF Holds, Idle
  <2>3. ASSUME ~excused' PROVE Sound'
    <3>1. Sound /\ \A p \in Pulls : ~Holds(p)
      BY <2>1, <2>3 DEF Keeps
    <3>2. OneClient'
      BY <2>1, <2>2, <3>1 DEF Sound, OneClient, Busy
    <3>3. HolderIsSound'
      BY <2>2 DEF HolderIsSound
    <3>4. RowIsSound'
      BY <2>1, <3>1 DEF Sound, RowIsSound
    <3> QED  BY <3>2, <3>3, <3>4 DEF Sound
  <2> QED  BY <2>1, <2>3 DEF Keeps, SpentWasIssued
<1>12. CASE OpenForm
  BY <1>12
  DEF OpenForm, Keeps, Sound, SpentWasIssued, OneClient, HolderIsSound, RowIsSound, Holds, Rotated
<1>13. CASE SaveForm
  <2>1. UNCHANGED <<pull, issued, spent>> /\ wanted' = form.client
    BY <1>13 DEF SaveForm
  <2>2. ASSUME ~excused' PROVE Sound'
    <3>1. ~excused /\ form = row.auth
      BY <1>13, <2>2 DEF SaveForm
    <3>2. Sound
      BY <3>1 DEF Keeps
    <3>3. row' = row
      BY <1>0, <1>13, <3>1 DEF SaveForm
    <3>4. wanted' = wanted
      BY <2>1, <3>1, <3>2 DEF Sound, OneClient
    <3> QED
      BY <2>1, <3>2, <3>3, <3>4
      DEF Sound, OneClient, HolderIsSound, RowIsSound, Holds, Rotated
  <2> QED  BY <2>1, <2>2 DEF Keeps, SpentWasIssued
<1>14. CASE UNCHANGED vars
  BY <1>14
  DEF vars, Keeps, Sound, SpentWasIssued, OneClient, HolderIsSound, RowIsSound, Holds, Rotated
<1> QED
  BY <1>1, <1>2, <1>3, <1>4, <1>5, <1>6, <1>7, <1>8, <1>9, <1>10, <1>11, <1>12,
     <1>13, <1>14, StepCases

\* Nothing but the six reasons (a crash, a lost reply, a failed write, overlapping
\* pulls, a PATCH meanwhile, an edit form that resends what it loaded before) leaves the connector with a refresh token that the server
\* takes no more or that is another client's, for any number of pulls.
THEOREM RowStaysUsable == Spec => []RowKeepsUp
<1>1. Init => Keeps
  <2> SUFFICES ASSUME Init PROVE Keeps
    OBVIOUS
  <2>1. \A p \in Pulls : pull[p].at = "idle" /\ ~Holds(p)
    BY DEF Init, Idle, Holds
  <2>2. spent = {} /\ row.auth.client = wanted /\ row.auth.refresh[1] = wanted
    BY DEF Init
  <2> QED
    BY <2>1, <2>2
    DEF Keeps, SpentWasIssued, Sound, OneClient, HolderIsSound, RowIsSound, Busy
<1>2. Keeps => RowKeepsUp
  BY DEF Keeps, Sound, OneClient, RowIsSound, RowKeepsUp
<1> QED
  BY <1>1, <1>2, KeepsStep, ShapeAlways, PTL DEF Spec

===============================================================================
