---------------------------- MODULE OAuthTokens ----------------------------
(***************************************************************************)
(* The OAuth tokens of one connector (services/api/src/security/oauth.py): *)
(* the process's cache of access tokens, and the refresh token in the      *)
(* connector's auth_config, which the token server may rotate.             *)
(*                                                                         *)
(* Pulls of the connector run in the scheduler's thread and in those of    *)
(* agent streams; each passes the connector's id.  A PATCH of the          *)
(* connector runs on the event loop in between.  There is no lock: a pull  *)
(* copies auth_config, asks the cache, exchanges, stores, reads the row    *)
(* again and writes it.  The token server is external and behaves as RFC   *)
(* 6749 allows.  Times are relative and counted in ticks.                  *)
(***************************************************************************)
EXTENDS Naturals

CONSTANTS
    Pulls,       \* concurrent calls of land_api_pull for the connector
    Clients,     \* registrations with the token server (client_id, secret)
    TTLs,        \* expires_in of an access token
    Buffer,      \* _EXPIRY_BUFFER
    MaxDelay,    \* longest time from the server's answer to its storing
    MaxTokens    \* bound on the refresh tokens that a client is ever given

\* An exchange has 15 s to connect, to send and to receive each; the buffer
\* is 60 s.  There is a longest lifetime that the server gives.
ASSUME OAuthAssumption ==
    /\ TTLs \subseteq Nat
    /\ \E n \in TTLs : \A m \in TTLs : m <= n
    /\ Buffer \in Nat /\ MaxDelay \in Nat /\ MaxDelay <= Buffer
    /\ MaxTokens \in Nat \ {0}

VARIABLES
    row,         \* the connector's row: its status and its auth_config
    cache,       \* _TOKEN_CACHE["connector:<id>"]
    pull,        \* pull[p]: what a call has read, and where it is
    issued,      \* issued[c]: number of the last refresh token given to c
    spent,       \* refresh tokens that the server takes no more
    form,        \* the auth_config that an open edit form of the dashboard holds
    \* History variables, guard nothing.
    wanted,      \* the client that was configured last
    excused,     \* a reason was met for which the row's token may be useless
    since        \* ticks since a client other than wanted could get a token

vars == <<row, cache, pull, issued, spent, form, wanted, excused, since>>

\* A refresh token is known by the client it was given to and its number.
RefreshTokens == Clients \X (1..MaxTokens)

\* The refresh grant and all others, which have no refresh token.
Auth == [grant : {"refresh_token", "other"}, client : Clients, refresh : RefreshTokens]

\* How long an access token lives by the server's clock (left), and by what
\* the cache wrote down (believed).
Token == [client : Clients, left : Nat, believed : Nat]

NoToken == [none |-> TRUE]
NoAuth == [none |-> TRUE]

Busy == {"lookup", "exchange", "reply", "persist", "write"}
Idle == [at |-> "idle", auth |-> NoAuth, token |-> NoToken, new |-> 0, wait |-> 0]

PullType == [at : Busy \cup {"idle"}, auth : Auth \cup {NoAuth},
             token : Token \cup {NoToken},
             new : 0..MaxTokens,    \* the number of a rotated refresh token
             wait : 0..MaxDelay]    \* ticks since the server answered

TypeOK ==
    /\ row \in [status : {"live", "deleted"}, auth : Auth]
    /\ cache \in Token \cup {NoToken}
    /\ pull \in [Pulls -> PullType]
    /\ issued \in [Clients -> 0..MaxTokens]
    /\ spent \subseteq RefreshTokens
    /\ form \in Auth \cup {NoAuth}
    /\ wanted \in Clients
    /\ excused \in BOOLEAN
    /\ since \in Nat

\* A connector was created for a client that holds its first refresh token.
Init ==
    /\ \E c \in Clients, g \in {"refresh_token", "other"} :
          /\ row = [status |-> "live",
                    auth |-> [grant |-> g, client |-> c, refresh |-> <<c, 1>>]]
          /\ wanted = c
    /\ cache = NoToken
    /\ pull = [p \in Pulls |-> Idle]
    /\ issued = [c \in Clients |-> 1]
    /\ spent = {}
    /\ form = NoAuth
    /\ excused = FALSE
    /\ since = 0

\* The refresh token that p was given in exchange for its own and has not
\* written down.
Holds(p) == pull[p].at \in {"reply", "persist", "write"} /\ pull[p].new # 0

Goes(p, s) == pull' = [pull EXCEPT ![p] = s]

----------------------------------------------------------------------------
(***************************************************************************)
(* One pull.                                                               *)
(***************************************************************************)

\* The caller reads the row; land_api_pull resolves the headers from it.
Begin(p) ==
    /\ pull[p].at = "idle"
    /\ row.status = "live"
    /\ Goes(p, [Idle EXCEPT !.at = "lookup", !.auth = row.auth])
    /\ UNCHANGED <<row, cache, issued, spent, wanted, excused, since, form>>

\* Mutant: no buffer.
UsableToTheEnd(tok) == tok # NoToken /\ tok.believed > 0

\* Mutant: an entry is there or not.
UsableForever(tok) == tok # NoToken

\* _cached_token looks under the connector's id.  Tokens of other grants are
\* stored under a hash of auth_config, where no pull looks.
Usable(tok) == tok # NoToken /\ tok.believed > Buffer

\* A pull that has its token is done here: it fetches its pages with it
\* (module Ingest) and does not come back.
Lookup(p) ==
    /\ pull[p].at = "lookup"
    /\ Goes(p, IF Usable(cache) THEN Idle ELSE [pull[p] EXCEPT !.at = "exchange"])
    /\ UNCHANGED <<row, cache, issued, spent, wanted, excused, since, form>>

\* The server takes the request and answers.  It may give a new refresh
\* token, and then may refuse the client's earlier ones from now on.
Exchange(p) ==
    LET auth == pull[p].auth
        c == auth.client
        refreshes == auth.grant = "refresh_token"
        earlier == {c} \X (1..issued[c])
    IN
    /\ pull[p].at = "exchange"
    /\ refreshes => auth.refresh[1] = c /\ auth.refresh \notin spent
    /\ \E ttl \in TTLs, rotates, revokes \in BOOLEAN :
          /\ rotates => refreshes /\ issued[c] < MaxTokens
          /\ revokes => rotates
          /\ Goes(p, [pull[p] EXCEPT !.at = "reply",
                                     !.token = [client |-> c, left |-> ttl, believed |-> ttl],
                                     !.new = IF rotates THEN issued[c] + 1 ELSE 0])
          /\ issued' = IF rotates THEN [issued EXCEPT ![c] = @ + 1] ELSE issued
          /\ spent' = IF revokes THEN spent \cup earlier ELSE spent
          /\ excused' = (excused \/ (rotates /\ \E q \in Pulls \ {p} : Holds(q)))
    /\ UNCHANGED <<row, cache, wanted, since, form>>

\* Refused, or not reachable: the pull records a failed run.
ExchangeFails(p) ==
    /\ pull[p].at = "exchange"
    /\ Goes(p, Idle)
    /\ UNCHANGED <<row, cache, issued, spent, wanted, excused, since, form>>

\* The answer does not arrive, or says something else than it should.
ReplyLost(p) ==
    /\ pull[p].at = "reply"
    /\ Goes(p, Idle)
    /\ excused' = (excused \/ Holds(p))
    /\ UNCHANGED <<row, cache, issued, spent, wanted, since, form>>

\* Only a rotated refresh token is left to do.
Stored(s) == IF s.new = 0 THEN Idle
             ELSE [s EXCEPT !.at = "persist", !.token = NoToken, !.wait = 0]

\* Mutant: a rotated refresh token is not written down.
StoreWritten(p) ==
    /\ pull[p].at = "reply"
    /\ cache' = pull[p].token
    /\ Goes(p, Idle)
    /\ UNCHANGED <<row, issued, spent, wanted, excused, since, form>>

\* _store_token counts the lifetime from now.
Store(p) ==
    /\ pull[p].at = "reply"
    /\ cache' = IF pull[p].auth.grant = "refresh_token" THEN pull[p].token ELSE cache
    /\ Goes(p, Stored(pull[p]))
    /\ UNCHANGED <<row, issued, spent, wanted, excused, since, form>>

\* Mutant: the number of the new token is not carried over.
PersistReadBlank(p) ==
    /\ pull[p].at = "persist"
    /\ row.status = "live"
    /\ Goes(p, [pull[p] EXCEPT !.at = "write", !.auth = [row.auth EXCEPT !.refresh = <<pull[p].auth.client, 0>>]])
    /\ UNCHANGED <<row, cache, issued, spent, wanted, excused, since, form>>

\* _persist_rotated_refresh_token: the row as it is now, with the new token.
PersistRead(p) ==
    /\ pull[p].at = "persist"
    /\ IF row.status = "live"
       THEN Goes(p, [pull[p] EXCEPT !.at = "write",
               !.auth = [row.auth EXCEPT !.refresh = <<pull[p].auth.client, pull[p].new>>]])
       ELSE Goes(p, Idle)
    /\ UNCHANGED <<row, cache, issued, spent, wanted, excused, since, form>>

\* update_integration replaces auth_config as a whole.
PersistWrite(p) ==
    /\ pull[p].at = "write"
    /\ row' = IF row.status = "live" THEN [row EXCEPT !.auth = pull[p].auth] ELSE row
    /\ Goes(p, Idle)
    /\ UNCHANGED <<cache, issued, spent, wanted, excused, since, form>>

\* A failure is logged, and the pull goes on.
PersistFails(p) ==
    /\ pull[p].at \in {"persist", "write"}
    /\ Goes(p, Idle)
    /\ excused' = TRUE
    /\ UNCHANGED <<row, cache, issued, spent, wanted, since, form>>

----------------------------------------------------------------------------
(***************************************************************************)
(* The connector's row, time, and the process.                             *)
(***************************************************************************)

\* A PATCH with the auth_config of a client that was authorized anew.  The cache
\* is left alone.
Patch(c, g) ==
    /\ row.status = "live"
    /\ issued[c] < MaxTokens
    /\ issued' = [issued EXCEPT ![c] = @ + 1]
    /\ row' = [row EXCEPT !.auth = [grant |-> g, client |-> c, refresh |-> <<c, issued[c] + 1>>]]
    /\ wanted' = c
    /\ excused' = \E p \in Pulls : pull[p].at \in Busy
    /\ since' = 0
    /\ UNCHANGED <<cache, pull, spent, form>>

\* The dashboard opens the connector's edit form (or opens it again).
OpenForm ==
    /\ row.status = "live"
    /\ form' = row.auth
    /\ UNCHANGED <<row, cache, pull, issued, spent, wanted, excused, since>>

\* Saving the form sends the auth_config that it loaded, whatever was edited.
SaveForm ==
    /\ form # NoAuth
    /\ row.status = "live"
    /\ row' = [row EXCEPT !.auth = form]
    /\ wanted' = form.client
    /\ excused' = (excused \/ form # row.auth)
    /\ since' = 0
    /\ form' = NoAuth
    /\ UNCHANGED <<cache, pull, issued, spent>>

\* A form that is open on a deleted connector can be saved no more.
Delete ==
    /\ row.status = "live"
    /\ row' = [row EXCEPT !.status = "deleted"]
    /\ form' = NoAuth
    /\ UNCHANGED <<cache, pull, issued, spent, wanted, excused, since>>

Less(n) == IF n = 0 THEN 0 ELSE n - 1

Older(tok) == IF tok = NoToken THEN tok
              ELSE [tok EXCEPT !.left = Less(@), !.believed = Less(@)]

\* Somebody still carries another client's configuration or fresh token.
Carries(p) == pull[p].at \in Busy /\ pull[p].auth.client # wanted

LongestLife == CHOOSE n \in TTLs : \A m \in TTLs : m <= n

\* A tick.  An answer on its way ages by the server's clock only.
Tick ==
    /\ \A p \in Pulls : pull[p].at = "reply" => pull[p].wait < MaxDelay
    /\ cache' = Older(cache)
    /\ pull' = [p \in Pulls |->
                  IF pull[p].at = "reply"
                  THEN [pull[p] EXCEPT !.wait = @ + 1, !.token.left = Less(@)]
                  ELSE pull[p]]
    /\ since' = IF row.auth.client # wanted \/ \E p \in Pulls : Carries(p) THEN 0
                ELSE IF since = LongestLife THEN since ELSE since + 1
    /\ UNCHANGED <<row, issued, spent, wanted, excused, form>>

\* The process dies: the cache and the pulls are gone.
Crash ==
    /\ cache' = NoToken
    /\ pull' = [p \in Pulls |-> Idle]
    /\ excused' = (excused \/ \E p \in Pulls : Holds(p))
    /\ UNCHANGED <<row, issued, spent, wanted, since, form>>

Proceed(p) ==
    \/ Begin(p) \/ Lookup(p) \/ Exchange(p) \/ ExchangeFails(p) \/ ReplyLost(p)
    \/ Store(p) \/ PersistRead(p) \/ PersistWrite(p) \/ PersistFails(p)

Next ==
    \/ \E p \in Pulls : Proceed(p)
    \/ \E c \in Clients, g \in {"refresh_token", "other"} : Patch(c, g)
    \/ OpenForm
    \/ SaveForm
    \/ Delete
    \/ Tick
    \/ Crash

Spec == Init /\ [][Next]_vars
----------------------------------------------------------------------------
(***************************************************************************)
(* Properties.                                                             *)
(***************************************************************************)

\* While nobody holds a rotated token, the row's refresh token is one that
\* the server takes, it belongs to the client in the row, and that client is
\* the one configured last; unless one of six reasons was met (a crash, a lost reply,
\* a failed write, overlapping pulls, a PATCH meanwhile, a form that resends what
\* it loaded earlier) since the connector was last given a fresh token with no pull
\* under way.
RowKeepsUp ==
    \/ excused
    \/ \E p \in Pulls : Holds(p)
    \/ row.status = "deleted" \/ row.auth.grant = "other"
    \/ /\ row.auth.refresh \notin spent
       /\ row.auth.refresh[1] = row.auth.client
       /\ row.auth.client = wanted

\* A token that the cache hands out has not expired by the server's clock,
\* although its lifetime was counted from its storing.
CacheHandsOutLiveTokens == Usable(cache) => cache.left > 0

\* The cache is not emptied when the connector is given to another client;
\* the old client's token is found there for one lifetime at most, counted
\* from when no pull carries the old configuration any more.
OldClientDiesOut ==
    Usable(cache) /\ cache.client # wanted => since < LongestLife
=============================================================================
