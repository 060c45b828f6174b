----------------------------- MODULE TokenSession -----------------------------
(***************************************************************************)
(* The login sessions of the app: TokenServiceImpl keeps them in redis,    *)
(* UserServiceImpl.doLogin and offline create and drop them, and the       *)
(* TokenInterceptor admits, renews or refuses each request.                *)
(*                                                                         *)
(* Every redis command is an action, because nothing makes a login, a      *)
(* kick-out or a renewal atomic.  A key is the milliseconds it has left to *)
(* live, 0 when it is absent; the value kept under a userId is the token.  *)
(***************************************************************************)
EXTENDS Integers, FiniteSets

CONSTANTS
  Users,
  Tokens,      \* access and refresh token pairs, made by createToken
  Threads,     \* request threads of the servers
  AccessTtl,   \* token_expire
  RefreshTtl,  \* refresh_token_expire
  SecondMs,    \* milliseconds in the unit redis reports a time to live in
  NoUser, NoToken

ASSUME SessionAssumption ==
  /\ AccessTtl \in Nat \ {0} /\ RefreshTtl \in Nat \ {0}
  /\ AccessTtl <= RefreshTtl
  /\ SecondMs \in Nat \ {0}
  /\ NoUser \notin Users
  /\ NoToken \notin Tokens

VARIABLES
  owner,    \* user of each token, NoUser while it is not made
  access,   \* ACCESS_TOKEN + accessToken: time to live
  refresh,  \* REFRESH_TOKEN + refreshToken: time to live
  byUser,   \* ACCESS_TOKEN + userId: the token stored there
  userTtl,  \* ACCESS_TOKEN + userId: time to live
  notice,   \* FORCE_OFFLINE + accessToken: time to live
  held,     \* tokens a client has received
  kicked,   \* tokens whose offline() has run to its end
  orderly,  \* users whose operations so far ran one at a time, between two
            \* ticks of the expirations, no renewal failing half way
  pc, op, usr, tok, expire   \* the threads and their local variables

redis  == <<access, refresh, byUser, userTtl, notice>>
locals == <<op, usr, tok, expire>>
vars   == <<owner, redis, held, kicked, orderly, pc, locals>>

Labels == {"idle", "getByUserId", "getTokenExpire", "cacheOffline", "cleanRefresh",
           "cleanToken", "cleanUserId", "createToken", "cacheAccess", "cacheUser",
           "cacheRefresh", "getRefresh", "getOffline", "cleanOffline"}

TypeOK ==
  /\ owner \in [Tokens -> Users \union {NoUser}]
  /\ access \in [Tokens -> 0 .. AccessTtl]
  /\ refresh \in [Tokens -> 0 .. RefreshTtl]
  /\ byUser \in [Users -> Tokens \union {NoToken}]
  /\ userTtl \in [Users -> 0 .. RefreshTtl]
  /\ \A u \in Users : userTtl[u] > 0 => byUser[u] # NoToken
  /\ notice \in [Tokens -> 0 .. RefreshTtl]
  /\ held \in SUBSET {k \in Tokens : owner[k] # NoUser}
  /\ kicked \in SUBSET {k \in Tokens : owner[k] # NoUser}
  /\ orderly \in [Users -> BOOLEAN]
  /\ pc \in [Threads -> Labels]
  /\ op \in [Threads -> {"none", "login", "offline", "request"}]
  /\ usr \in [Threads -> Users \union {NoUser}]
  /\ tok \in [Threads -> Tokens \union {NoToken}]
  /\ expire \in [Threads -> 0 .. RefreshTtl]

Init ==
  /\ owner = [k \in Tokens |-> NoUser]
  /\ access = [k \in Tokens |-> 0]
  /\ refresh = [k \in Tokens |-> 0]
  /\ byUser = [u \in Users |-> NoToken]
  /\ userTtl = [u \in Users |-> 0]
  /\ notice = [k \in Tokens |-> 0]
  /\ held = {}
  /\ kicked = {}
  /\ orderly = [u \in Users |-> TRUE]
  /\ pc = [th \in Threads |-> "idle"]
  /\ op = [th \in Threads |-> "none"]
  /\ usr = [th \in Threads |-> NoUser]
  /\ tok = [th \in Threads |-> NoToken]
  /\ expire = [th \in Threads |-> 0]

\* An operation on u's session is under way.
Busy(u) == \E th \in Threads : pc[th] # "idle" /\ usr[th] = u

\* Another operation on u begins.
Enter(u) == orderly' = [orderly EXCEPT ![u] = @ /\ ~Busy(u)]

At(th, label)   == pc[th] = label
Goto(th, label) == pc' = [pc EXCEPT ![th] = label]

\* The operation of th ends and its local variables are dropped.
Return(th) ==
  /\ Goto(th, "idle")
  /\ op' = [op EXCEPT ![th] = "none"]
  /\ usr' = [usr EXCEPT ![th] = NoUser]
  /\ tok' = [tok EXCEPT ![th] = NoToken]
  /\ expire' = [expire EXCEPT ![th] = 0]

-----------------------------------------------------------------------------
(* UserServiceImpl.offline, the first half of doLogin or of updateState *)

\* accountLogin, smsLogin and registerByMobile all end in doLogin.
Begin(th, operation, u) ==
  /\ At(th, "idle")
  /\ op' = [op EXCEPT ![th] = operation]
  /\ usr' = [usr EXCEPT ![th] = u]
  /\ Goto(th, "getByUserId")
  /\ Enter(u)
  /\ UNCHANGED <<owner, redis, held, kicked, tok, expire>>

DoLogin(th, u) == Begin(th, "login", u)
Offline(th, u) == Begin(th, "offline", u)

\* offline returns: doLogin goes on to createToken.
AfterOffline(th) ==
  IF op[th] = "login" THEN Goto(th, "createToken") /\ UNCHANGED locals ELSE Return(th)

GetByUserId(th) ==
  LET u == usr[th] IN
  /\ At(th, "getByUserId")
  /\ IF userTtl[u] > 0
     THEN /\ tok' = [tok EXCEPT ![th] = byUser[u]]
          /\ Goto(th, "getTokenExpire")
          /\ UNCHANGED <<op, usr, expire>>
     ELSE AfterOffline(th)
  /\ UNCHANGED <<owner, redis, held, kicked, orderly>>

\* redisTemplate.getExpire answers in seconds; below one it is not "> 0".
GetTokenExpire(th) ==
  LET seconds == userTtl[usr[th]] \div SecondMs IN
  /\ At(th, "getTokenExpire")
  /\ expire' = [expire EXCEPT ![th] = seconds]
  /\ Goto(th, IF seconds > 0 THEN "cacheOffline" ELSE "cleanRefresh")
  /\ UNCHANGED <<owner, redis, held, kicked, orderly, op, usr, tok>>

\* The seconds are stored as the milliseconds of the notice.
CacheOfflineToken(th) ==
  /\ At(th, "cacheOffline")
  /\ notice' = [notice EXCEPT ![tok[th]] = expire[th]]
  /\ Goto(th, "cleanRefresh")
  /\ UNCHANGED <<owner, access, refresh, byUser, userTtl, held, kicked, orderly, locals>>

\* Fault: the refresh token is looked for under a key it is not stored at.
CleanRefreshTokenWrongKey(th) ==
  /\ At(th, "cleanRefresh")
  /\ Goto(th, "cleanToken")
  /\ UNCHANGED <<owner, redis, held, kicked, orderly, locals>>

CleanRefreshToken(th) ==
  /\ At(th, "cleanRefresh")
  /\ refresh' = [refresh EXCEPT ![tok[th]] = 0]
  /\ Goto(th, "cleanToken")
  /\ UNCHANGED <<owner, access, byUser, userTtl, notice, held, kicked, orderly, locals>>

CleanToken(th) ==
  /\ At(th, "cleanToken")
  /\ access' = [access EXCEPT ![tok[th]] = 0]
  /\ Goto(th, "cleanUserId")
  /\ UNCHANGED <<owner, refresh, byUser, userTtl, notice, held, kicked, orderly, locals>>

CleanUserId(th) ==
  /\ At(th, "cleanUserId")
  /\ byUser' = [byUser EXCEPT ![usr[th]] = NoToken]
  /\ userTtl' = [userTtl EXCEPT ![usr[th]] = 0]
  /\ kicked' = kicked \union {tok[th]}
  /\ AfterOffline(th)
  /\ UNCHANGED <<owner, access, refresh, notice, held, orderly>>

-----------------------------------------------------------------------------
(* createToken and cacheToken; a request that renews runs cacheToken too *)

CreateToken(th) ==
  /\ At(th, "createToken")
  /\ \E k \in Tokens :
       /\ owner[k] = NoUser
       /\ owner' = [owner EXCEPT ![k] = usr[th]]
       /\ tok' = [tok EXCEPT ![th] = k]
  /\ Goto(th, "cacheAccess")
  /\ UNCHANGED <<redis, held, kicked, orderly, op, usr, expire>>

\* Fault: the two times to live are swapped.
CacheAccessLong(th) ==
  /\ At(th, "cacheAccess")
  /\ access' = [access EXCEPT ![tok[th]] = RefreshTtl]
  /\ Goto(th, "cacheUser")
  /\ UNCHANGED <<owner, refresh, byUser, userTtl, notice, held, kicked, orderly, locals>>

CacheAccess(th) ==
  /\ At(th, "cacheAccess")
  /\ access' = [access EXCEPT ![tok[th]] = AccessTtl]
  /\ Goto(th, "cacheUser")
  /\ UNCHANGED <<owner, refresh, byUser, userTtl, notice, held, kicked, orderly, locals>>

\* Fault: the userId key lives no longer than the access token.
CacheUserIdShort(th) ==
  LET u == owner[tok[th]] IN
  /\ At(th, "cacheUser")
  /\ byUser' = [byUser EXCEPT ![u] = tok[th]]
  /\ userTtl' = [userTtl EXCEPT ![u] = AccessTtl]
  /\ Goto(th, "cacheRefresh")
  /\ UNCHANGED <<owner, access, refresh, notice, held, kicked, orderly, locals>>

CacheUserId(th) ==
  LET u == owner[tok[th]] IN
  /\ At(th, "cacheUser")
  /\ byUser' = [byUser EXCEPT ![u] = tok[th]]
  /\ userTtl' = [userTtl EXCEPT ![u] = RefreshTtl]
  /\ Goto(th, "cacheRefresh")
  /\ UNCHANGED <<owner, access, refresh, notice, held, kicked, orderly, locals>>

\* The last command: the login answers with the token, the request is admitted.
CacheRefresh(th) ==
  /\ At(th, "cacheRefresh")
  /\ refresh' = [refresh EXCEPT ![tok[th]] = RefreshTtl]
  /\ held' = held \union {tok[th]}
  /\ Return(th)
  /\ UNCHANGED <<owner, access, byUser, userTtl, notice, kicked, orderly>>

-----------------------------------------------------------------------------
(* TokenInterceptor.tryLoginVerify, for a request with the two tokens of a *)
(* login: one whose access token is found is admitted and changes nothing *)

GetByAccessToken(th, k) ==
  /\ At(th, "idle")
  /\ k \in held
  /\ access[k] = 0
  /\ op' = [op EXCEPT ![th] = "request"]
  /\ tok' = [tok EXCEPT ![th] = k]
  /\ usr' = [usr EXCEPT ![th] = owner[k]]
  /\ Goto(th, "getRefresh")
  /\ Enter(owner[k])
  /\ UNCHANGED <<owner, redis, held, kicked, expire>>

\* Fault: the answer of redis for the refresh token is not looked at.
GetByRefreshTokenUnchecked(th) ==
  /\ At(th, "getRefresh")
  /\ Goto(th, "cacheAccess")
  /\ UNCHANGED <<owner, redis, held, kicked, orderly, locals>>

\* Without a refresh token a page that needs no login is still answered.
GetByRefreshToken(th) ==
  /\ At(th, "getRefresh")
  /\ \/ refresh[tok[th]] > 0 /\ Goto(th, "cacheAccess") /\ UNCHANGED locals
     \/ refresh[tok[th]] = 0 /\ Goto(th, "getOffline") /\ UNCHANGED locals
     \/ refresh[tok[th]] = 0 /\ Return(th)
  /\ UNCHANGED <<owner, redis, held, kicked, orderly>>

\* ACCESS_TOKEN_TIMEOUT unless there is a notice.
GetOfflineToken(th) ==
  /\ At(th, "getOffline")
  /\ IF notice[tok[th]] > 0
     THEN Goto(th, "cleanOffline") /\ UNCHANGED locals
     ELSE Return(th)
  /\ UNCHANGED <<owner, redis, held, kicked, orderly>>

\* KICK_OFF_LINE
CleanOfflineToken(th) ==
  /\ At(th, "cleanOffline")
  /\ notice' = [notice EXCEPT ![tok[th]] = 0]
  /\ Return(th)
  /\ UNCHANGED <<owner, access, refresh, byUser, userTtl, held, kicked, orderly>>

-----------------------------------------------------------------------------
(* Time, and a server that fails between two redis commands *)

Elapse(ttl) == [x \in DOMAIN ttl |-> IF ttl[x] > 0 THEN ttl[x] - 1 ELSE 0]

Tick ==
  /\ access' = Elapse(access)
  /\ refresh' = Elapse(refresh)
  /\ userTtl' = Elapse(userTtl)
  /\ byUser' = [u \in Users |-> IF userTtl[u] > 1 THEN byUser[u] ELSE NoToken]
  /\ notice' = Elapse(notice)
  /\ orderly' = [u \in Users |-> orderly[u] /\ ~Busy(u)]
  /\ UNCHANGED <<owner, held, kicked, pc, locals>>

Crash(th) ==
  /\ ~At(th, "idle")
  /\ orderly' = IF op[th] = "request" THEN [orderly EXCEPT ![usr[th]] = FALSE] ELSE orderly
  /\ Return(th)
  /\ UNCHANGED <<owner, redis, held, kicked>>

-----------------------------------------------------------------------------
Step(th) ==
  \/ \E u \in Users : DoLogin(th, u) \/ Offline(th, u)
  \/ GetByUserId(th) \/ GetTokenExpire(th) \/ CacheOfflineToken(th)
  \/ CleanRefreshToken(th) \/ CleanToken(th) \/ CleanUserId(th)
  \/ CreateToken(th) \/ CacheAccess(th) \/ CacheUserId(th) \/ CacheRefresh(th)
  \/ \E k \in Tokens : GetByAccessToken(th, k)
  \/ GetByRefreshToken(th) \/ GetOfflineToken(th) \/ CleanOfflineToken(th)

Next == Tick \/ \E th \in Threads : Step(th) \/ Crash(th)

Spec == Init /\ [][Next]_vars

-----------------------------------------------------------------------------
(* Properties *)

Live(k) == access[k] > 0 \/ refresh[k] > 0

\* What the expiration of the userId key is for (the comment in cacheToken): a
\* session a client holds can be found through its user for as long as any key
\* of it lives, so the next login or kick-out ends it.  A login or kick-out that
\* failed half way does not break it, because offline drops the userId key
\* last; nor do the operations of other users.
Locatable ==
  \A k \in held :
    LET u == owner[k] IN
    orderly[u] /\ ~Busy(u) /\ Live(k) => byUser[u] = k

\* A session that offline() has dropped is never admitted again: neither of its
\* keys comes back (UserService.offline: the login information is emptied).
KickedStaysOut == \A k \in kicked : ~Live(k)

\* It is so for a user whose operations do not overlap.
OrderlyKick == \A k \in kicked : orderly[owner[k]] => ~Live(k)

\* A session is only renewed from a live refresh key: once both its keys are
\* gone and no thread is about to write them they never return, whatever
\* logins, kick-outs, renewals and failures overlap.
Gone(k) ==
  /\ owner[k] # NoUser
  /\ ~Live(k)
  /\ \A th \in Threads : ~(tok[th] = k /\ pc[th] \in {"cacheAccess", "cacheUser", "cacheRefresh"})

GoneStaysGone == [][\A k \in Tokens : Gone(k) => Gone(k)']_vars
=============================================================================
