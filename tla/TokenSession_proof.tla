-------------------------- MODULE TokenSession_proof --------------------------
(***************************************************************************)
(* Proofs about TokenSession: a kick-out and a login find the session of   *)
(* a user through the userId key, and what they drop stays dropped.        *)
(*                                                                         *)
(* The invariant follows the one operation an orderly user may have under  *)
(* way: what offline has dropped of the token it has found, and what       *)
(* cacheToken still owes to the keys of the token it writes.               *)
(***************************************************************************)
EXTENDS TokenSession, TLAPS

-----------------------------------------------------------------------------
(* The inductive invariant *)

Dropping == {"getTokenExpire", "cacheOffline", "cleanRefresh", "cleanToken", "cleanUserId"}
Caching  == {"cacheAccess", "cacheUser", "cacheRefresh"}
Asking   == {"getRefresh", "getOffline", "cleanOffline"}

\* Who runs what, for whom, and with a token of his.
LocalsOK ==
  \A th \in Threads :
    /\ IF At(th, "idle") THEN usr[th] = NoUser ELSE usr[th] \in Users
    /\ pc[th] \in Dropping \union {"getByUserId"} => op[th] \in {"login", "offline"}
    /\ At(th, "createToken") => op[th] = "login"
    /\ pc[th] \in Caching => op[th] \in {"login", "request"}
    /\ pc[th] \in Asking => op[th] = "request" /\ tok[th] \in held
    /\ pc[th] \in Dropping \union Caching \union Asking =>
         tok[th] \in Tokens /\ owner[tok[th]] = usr[th]

\* A userId key leads to a token of that user.
Owned == \A u \in Users : byUser[u] # NoToken => owner[byUser[u]] = u

Runs(th, u) == ~At(th, "idle") /\ usr[th] = u

\* At most one operation of an orderly user is under way.
Alone ==
  \A u \in Users : orderly[u] => \A t1, t2 \in Threads : Runs(t1, u) /\ Runs(t2, u) => t1 = t2

\* offline works on the token of the userId key, and has emptied the keys behind it.
DroppingOK ==
  \A th \in Threads : pc[th] \in Dropping /\ orderly[usr[th]] =>
    /\ byUser[usr[th]] = tok[th]
    /\ pc[th] \in {"cleanToken", "cleanUserId"} => refresh[tok[th]] = 0
    /\ pc[th] = "cleanUserId" => access[tok[th]] = 0

\* No other session of the user is alive when one is made or renewed; the token is not one
\* that has been dropped, and a login's is new to the clients.
Prepared(th) ==
  /\ \A k \in held : owner[k] = usr[th] /\ Live(k) => pc[th] \in Caching /\ k = tok[th]
  /\ pc[th] \in Caching => tok[th] \notin kicked /\ (op[th] = "login" => tok[th] \notin held)
  /\ pc[th] = "cacheRefresh" => byUser[usr[th]] = tok[th] /\ userTtl[usr[th]] = RefreshTtl

CachingOK ==
  \A th \in Threads :
    pc[th] \in Caching \union {"createToken"} /\ orderly[usr[th]] => Prepared(th)

\* The userId key leads to the session, and outlives both its keys, except while the
\* access token is renewed and the userId key not yet.
Covered ==
  \A k \in held :
    LET u == owner[k] IN
    orderly[u] /\ Live(k) /\ (\A th \in Threads : At(th, "cacheUser") => usr[th] # u) =>
      byUser[u] = k /\ access[k] <= userTtl[u] /\ refresh[k] <= userTtl[u]

IInv ==
  /\ TypeOK /\ LocalsOK /\ Owned /\ Alone
  /\ DroppingOK /\ CachingOK /\ Covered /\ OrderlyKick

-----------------------------------------------------------------------------
(* Every step preserves it *)

LEMMA InitIInv == Init => IInv
<1> SUFFICES ASSUME Init PROVE IInv
  OBVIOUS
<1> USE DEF Init
<1>1. TypeOK
  BY SessionAssumption DEF TypeOK, Labels
<1>2. LocalsOK /\ Alone /\ DroppingOK /\ CachingOK
  BY DEF LocalsOK, Alone, Runs, DroppingOK, CachingOK, Prepared, Dropping, Caching, Asking, At
<1>3. Owned /\ Covered /\ OrderlyKick
  BY DEF Owned, Covered, OrderlyKick
<1> QED
  BY <1>1, <1>2, <1>3 DEF IInv

\* The operation that begins is alone on its user, or the user is orderly no more.
LEMMA BeginStep ==
  ASSUME IInv, NEW th \in Threads, NEW u \in Users,
         DoLogin(th, u) \/ Offline(th, u)
  PROVE  IInv'
<1>1. PICK operation \in {"login", "offline"} : Begin(th, operation, u)
  BY DEF DoLogin, Offline
<1> USE <1>1 DEF IInv, Begin, redis
<1>2. /\ pc'[th] = "getByUserId" /\ usr'[th] = u /\ op'[th] = operation
      /\ \A t \in Threads \ {th} : pc'[t] = pc[t] /\ usr'[t] = usr[t] /\ op'[t] = op[t]
  BY DEF TypeOK, At, Goto
<1>3. \A v \in Users : orderly'[v] => orderly[v] /\ (v = u => ~Busy(u))
  BY DEF TypeOK, Enter
<1>4. TypeOK'
  BY DEF TypeOK, Labels, At, Goto, Enter
<1>5. LocalsOK'
  BY <1>2 DEF LocalsOK, Dropping, Caching, Asking, At
<1>6. Owned'
  BY DEF Owned
<1>7. Alone'
  BY <1>2, <1>3 DEF Alone, Runs, Busy, At
<1>8. DroppingOK' /\ CachingOK'
  <2>1. \A t \in Threads : pc'[t] \in Dropping \union Caching \union {"createToken"} =>
          /\ t # th /\ pc'[t] = pc[t] /\ usr'[t] = usr[t] /\ op'[t] = op[t]
          /\ orderly'[usr[t]] => orderly[usr[t]]
    BY <1>2, <1>3 DEF LocalsOK, Dropping, Caching, At
  <2> QED
    BY <2>1 DEF DroppingOK, CachingOK, Prepared, Live
<1>9. Covered'
  BY <1>2, <1>3 DEF Covered, LocalsOK, TypeOK, Live, At
<1>10. OrderlyKick'
  BY <1>3 DEF OrderlyKick, TypeOK, Live
<1> QED
  BY <1>4, <1>5, <1>6, <1>7, <1>8, <1>9, <1>10

\* An operation that goes on, ends or fails lets nobody else in.
LEMMA StaysAlone ==
  ASSUME Alone,
         \A u \in Users : orderly'[u] => orderly[u],
         \A t \in Threads : pc'[t] # "idle" => pc[t] # "idle" /\ usr'[t] = usr[t]
  PROVE  Alone'
BY DEF Alone, Runs, At

\* What is read is the token the userId key leads to; without the key no session of an
\* orderly user is alive.
LEMMA GetByUserIdStep ==
  ASSUME IInv, NEW th \in Threads, GetByUserId(th)
  PROVE  IInv'
<1> DEFINE u == usr[th]
<1> USE DEF IInv, redis, At
<1>1. /\ pc[th] = "getByUserId" /\ u \in Users /\ op[th] \in {"login", "offline"}
      /\ UNCHANGED <<owner, access, refresh, byUser, userTtl, notice, held, kicked, orderly>>
  BY DEF GetByUserId, LocalsOK
<1>2. \A t \in Threads \ {th} : pc'[t] = pc[t] /\ usr'[t] = usr[t] /\ op'[t] = op[t]
                                /\ tok'[t] = tok[t]
  BY DEF GetByUserId, AfterOffline, Return, Goto, locals, TypeOK
<1>3. \/ /\ userTtl[u] > 0 /\ pc'[th] = "getTokenExpire" /\ tok'[th] = byUser[u]
         /\ usr'[th] = u /\ op'[th] = op[th]
      \/ /\ userTtl[u] = 0 /\ pc'[th] = "createToken" /\ op[th] = "login"
         /\ usr'[th] = u /\ op'[th] = op[th]
      \/ /\ userTtl[u] = 0 /\ pc'[th] = "idle" /\ usr'[th] = NoUser
  BY <1>1 DEF GetByUserId, AfterOffline, Return, Goto, locals, TypeOK
<1>4. TypeOK'
  BY <1>1 DEF GetByUserId, AfterOffline, Return, Goto, locals, TypeOK, Labels
<1> HIDE DEF u
<1>5. LocalsOK'
  BY <1>1, <1>2, <1>3 DEF LocalsOK, Dropping, Caching, Asking, Owned, TypeOK
<1>6. Owned' /\ OrderlyKick'
  BY <1>1 DEF Owned, OrderlyKick, Live
<1>7. Alone'
  BY <1>1, <1>2, <1>3, StaysAlone DEF u
<1>8. userTtl[u] = 0 /\ orderly[u] => \A k \in held : owner[k] = u => ~Live(k)
  <2> SUFFICES ASSUME userTtl[u] = 0, orderly[u], NEW k \in held, owner[k] = u, Live(k)
               PROVE  FALSE
    OBVIOUS
  <2>1. \A t \in Threads : At(t, "cacheUser") => usr[t] # u
    BY <1>1 DEF Alone, Runs, u
  <2>2. access[k] = 0 /\ refresh[k] = 0
    BY <2>1 DEF Covered, TypeOK
  <2> QED
    BY <2>2 DEF Live
<1>9. DroppingOK'
  BY <1>1, <1>2, <1>3 DEF DroppingOK, Dropping, LocalsOK
<1>10. CachingOK'
  BY <1>1, <1>2, <1>3, <1>8 DEF CachingOK, Prepared, Caching, Live
<1>11. Covered'
  BY <1>1, <1>2, <1>3 DEF Covered, Live, u
<1> QED
  BY <1>4, <1>5, <1>6, <1>7, <1>9, <1>10, <1>11

\* A number of whole units is no more than what is divided.
LEMMA UnitsBounded ==
  ASSUME NEW x \in Nat, NEW d \in Nat \ {0}
  PROVE  x \div d \in 0 .. x
<1>1. x \div d \in Int /\ x \div d >= 0
  OBVIOUS
<1>2. x \div d <= x
  OBVIOUS
<1> QED
  BY <1>1, <1>2

LEMMA GetTokenExpireStep ==
  ASSUME IInv, NEW th \in Threads, GetTokenExpire(th)
  PROVE  IInv'
<1> USE DEF IInv, redis, At
<1>1. pc[th] = "getTokenExpire" /\ usr[th] \in Users /\ tok[th] \in Tokens
  BY DEF GetTokenExpire, LocalsOK, Dropping
<1>2. expire'[th] \in 0 .. RefreshTtl
  <2>1. userTtl[usr[th]] \in 0 .. RefreshTtl
    BY <1>1 DEF TypeOK
  <2>2. userTtl[usr[th]] \div SecondMs \in 0 .. userTtl[usr[th]]
    BY <2>1, UnitsBounded, SessionAssumption
  <2>3. expire'[th] = userTtl[usr[th]] \div SecondMs
    BY DEF GetTokenExpire, TypeOK
  <2> QED
    BY <2>1, <2>2, <2>3, SessionAssumption
<1>3. /\ pc'[th] \in {"cacheOffline", "cleanRefresh"}
      /\ \A t \in Threads \ {th} : pc'[t] = pc[t]
      /\ UNCHANGED <<owner, access, refresh, byUser, userTtl, notice, held, kicked, orderly,
                     op, usr, tok>>
  BY DEF GetTokenExpire, Goto, TypeOK
<1>4. TypeOK'
  BY <1>2, <1>3 DEF TypeOK, Labels, GetTokenExpire, Goto
<1>5. LocalsOK' /\ Owned' /\ OrderlyKick'
  BY <1>1, <1>3 DEF LocalsOK, Dropping, Caching, Asking, Owned, OrderlyKick, Live
<1>6. Alone'
  BY <1>1, <1>3, StaysAlone
<1>7. DroppingOK' /\ CachingOK'
  BY <1>1, <1>3 DEF DroppingOK, CachingOK, Prepared, Dropping, Caching, Live
<1>8. Covered'
  BY <1>1, <1>3 DEF Covered, Live
<1> QED
  BY <1>4, <1>5, <1>6, <1>7, <1>8

LEMMA CacheOfflineTokenStep ==
  ASSUME IInv, NEW th \in Threads, CacheOfflineToken(th)
  PROVE  IInv'
<1> USE DEF IInv, locals, At
<1>1. pc[th] = "cacheOffline" /\ usr[th] \in Users /\ tok[th] \in Tokens
  BY DEF CacheOfflineToken, LocalsOK, Dropping
<1>2. /\ pc'[th] = "cleanRefresh"
      /\ \A t \in Threads \ {th} : pc'[t] = pc[t]
      /\ UNCHANGED <<owner, access, refresh, byUser, userTtl, held, kicked, orderly,
                     op, usr, tok>>
  BY DEF CacheOfflineToken, Goto, TypeOK
<1>3. TypeOK'
  BY <1>1, <1>2 DEF TypeOK, Labels, CacheOfflineToken, Goto
<1>4. LocalsOK' /\ Owned' /\ OrderlyKick'
  BY <1>1, <1>2 DEF LocalsOK, Dropping, Caching, Asking, Owned, OrderlyKick, Live
<1>5. Alone'
  BY <1>1, <1>2, StaysAlone
<1>6. DroppingOK' /\ CachingOK'
  BY <1>1, <1>2 DEF DroppingOK, CachingOK, Prepared, Dropping, Caching, Live
<1>7. Covered'
  BY <1>1, <1>2 DEF Covered, Live
<1> QED
  BY <1>3, <1>4, <1>5, <1>6, <1>7

\* A key that is dropped makes no session alive.
LEMMA CleanRefreshTokenStep ==
  ASSUME IInv, NEW th \in Threads, CleanRefreshToken(th)
  PROVE  IInv'
<1> USE DEF IInv, locals, At
<1>1. pc[th] = "cleanRefresh" /\ usr[th] \in Users /\ tok[th] \in Tokens
  BY DEF CleanRefreshToken, LocalsOK, Dropping
<1>2. /\ pc'[th] = "cleanToken"
      /\ \A t \in Threads \ {th} : pc'[t] = pc[t]
      /\ UNCHANGED <<owner, access, byUser, userTtl, notice, held, kicked, orderly,
                     op, usr, tok>>
  BY DEF CleanRefreshToken, Goto, TypeOK
<1>3. \A k \in Tokens : refresh'[k] = IF k = tok[th] THEN 0 ELSE refresh[k]
  BY DEF CleanRefreshToken, TypeOK
<1>4. TypeOK'
  BY <1>1, <1>2, SessionAssumption DEF TypeOK, Labels, CleanRefreshToken, Goto
<1>5. LocalsOK' /\ Owned'
  BY <1>1, <1>2 DEF LocalsOK, Dropping, Caching, Asking, Owned
<1>6. \A k \in Tokens : Live(k)' => Live(k)
  BY <1>2, <1>3 DEF Live
<1>7. Alone'
  BY <1>1, <1>2, StaysAlone
<1>8. DroppingOK'
  BY <1>1, <1>2, <1>3, <1>5 DEF DroppingOK, Dropping, LocalsOK
<1>9. CachingOK'
  BY <1>1, <1>2, <1>6 DEF CachingOK, Prepared, Caching, TypeOK
<1>10. Covered'
  BY <1>1, <1>2, <1>3, <1>6, SessionAssumption DEF Covered, TypeOK
<1>11. OrderlyKick'
  BY <1>2, <1>6 DEF OrderlyKick, TypeOK
<1> QED
  BY <1>4, <1>5, <1>7, <1>8, <1>9, <1>10, <1>11

LEMMA CleanTokenStep ==
  ASSUME IInv, NEW th \in Threads, CleanToken(th)
  PROVE  IInv'
<1> USE DEF IInv, locals, At
<1>1. pc[th] = "cleanToken" /\ usr[th] \in Users /\ tok[th] \in Tokens
  BY DEF CleanToken, LocalsOK, Dropping
<1>2. /\ pc'[th] = "cleanUserId"
      /\ \A t \in Threads \ {th} : pc'[t] = pc[t]
      /\ UNCHANGED <<owner, refresh, byUser, userTtl, notice, held, kicked, orderly,
                     op, usr, tok>>
  BY DEF CleanToken, Goto, TypeOK
<1>3. \A k \in Tokens : access'[k] = IF k = tok[th] THEN 0 ELSE access[k]
  BY DEF CleanToken, TypeOK
<1>4. TypeOK'
  BY <1>1, <1>2, SessionAssumption DEF TypeOK, Labels, CleanToken, Goto
<1>5. LocalsOK' /\ Owned'
  BY <1>1, <1>2 DEF LocalsOK, Dropping, Caching, Asking, Owned
<1>6. \A k \in Tokens : Live(k)' => Live(k)
  BY <1>2, <1>3 DEF Live
<1>7. Alone'
  BY <1>1, <1>2, StaysAlone
<1>8. DroppingOK'
  BY <1>1, <1>2, <1>3, <1>5 DEF DroppingOK, Dropping, LocalsOK
<1>9. CachingOK'
  BY <1>1, <1>2, <1>6 DEF CachingOK, Prepared, Caching, TypeOK
<1>10. Covered'
  BY <1>1, <1>2, <1>3, <1>6, SessionAssumption DEF Covered, TypeOK
<1>11. OrderlyKick'
  BY <1>2, <1>6 DEF OrderlyKick, TypeOK
<1> QED
  BY <1>4, <1>5, <1>7, <1>8, <1>9, <1>10, <1>11

\* Who runs for an orderly user knows that nobody renews a session of his meanwhile.
LEMMA NobodyElse ==
  ASSUME IInv, NEW th \in Threads, ~At(th, "idle"), orderly[usr[th]],
         NEW t \in Threads, usr[t] = usr[th], ~At(t, "idle")
  PROVE  t = th
BY DEF IInv, Alone, Runs, LocalsOK

\* The userId key goes last: the session it led to is dead by then.
LEMMA CleanUserIdStep ==
  ASSUME IInv, NEW th \in Threads, CleanUserId(th)
  PROVE  IInv'
<1> DEFINE u == usr[th]
<1> USE DEF IInv, At
<1>1. pc[th] = "cleanUserId" /\ u \in Users /\ op[th] \in {"login", "offline"}
      /\ tok[th] \in Tokens /\ owner[tok[th]] = u
  BY DEF CleanUserId, LocalsOK, Dropping
<1>2. /\ \A v \in Users : /\ byUser'[v] = IF v = u THEN NoToken ELSE byUser[v]
                          /\ userTtl'[v] = IF v = u THEN 0 ELSE userTtl[v]
      /\ kicked' = kicked \union {tok[th]}
      /\ UNCHANGED <<owner, access, refresh, notice, held, orderly>>
  BY DEF CleanUserId, TypeOK
<1>3. \A t \in Threads \ {th} : pc'[t] = pc[t] /\ usr'[t] = usr[t] /\ op'[t] = op[t]
                                /\ tok'[t] = tok[t]
  BY DEF CleanUserId, AfterOffline, Return, Goto, locals, TypeOK
<1>4. \/ pc'[th] = "createToken" /\ op[th] = "login" /\ usr'[th] = u /\ op'[th] = op[th]
      \/ pc'[th] = "idle" /\ usr'[th] = NoUser
  BY <1>1 DEF CleanUserId, AfterOffline, Return, Goto, locals, TypeOK
<1>5. TypeOK'
  BY <1>1, SessionAssumption
  DEF CleanUserId, AfterOffline, Return, Goto, locals, TypeOK, Labels
<1> HIDE DEF u
<1>6. LocalsOK'
  BY <1>1, <1>2, <1>3, <1>4 DEF LocalsOK, Dropping, Caching, Asking
<1>7. Owned'
  BY <1>2 DEF Owned
<1>8. Alone'
  BY <1>1, <1>2, <1>3, <1>4, StaysAlone DEF u
<1>9. orderly[u] => /\ byUser[u] = tok[th] /\ ~Live(tok[th])
                    /\ \A t \in Threads \ {th} : pc[t] # "idle" => usr[t] # u
  BY <1>1, NobodyElse, SessionAssumption DEF DroppingOK, Dropping, Live, u
<1>10. orderly[u] => \A k \in held : owner[k] = u => ~Live(k)
  BY <1>1, <1>9 DEF Covered
<1>11. DroppingOK'
  <2> SUFFICES ASSUME NEW t \in Threads, pc'[t] \in Dropping, orderly'[usr'[t]]
               PROVE  t # th /\ usr[t] # u /\ pc'[t] = pc[t] /\ usr'[t] = usr[t]
                      /\ tok'[t] = tok[t] /\ usr[t] \in Users
    BY <1>2 DEF DroppingOK
  <2> QED
    BY <1>2, <1>3, <1>4, <1>9 DEF Dropping, LocalsOK
<1>12. CachingOK'
  <2> SUFFICES ASSUME NEW t \in Threads, pc'[t] \in Caching \union {"createToken"},
                      orderly'[usr'[t]]
               PROVE  Prepared(t)'
    BY DEF CachingOK
  <2> USE DEF Prepared
  <2>1. CASE t = th
    BY <1>1, <1>2, <1>4, <1>10, <2>1 DEF Caching, Live
  <2>2. CASE t # th
    <3>1. usr[t] # u /\ pc'[t] = pc[t] /\ usr'[t] = usr[t] /\ op'[t] = op[t]
          /\ tok'[t] = tok[t] /\ usr[t] \in Users
          /\ (pc[t] \in Caching => tok[t] # tok[th])
      BY <1>1, <1>2, <1>3, <1>9, <2>2 DEF Caching, LocalsOK
    <3> QED
      BY <1>2, <3>1 DEF CachingOK, Prepared, Live
  <2> QED
    BY <2>1, <2>2
<1>13. Covered'
  BY <1>1, <1>2, <1>3, <1>4, <1>10 DEF Covered, Live, TypeOK, u
<1>14. OrderlyKick'
  BY <1>1, <1>2, <1>9 DEF OrderlyKick, Live
<1> QED
  BY <1>5, <1>6, <1>7, <1>8, <1>11, <1>12, <1>13, <1>14

\* A token nobody has yet: it is no other thread's, no userId key leads to it, and no
\* client holds it.
LEMMA CreateTokenStep ==
  ASSUME IInv, NEW th \in Threads, CreateToken(th)
  PROVE  IInv'
<1> USE DEF IInv, redis, At
<1>1. PICK k \in Tokens :
        /\ owner[k] = NoUser
        /\ owner' = [owner EXCEPT ![k] = usr[th]]
        /\ tok' = [tok EXCEPT ![th] = k]
  BY DEF CreateToken
<1>2. /\ pc[th] = "createToken" /\ usr[th] \in Users /\ op[th] = "login"
      /\ pc'[th] = "cacheAccess"
      /\ \A t \in Threads \ {th} : pc'[t] = pc[t]
      /\ UNCHANGED <<access, refresh, byUser, userTtl, notice, held, kicked, orderly, op,
                     usr, expire>>
  BY DEF CreateToken, Goto, LocalsOK, TypeOK
<1>3. /\ \A j \in Tokens : owner'[j] = IF j = k THEN usr[th] ELSE owner[j]
      /\ tok'[th] = k /\ \A t \in Threads \ {th} : tok'[t] = tok[t]
  BY <1>1 DEF TypeOK
<1>4. /\ k \notin held /\ k \notin kicked
      /\ \A u \in Users : byUser[u] # k
      /\ \A t \in Threads : pc[t] \in Dropping \union Caching \union Asking => tok[t] # k
  BY <1>1, <1>2, SessionAssumption DEF Owned, LocalsOK, TypeOK, Dropping, Caching, Asking
<1>5. TypeOK'
  <2>1. /\ owner' \in [Tokens -> Users \union {NoUser}]
        /\ tok' \in [Threads -> Tokens \union {NoToken}]
    BY <1>1, <1>2 DEF TypeOK
  <2>2. pc' \in [Threads -> Labels]
    BY DEF CreateToken, Goto, TypeOK, Labels
  <2>3. /\ held \in SUBSET {j \in Tokens : owner'[j] # NoUser}
        /\ kicked \in SUBSET {j \in Tokens : owner'[j] # NoUser}
    BY <1>3, <1>4 DEF TypeOK
  <2> QED
    BY <1>2, <2>1, <2>2, <2>3 DEF TypeOK
<1>6. LocalsOK'
  BY <1>2, <1>3, <1>4 DEF LocalsOK, Dropping, Caching, Asking
<1>7. Owned'
  BY <1>2, <1>3, <1>4 DEF Owned, TypeOK
<1>8. Alone'
  BY <1>2, StaysAlone
<1>9. DroppingOK'
  BY <1>2, <1>3 DEF DroppingOK, Dropping
<1>10. CachingOK'
  <2> SUFFICES ASSUME NEW t \in Threads, pc'[t] \in Caching \union {"createToken"},
                      orderly[usr[t]]
               PROVE  Prepared(t)'
    BY <1>2 DEF CachingOK
  <2> USE DEF Prepared
  <2>1. \A j \in held : owner'[j] = owner[j] /\ (Live(j)' <=> Live(j))
    BY <1>2, <1>3, <1>4 DEF Live, TypeOK
  <2>2. CASE t = th
    BY <1>2, <1>3, <1>4, <2>1, <2>2 DEF CachingOK, Caching
  <2>3. CASE t # th
    BY <1>2, <1>3, <2>1, <2>3 DEF CachingOK, Caching
  <2> QED
    BY <2>2, <2>3
<1>11. Covered'
  BY <1>2, <1>3, <1>4 DEF Covered, Live, TypeOK
<1>12. OrderlyKick'
  BY <1>2, <1>3, <1>4 DEF OrderlyKick, Live, TypeOK
<1> QED
  BY <1>5, <1>6, <1>7, <1>8, <1>9, <1>10, <1>11, <1>12

\* Only the session of the user whose turn it is may come alive.
LEMMA CacheAccessStep ==
  ASSUME IInv, NEW th \in Threads, CacheAccess(th)
  PROVE  IInv'
<1> DEFINE u == usr[th]
<1> USE DEF IInv, locals, At
<1>1. pc[th] = "cacheAccess" /\ u \in Users /\ tok[th] \in Tokens /\ owner[tok[th]] = u
  BY DEF CacheAccess, LocalsOK, Caching
<1>2. /\ pc'[th] = "cacheUser"
      /\ \A t \in Threads \ {th} : pc'[t] = pc[t]
      /\ UNCHANGED <<owner, refresh, byUser, userTtl, notice, held, kicked, orderly, op, usr,
                     tok, expire>>
  BY DEF CacheAccess, Goto, TypeOK
<1>3. \A k \in Tokens : access'[k] = IF k = tok[th] THEN AccessTtl ELSE access[k]
  BY DEF CacheAccess, TypeOK
<1>4. TypeOK'
  BY <1>1, <1>2, SessionAssumption DEF TypeOK, Labels, CacheAccess, Goto
<1>5. LocalsOK' /\ Owned'
  BY <1>1, <1>2 DEF LocalsOK, Dropping, Caching, Asking, Owned
<1>6. \A k \in Tokens : owner[k] # u => access'[k] = access[k] /\ (Live(k)' <=> Live(k))
  BY <1>1, <1>2, <1>3 DEF Live
<1>7. Alone'
  BY <1>1, <1>2, StaysAlone
<1>8. orderly[u] => /\ Prepared(th)
                    /\ \A t \in Threads \ {th} : pc[t] # "idle" => usr[t] # u
  BY <1>1, NobodyElse DEF CachingOK, Caching
<1> HIDE DEF u
<1>9. DroppingOK'
  BY <1>1, <1>2, <1>3, <1>5, <1>6, <1>8 DEF DroppingOK, Dropping, LocalsOK, u
<1>10. CachingOK'
  <2> SUFFICES ASSUME NEW t \in Threads, pc'[t] \in Caching \union {"createToken"},
                      orderly[usr[t]]
               PROVE  Prepared(t)'
    BY <1>2 DEF CachingOK
  <2> USE DEF Prepared
  <2>1. CASE t = th
    BY <1>1, <1>2, <1>3, <1>8, <2>1 DEF Caching, Live, TypeOK, u
  <2>2. CASE t # th
    <3>1. usr[t] # u
      BY <1>2, <1>8, <2>2 DEF Caching
    <3> QED
      BY <1>2, <1>6, <2>2, <3>1 DEF CachingOK, Caching, TypeOK
  <2> QED
    BY <2>1, <2>2
<1>11. Covered'
  BY <1>1, <1>2, <1>3, <1>6 DEF Covered, TypeOK, u
<1>12. OrderlyKick'
  BY <1>1, <1>2, <1>3, <1>8 DEF OrderlyKick, Live, TypeOK, Prepared, Caching
<1> QED
  BY <1>4, <1>5, <1>7, <1>9, <1>10, <1>11, <1>12

\* The userId key leads to the only session that may be alive, for the longest time.
LEMMA CacheUserIdStep ==
  ASSUME IInv, NEW th \in Threads, CacheUserId(th)
  PROVE  IInv'
<1> DEFINE u == usr[th]
<1> USE DEF IInv, locals, At
<1>1. pc[th] = "cacheUser" /\ u \in Users /\ tok[th] \in Tokens /\ owner[tok[th]] = u
  BY DEF CacheUserId, LocalsOK, Caching
<1>2. /\ pc'[th] = "cacheRefresh"
      /\ \A t \in Threads \ {th} : pc'[t] = pc[t]
      /\ UNCHANGED <<owner, access, refresh, notice, held, kicked, orderly, op, usr, tok,
                     expire>>
  BY DEF CacheUserId, Goto, TypeOK
<1>3. \A v \in Users : /\ byUser'[v] = IF v = u THEN tok[th] ELSE byUser[v]
                       /\ userTtl'[v] = IF v = u THEN RefreshTtl ELSE userTtl[v]
  BY <1>1 DEF CacheUserId, TypeOK
<1>4. TypeOK'
  BY <1>1, <1>2, SessionAssumption DEF TypeOK, Labels, CacheUserId, Goto
<1>5. LocalsOK' /\ Owned'
  BY <1>1, <1>2, <1>3 DEF LocalsOK, Dropping, Caching, Asking, Owned
<1>6. Alone'
  BY <1>1, <1>2, StaysAlone
<1>7. orderly[u] => /\ Prepared(th)
                    /\ \A t \in Threads \ {th} : pc[t] # "idle" => usr[t] # u
  BY <1>1, NobodyElse DEF CachingOK, Caching
<1> HIDE DEF u
<1>8. DroppingOK'
  BY <1>1, <1>2, <1>3, <1>5, <1>7 DEF DroppingOK, Dropping, LocalsOK, u
<1>9. CachingOK'
  <2> SUFFICES ASSUME NEW t \in Threads, pc'[t] \in Caching \union {"createToken"},
                      orderly[usr[t]]
               PROVE  Prepared(t)'
    BY <1>2 DEF CachingOK
  <2> USE DEF Prepared
  <2>1. CASE t = th
    BY <1>1, <1>2, <1>3, <1>7, <2>1 DEF Caching, Live, u
  <2>2. CASE t # th
    <3>1. usr[t] # u /\ usr[t] \in Users
      BY <1>2, <1>5, <1>7, <2>2 DEF Caching, LocalsOK
    <3> QED
      BY <1>2, <1>3, <2>2, <3>1 DEF CachingOK, Caching, Live
  <2> QED
    BY <2>1, <2>2
<1>10. Covered'
  <2> SUFFICES ASSUME NEW k \in held, orderly[owner[k]], Live(k),
                      \A t \in Threads : pc'[t] = "cacheUser" => usr[t] # owner[k]
               PROVE  /\ byUser'[owner[k]] = k
                      /\ access[k] <= userTtl'[owner[k]] /\ refresh[k] <= userTtl'[owner[k]]
    BY <1>2 DEF Covered, Live
  <2>1. CASE owner[k] = u
    <3>1. k = tok[th]
      BY <1>7, <2>1 DEF Prepared, u
    <3>2. k \in Tokens /\ access[k] <= RefreshTtl /\ refresh[k] <= RefreshTtl
      BY SessionAssumption DEF TypeOK
    <3> QED
      BY <1>1, <1>3, <2>1, <3>1, <3>2
  <2>2. CASE owner[k] # u
    BY <1>1, <1>2, <1>3, <2>2 DEF Covered, TypeOK, u
  <2> QED
    BY <2>1, <2>2
<1>11. OrderlyKick'
  BY <1>2 DEF OrderlyKick, Live
<1> QED
  BY <1>4, <1>5, <1>6, <1>8, <1>9, <1>10, <1>11

\* The session is complete, and the userId key covers it.
LEMMA CacheRefreshStep ==
  ASSUME IInv, NEW th \in Threads, CacheRefresh(th)
  PROVE  IInv'
<1> DEFINE u == usr[th]
<1> DEFINE k == tok[th]
<1> USE DEF IInv, At
<1>1. pc[th] = "cacheRefresh" /\ u \in Users /\ k \in Tokens /\ owner[k] = u
  BY DEF CacheRefresh, LocalsOK, Caching
<1>2. /\ pc'[th] = "idle" /\ usr'[th] = NoUser
      /\ \A t \in Threads \ {th} : pc'[t] = pc[t] /\ usr'[t] = usr[t] /\ op'[t] = op[t]
                                   /\ tok'[t] = tok[t]
      /\ held' = held \union {k}
      /\ UNCHANGED <<owner, access, byUser, userTtl, notice, kicked, orderly>>
  BY DEF CacheRefresh, Return, Goto, TypeOK
<1>3. \A j \in Tokens : refresh'[j] = IF j = k THEN RefreshTtl ELSE refresh[j]
  BY DEF CacheRefresh, TypeOK
<1>4. TypeOK'
  BY <1>1, SessionAssumption DEF TypeOK, Labels, CacheRefresh, Return, Goto
<1> HIDE DEF u, k
<1>5. LocalsOK' /\ Owned'
  BY <1>1, <1>2 DEF LocalsOK, Dropping, Caching, Asking, Owned
<1>6. Alone'
  BY <1>1, <1>2, StaysAlone DEF u
<1>7. orderly[u] => /\ \A j \in held : owner[j] = u /\ Live(j) => j = k
                    /\ k \notin kicked /\ byUser[u] = k /\ userTtl[u] = RefreshTtl
                    /\ \A t \in Threads \ {th} : pc[t] # "idle" => usr[t] # u
  BY <1>1, NobodyElse DEF CachingOK, Prepared, Caching, u, k
<1>8. \A j \in Tokens : owner[j] # u => refresh'[j] = refresh[j] /\ (Live(j)' <=> Live(j))
  BY <1>1, <1>2, <1>3 DEF Live
<1>9. DroppingOK'
  BY <1>1, <1>2, <1>5, <1>7, <1>8 DEF DroppingOK, Dropping, LocalsOK
<1>10. CachingOK'
  <2> SUFFICES ASSUME NEW t \in Threads, pc'[t] \in Caching \union {"createToken"},
                      orderly'[usr'[t]]
               PROVE  Prepared(t)'
    BY DEF CachingOK
  <2>1. t # th /\ pc'[t] = pc[t] /\ usr'[t] = usr[t] /\ op'[t] = op[t] /\ tok'[t] = tok[t]
        /\ orderly[usr[t]]
    BY <1>2 DEF Caching
  <2>2. usr[t] # u
    BY <1>7, <2>1 DEF Caching
  <2>3. pc[t] \in Caching => owner[tok[t]] = usr[t]
    BY DEF LocalsOK
  <2> QED
    BY <1>1, <1>2, <1>8, <2>1, <2>2, <2>3 DEF CachingOK, Prepared, TypeOK
<1>11. Covered'
  <2> SUFFICES ASSUME NEW j \in held', orderly[owner[j]], Live(j)',
                      \A t \in Threads : pc'[t] = "cacheUser" => usr'[t] # owner[j]
               PROVE  /\ byUser[owner[j]] = j
                      /\ access[j] <= userTtl[owner[j]] /\ refresh'[j] <= userTtl[owner[j]]
    BY <1>2 DEF Covered
  <2>1. CASE j = k
    BY <1>1, <1>3, <1>7, <2>1, SessionAssumption DEF TypeOK
  <2>2. CASE j # k
    <3>1. j \in held /\ refresh'[j] = refresh[j] /\ Live(j)
      BY <1>2, <1>3, <2>2 DEF Live, TypeOK
    <3>2. owner[j] # u
      BY <1>7, <2>2, <3>1
    <3> QED
      BY <1>1, <1>2, <3>1, <3>2 DEF Covered, u
  <2> QED
    BY <2>1, <2>2
<1>12. OrderlyKick'
  BY <1>1, <1>2, <1>3, <1>7 DEF OrderlyKick, Live, TypeOK
<1> QED
  BY <1>4, <1>5, <1>6, <1>9, <1>10, <1>11, <1>12

\* A request comes with a token its client holds, and writes nothing yet.
LEMMA GetByAccessTokenStep ==
  ASSUME IInv, NEW th \in Threads, NEW k \in Tokens, GetByAccessToken(th, k)
  PROVE  IInv'
<1> DEFINE u == owner[k]
<1> USE DEF IInv, redis, At
<1>1. u \in Users /\ k \in held
  BY DEF GetByAccessToken, TypeOK
<1>2. /\ pc[th] = "idle"
      /\ pc'[th] = "getRefresh" /\ usr'[th] = u /\ op'[th] = "request" /\ tok'[th] = k
      /\ \A t \in Threads \ {th} : pc'[t] = pc[t] /\ usr'[t] = usr[t] /\ op'[t] = op[t]
                                   /\ tok'[t] = tok[t]
      /\ UNCHANGED <<owner, access, refresh, byUser, userTtl, notice, held, kicked, expire>>
  BY DEF GetByAccessToken, Goto, TypeOK
<1>3. \A v \in Users : orderly'[v] => orderly[v] /\ (v = u => ~Busy(u))
  BY DEF TypeOK, GetByAccessToken, Enter
<1>4. TypeOK'
  BY <1>1 DEF TypeOK, Labels, GetByAccessToken, Goto, Enter
<1> HIDE DEF u
<1>5. LocalsOK' /\ Owned'
  BY <1>1, <1>2 DEF LocalsOK, Dropping, Caching, Asking, Owned, u
<1>6. Alone'
  BY <1>2, <1>3 DEF Alone, Runs, Busy
<1>7. DroppingOK' /\ CachingOK'
  <2>1. \A t \in Threads : pc'[t] \in Dropping \union Caching \union {"createToken"} =>
          /\ t # th /\ pc'[t] = pc[t] /\ usr'[t] = usr[t] /\ op'[t] = op[t] /\ tok'[t] = tok[t]
          /\ orderly'[usr[t]] => orderly[usr[t]]
    BY <1>2, <1>3 DEF LocalsOK, Dropping, Caching
  <2> QED
    BY <1>2, <2>1 DEF DroppingOK, CachingOK, Prepared, Live
<1>8. Covered'
  BY <1>2, <1>3 DEF Covered, TypeOK, Live
<1>9. OrderlyKick'
  BY <1>2, <1>3 DEF OrderlyKick, TypeOK, Live
<1> QED
  BY <1>4, <1>5, <1>6, <1>7, <1>8, <1>9

\* A renewal starts from a refresh key that lives: the userId key leads to its session,
\* which is thus the only one, and has not been dropped.
LEMMA GetByRefreshTokenStep ==
  ASSUME IInv, NEW th \in Threads, GetByRefreshToken(th)
  PROVE  IInv'
<1> DEFINE u == usr[th]
<1> USE DEF IInv, redis, locals, At
<1>1. /\ pc[th] = "getRefresh" /\ u \in Users /\ op[th] = "request"
      /\ tok[th] \in Tokens /\ owner[tok[th]] = u
  BY DEF GetByRefreshToken, LocalsOK, Asking
<1>2. /\ \A t \in Threads \ {th} : pc'[t] = pc[t] /\ usr'[t] = usr[t] /\ op'[t] = op[t]
                                   /\ tok'[t] = tok[t]
      /\ UNCHANGED <<owner, access, refresh, byUser, userTtl, notice, held, kicked, orderly>>
  BY DEF GetByRefreshToken, Return, Goto, TypeOK
<1>3. \/ /\ refresh[tok[th]] > 0 /\ pc'[th] = "cacheAccess"
         /\ UNCHANGED <<op, usr, tok, expire>>
      \/ pc'[th] = "getOffline" /\ UNCHANGED <<op, usr, tok, expire>>
      \/ pc'[th] = "idle" /\ usr'[th] = NoUser
  BY DEF GetByRefreshToken, Return, Goto, TypeOK
<1>4. TypeOK'
  BY SessionAssumption DEF GetByRefreshToken, Return, Goto, TypeOK, Labels
<1> HIDE DEF u
<1>5. LocalsOK' /\ Owned'
  BY <1>1, <1>2, <1>3 DEF LocalsOK, Dropping, Caching, Asking, Owned
<1>6. Alone'
  BY <1>1, <1>2, <1>3, StaysAlone DEF u
<1>7. ASSUME orderly[u], refresh[tok[th]] > 0
      PROVE  /\ tok[th] \notin kicked
             /\ \A k \in held : owner[k] = u /\ Live(k) => k = tok[th]
  <2>1. \A t \in Threads : At(t, "cacheUser") => usr[t] # u
    BY <1>1, <1>7, NobodyElse DEF u
  <2>2. tok[th] \notin kicked
    BY <1>1, <1>7 DEF OrderlyKick, Live
  <2>3. ASSUME NEW k \in held, owner[k] = u, Live(k) PROVE byUser[u] = k
    BY <1>7, <2>1, <2>3 DEF Covered
  <2>4. tok[th] \in held
    BY <1>1 DEF LocalsOK, Asking
  <2> QED
    BY <1>1, <1>7, <2>2, <2>3, <2>4 DEF Live
<1>8. DroppingOK'
  BY <1>1, <1>2, <1>3 DEF DroppingOK, Dropping
<1>9. CachingOK'
  BY <1>1, <1>2, <1>3, <1>7 DEF CachingOK, Prepared, Caching, Live, u
<1>10. Covered'
  BY <1>1, <1>2, <1>3 DEF Covered, Live
<1>11. OrderlyKick'
  BY <1>2 DEF OrderlyKick, Live
<1> QED
  BY <1>4, <1>5, <1>6, <1>8, <1>9, <1>10, <1>11

\* The notice concerns no session.
LEMMA AskOfflineStep ==
  ASSUME IInv, NEW th \in Threads, GetOfflineToken(th) \/ CleanOfflineToken(th)
  PROVE  IInv'
<1> USE DEF IInv, redis, locals, At
<1>1. /\ pc[th] \in Asking /\ usr[th] \in Users
      /\ tok[th] \in Tokens /\ owner[tok[th]] = usr[th]
  BY DEF GetOfflineToken, CleanOfflineToken, LocalsOK, Asking
<1>2. /\ \A t \in Threads \ {th} : pc'[t] = pc[t] /\ usr'[t] = usr[t] /\ op'[t] = op[t]
                                   /\ tok'[t] = tok[t]
      /\ UNCHANGED <<owner, access, refresh, byUser, userTtl, held, kicked, orderly>>
  BY DEF GetOfflineToken, CleanOfflineToken, Return, Goto, TypeOK
<1>3. \/ pc'[th] = "cleanOffline" /\ UNCHANGED <<op, usr, tok>>
      \/ pc'[th] = "idle" /\ usr'[th] = NoUser
  BY DEF GetOfflineToken, CleanOfflineToken, Return, Goto, TypeOK
<1>4. TypeOK'
  BY <1>1, SessionAssumption DEF GetOfflineToken, CleanOfflineToken, Return, Goto, TypeOK, Labels
<1>5. LocalsOK' /\ Owned'
  BY <1>1, <1>2, <1>3 DEF LocalsOK, Dropping, Caching, Asking, Owned
<1>6. Alone'
  BY <1>1, <1>2, <1>3, StaysAlone DEF Asking
<1>7. DroppingOK' /\ CachingOK'
  BY <1>1, <1>2, <1>3 DEF DroppingOK, CachingOK, Prepared, Dropping, Caching, Live
<1>8. Covered'
  BY <1>1, <1>2, <1>3 DEF Covered, Asking, Live
<1>9. OrderlyKick'
  BY <1>2 DEF OrderlyKick, Live
<1> QED
  BY <1>4, <1>5, <1>6, <1>7, <1>8, <1>9

\* Time passes for the session and the userId key alike; an operation it overtakes is no
\* longer orderly.
LEMMA TickStep ==
  ASSUME IInv, Tick
  PROVE  IInv'
<1> USE DEF IInv, locals, At
<1>1. UNCHANGED <<owner, held, kicked, pc, op, usr, tok, expire>>
  BY DEF Tick
<1>2. /\ \A k \in Tokens :
           /\ access'[k] = IF access[k] > 0 THEN access[k] - 1 ELSE 0
           /\ refresh'[k] = IF refresh[k] > 0 THEN refresh[k] - 1 ELSE 0
      /\ \A u \in Users :
           /\ userTtl'[u] = IF userTtl[u] > 0 THEN userTtl[u] - 1 ELSE 0
           /\ byUser'[u] = IF userTtl[u] > 1 THEN byUser[u] ELSE NoToken
  BY DEF Tick, Elapse, TypeOK
<1>3. \A u \in Users : orderly'[u] => orderly[u] /\ ~Busy(u)
  BY DEF Tick
<1>4. TypeOK'
  <2>1. access' \in [Tokens -> 0 .. AccessTtl] /\ refresh' \in [Tokens -> 0 .. RefreshTtl]
        /\ userTtl' \in [Users -> 0 .. RefreshTtl] /\ notice' \in [Tokens -> 0 .. RefreshTtl]
    BY SessionAssumption DEF Tick, Elapse, TypeOK
  <2>2. byUser' \in [Users -> Tokens \union {NoToken}] /\ orderly' \in [Users -> BOOLEAN]
    BY DEF Tick, TypeOK
  <2>3. \A u \in Users : userTtl'[u] > 0 => byUser'[u] # NoToken
    BY <1>2 DEF TypeOK
  <2> QED
    BY <1>1, <2>1, <2>2, <2>3 DEF TypeOK
<1>5. LocalsOK' /\ Owned'
  BY <1>1, <1>2 DEF LocalsOK, Owned
<1>6. Alone'
  BY <1>1, <1>3, StaysAlone
<1>7. \A t \in Threads : pc[t] # "idle" => ~orderly'[usr[t]]
  BY <1>3 DEF Busy, LocalsOK
<1>8. DroppingOK' /\ CachingOK'
  BY <1>1, <1>7 DEF DroppingOK, CachingOK, Dropping, Caching
<1>9. \A k \in Tokens : Live(k)' => Live(k) /\ (access[k] > 1 \/ refresh[k] > 1)
  BY <1>2 DEF Live, TypeOK
<1>10. Covered'
  <2> SUFFICES ASSUME NEW k \in held, orderly'[owner[k]], Live(k)'
               PROVE  /\ byUser'[owner[k]] = k
                      /\ access'[k] <= userTtl'[owner[k]] /\ refresh'[k] <= userTtl'[owner[k]]
    BY <1>1 DEF Covered
  <2> DEFINE u == owner[k]
  <2>1. k \in Tokens /\ u \in Users
    BY DEF TypeOK
  <2>2. byUser[u] = k /\ access[k] <= userTtl[u] /\ refresh[k] <= userTtl[u]
    BY <1>3, <1>7, <1>9, <2>1 DEF Covered
  <2>3. access[k] \in Nat /\ refresh[k] \in Nat /\ userTtl[u] \in Nat
    BY <2>1, SessionAssumption DEF TypeOK
  <2> HIDE DEF u
  <2>4. userTtl[u] > 1
    BY <1>9, <2>1, <2>2, <2>3
  <2> QED
    BY <1>2, <2>1, <2>2, <2>3, <2>4 DEF u
<1>11. OrderlyKick'
  BY <1>1, <1>3, <1>9 DEF OrderlyKick, TypeOK
<1> QED
  BY <1>4, <1>5, <1>6, <1>8, <1>10, <1>11

\* A login or kick-out that fails leaves the userId key where it can be found; a renewal
\* may not, and its user is orderly no more.
LEMMA CrashStep ==
  ASSUME IInv, NEW th \in Threads, Crash(th)
  PROVE  IInv'
<1> DEFINE u == usr[th]
<1> USE DEF IInv, redis, At
<1>1. pc[th] # "idle" /\ u \in Users
  BY DEF Crash, LocalsOK
<1>2. /\ \A t \in Threads \ {th} : pc'[t] = pc[t] /\ usr'[t] = usr[t] /\ op'[t] = op[t]
                                   /\ tok'[t] = tok[t]
      /\ pc'[th] = "idle" /\ usr'[th] = NoUser
      /\ UNCHANGED <<owner, access, refresh, byUser, userTtl, notice, held, kicked>>
  BY DEF Crash, Return, Goto, TypeOK
<1>3. \A v \in Users : orderly'[v] => orderly[v] /\ (v = u => op[th] # "request")
  BY DEF Crash, TypeOK
<1>4. TypeOK'
  <2>1. orderly' \in [Users -> BOOLEAN]
    BY DEF Crash, TypeOK
  <2>2. /\ pc' \in [Threads -> Labels]
        /\ op' \in [Threads -> {"none", "login", "offline", "request"}]
        /\ usr' \in [Threads -> Users \union {NoUser}]
        /\ tok' \in [Threads -> Tokens \union {NoToken}]
        /\ expire' \in [Threads -> 0 .. RefreshTtl]
    BY SessionAssumption DEF Crash, Return, Goto, TypeOK, Labels
  <2> QED
    BY <1>2, <2>1, <2>2 DEF TypeOK
<1>5. LocalsOK' /\ Owned'
  BY <1>1, <1>2 DEF LocalsOK, Dropping, Caching, Asking, Owned
<1>6. Alone'
  BY <1>1, <1>2, <1>3, StaysAlone
<1>7. DroppingOK' /\ CachingOK'
  <2>1. \A t \in Threads : pc'[t] \in Dropping \union Caching \union {"createToken"} =>
          /\ t # th /\ pc'[t] = pc[t] /\ usr'[t] = usr[t] /\ op'[t] = op[t] /\ tok'[t] = tok[t]
          /\ orderly'[usr[t]] => orderly[usr[t]]
    BY <1>2, <1>3 DEF LocalsOK, Dropping, Caching
  <2> QED
    BY <1>2, <2>1 DEF DroppingOK, CachingOK, Prepared, Live
<1>8. Covered'
  <2> SUFFICES ASSUME NEW k \in held, orderly'[owner[k]], Live(k),
                      \A t \in Threads : pc'[t] = "cacheUser" => usr'[t] # owner[k]
               PROVE  /\ byUser[owner[k]] = k
                      /\ access[k] <= userTtl[owner[k]] /\ refresh[k] <= userTtl[owner[k]]
    BY <1>2 DEF Covered, Live
  <2>1. owner[k] \in Users
    BY DEF TypeOK
  <2>2. ASSUME pc[th] = "cacheUser", owner[k] = u PROVE FALSE
    <3>1. Prepared(th) /\ op[th] = "login"
      BY <1>3, <2>1, <2>2 DEF CachingOK, Caching, LocalsOK
    <3> QED
      BY <2>2, <3>1 DEF Prepared, Caching
  <2> QED
    BY <1>2, <1>3, <2>1, <2>2 DEF Covered
<1>9. OrderlyKick'
  BY <1>2, <1>3 DEF OrderlyKick, TypeOK, Live
<1> QED
  BY <1>4, <1>5, <1>6, <1>7, <1>8, <1>9

LEMMA NextIInv == IInv /\ [Next]_vars => IInv'
<1> SUFFICES ASSUME IInv, [Next]_vars PROVE IInv'
  OBVIOUS
<1>1. CASE Tick
  BY <1>1, TickStep
<1>2. ASSUME NEW th \in Threads, Step(th) PROVE IInv'
  BY <1>2, BeginStep, GetByUserIdStep, GetTokenExpireStep, CacheOfflineTokenStep,
     CleanRefreshTokenStep, CleanTokenStep, CleanUserIdStep, CreateTokenStep, CacheAccessStep,
     CacheUserIdStep, CacheRefreshStep, GetByAccessTokenStep, GetByRefreshTokenStep,
     AskOfflineStep
  DEF Step
<1>3. ASSUME NEW th \in Threads, Crash(th) PROVE IInv'
  BY <1>3, CrashStep
<1>4. CASE UNCHANGED vars
  <2> USE <1>4 DEF vars, redis, locals, IInv, At
  <2>1. TypeOK' /\ LocalsOK' /\ Owned'
    BY DEF TypeOK, LocalsOK, Owned
  <2>2. Alone' /\ DroppingOK' /\ CachingOK'
    BY DEF Alone, Runs, DroppingOK, CachingOK, Prepared, Live
  <2>3. Covered' /\ OrderlyKick'
    BY DEF Covered, OrderlyKick, Live
  <2> QED
    BY <2>1, <2>2, <2>3
<1> QED
  BY <1>1, <1>2, <1>3, <1>4 DEF Next

LEMMA Inductive == Spec => []IInv
BY InitIInv, NextIInv, PTL DEF Spec

-----------------------------------------------------------------------------
(* What it implies *)

\* Every variable keeps its type however logins, kick-outs, renewals, expirations and
\* failures interleave: a client's token has an owner, a userId key that lives a token.
THEOREM TypeCorrect == Spec => []TypeOK
<1>1. IInv => TypeOK
  BY DEF IInv
<1> QED
  BY <1>1, Inductive, PTL

\* For a user whose operations do not overlap, the userId key leads to the session of
\* every token a client holds that is still alive, so login and offline can end it.
THEOREM SessionsLocatable == Spec => []Locatable
<1>1. IInv => Locatable
  <2> SUFFICES ASSUME IInv, NEW k \in held,
                      orderly[owner[k]], ~Busy(owner[k]), Live(k)
               PROVE  byUser[owner[k]] = k
    BY DEF Locatable
  <2>1. \A th \in Threads : At(th, "cacheUser") => usr[th] # owner[k]
    BY DEF Busy, At
  <2> QED
    BY <2>1 DEF IInv, Covered
<1> QED
  BY <1>1, Inductive, PTL

\* For such a user, no key of a token that offline() has dropped comes back.
THEOREM KickedForGood == Spec => []OrderlyKick
<1>1. IInv => OrderlyKick
  BY DEF IInv
<1> QED
  BY <1>1, Inductive, PTL

\* A step revives no session: cacheToken writes only keys of a token just made or found
\* alive, whoever else is at work on the user.
LEMMA StepKeepsGone ==
  ASSUME IInv, [Next]_vars, NEW k \in Tokens, Gone(k)
  PROVE  Gone(k)'
<1> USE DEF IInv, At, redis, locals
<1>1. /\ owner[k] # NoUser /\ access[k] = 0 /\ refresh[k] = 0
      /\ \A t \in Threads : tok[t] = k => pc[t] \notin Caching
  BY SessionAssumption DEF Gone, Live, TypeOK, Caching
<1> SUFFICES /\ owner'[k] # NoUser /\ access'[k] = 0 /\ refresh'[k] = 0
             /\ \A t \in Threads : tok'[t] = k => pc'[t] \notin Caching
  BY DEF Gone, Live, Caching
<1>2. CASE Tick
  BY <1>1, <1>2 DEF Tick, Elapse, TypeOK
<1>3. ASSUME NEW th \in Threads, Crash(th)
      PROVE  /\ owner'[k] # NoUser /\ access'[k] = 0 /\ refresh'[k] = 0
             /\ \A t \in Threads : tok'[t] = k => pc'[t] \notin Caching
  BY <1>1, <1>3 DEF Crash, Return, Goto, TypeOK, Caching
<1>4. ASSUME NEW th \in Threads, Step(th)
      PROVE  /\ owner'[k] # NoUser /\ access'[k] = 0 /\ refresh'[k] = 0
             /\ \A t \in Threads : tok'[t] = k => pc'[t] \notin Caching
  <2>1. ASSUME NEW u \in Users, DoLogin(th, u) \/ Offline(th, u)
        PROVE  /\ UNCHANGED <<owner, access, refresh, tok>>
               /\ \A t \in Threads : tok'[t] = k => pc'[t] \notin Caching
    BY <1>1, <2>1 DEF DoLogin, Offline, Begin, Goto, TypeOK, Caching
  <2>2. CASE GetByUserId(th)
    BY <1>1, <2>2 DEF GetByUserId, AfterOffline, Return, Goto, TypeOK, Caching
  <2>3. CASE GetTokenExpire(th) \/ CacheOfflineToken(th) \/ CleanRefreshToken(th) \/ CleanToken(th)
    BY <1>1, <2>3
    DEF GetTokenExpire, CacheOfflineToken, CleanRefreshToken, CleanToken, Goto, TypeOK, Caching
  <2>4. CASE CleanUserId(th)
    BY <1>1, <2>4 DEF CleanUserId, AfterOffline, Return, Goto, TypeOK, Caching
  <2>5. CASE CreateToken(th)
    BY <1>1, <2>5, SessionAssumption DEF CreateToken, Goto, TypeOK, Caching
  <2>6. CASE CacheAccess(th) \/ CacheUserId(th)
    BY <1>1, <2>6 DEF CacheAccess, CacheUserId, Goto, TypeOK, Caching
  <2>7. CASE CacheRefresh(th)
    BY <1>1, <2>7 DEF CacheRefresh, Return, Goto, TypeOK, Caching
  <2>8. ASSUME NEW j \in Tokens, GetByAccessToken(th, j)
        PROVE  /\ UNCHANGED <<owner, access, refresh>>
               /\ \A t \in Threads : tok'[t] = k => pc'[t] \notin Caching
    BY <1>1, <2>8 DEF GetByAccessToken, Goto, TypeOK, Caching
  <2>9. CASE GetByRefreshToken(th)
    BY <1>1, <2>9 DEF GetByRefreshToken, Return, Goto, TypeOK, Caching
  <2>10. CASE GetOfflineToken(th) \/ CleanOfflineToken(th)
    BY <1>1, <2>10 DEF GetOfflineToken, CleanOfflineToken, Return, Goto, TypeOK, Caching
  <2> QED
    BY <1>1, <1>4, <2>1, <2>2, <2>3, <2>4, <2>5, <2>6, <2>7, <2>8, <2>9, <2>10 DEF Step
<1>5. CASE UNCHANGED vars
  BY <1>1, <1>5 DEF vars
<1> QED
  BY <1>2, <1>3, <1>4, <1>5 DEF Next

\* A session whose keys are both gone and that no thread is writing never returns,
\* whatever operations and failures overlap.
THEOREM GoneForGood == Spec => GoneStaysGone
<1>1. IInv /\ [Next]_vars => (\A k \in Tokens : Gone(k) => Gone(k)')
  BY StepKeepsGone
<1>2. Spec => [][\A k \in Tokens : Gone(k) => Gone(k)']_vars
  BY <1>1, Inductive, PTL DEF Spec
<1> QED
  BY <1>2 DEF GoneStaysGone
=============================================================================
