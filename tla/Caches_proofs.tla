----------------------------- MODULE Caches_proofs -----------------------------
(***************************************************************************)
(* Proofs about the system's two caches, that of Nomba's token in Redis    *)
(* (TokenLease) and that of the API's answers in a tab of the console      *)
(* (Console).                                                              *)
(*                                                                         *)
(* TokenLease: for any number of processes and calls, and whatever expires *)
(* or crashes, two refreshes meet only when one of them has no lease, and  *)
(* only such a one can set the cache back.  Console: for any number of     *)
(* mutations and disturbances, no page settles on an answer from before    *)
(* its operator's own write.                                               *)
(***************************************************************************)
EXTENDS TokenLease, Console, FiniteSetTheorems, TLAPS

(* A call that refreshes and is not excused holds the lease in Redis.      *)
LeaseInv ==
    \A c \in Callers :
        Refreshing(c) /\ c \notin unleased => lease = c /\ holds[c]

(* As long as only such calls have written, the cache is not ahead of what *)
(* the one that is about to write has obtained.                            *)
CacheInv ==
    /\ token <= issued
    /\ \A c \in Callers : got[c] <= issued
    /\ ~dirty => \A c \in Callers :
          pc[c] = "write" /\ c \notin unleased => token <= got[c]

IInv == TypeOK /\ LeaseInv /\ CacheInv

-----------------------------------------------------------------------------
(* The initial states are well typed.                                      *)
LEMMA InitTyped == Init => TypeOK
<1> SUFFICES ASSUME Init PROVE TypeOK
  OBVIOUS
<1>1. \A c \in Callers : mutex[Home[c]] = Nobody /\ pc[c] = "idle" /\ c # Nobody
  BY NobodyAssumption, HomeAssumption DEF Init
<1>2. dirty \in BOOLEAN
  BY DEF Init
<1> QED
  BY <1>1, <1>2 DEF Init, TypeOK, Labels

(* Every step keeps the types and the link between mutexes and calls.      *)
LEMMA NextTyped == TypeOK /\ [Next]_vars => TypeOK'
<1> USE NobodyAssumption, HomeAssumption DEF TypeOK, Labels
<1> SUFFICES ASSUME TypeOK, [Next]_vars PROVE TypeOK'
  OBVIOUS
<1>1. ASSUME NEW c \in Callers, ReadCache(c) PROVE TypeOK'
  BY <1>1 DEF ReadCache, redisVars, nombaVars, historyVars, boundVars
<1>2. ASSUME NEW c \in Callers, EnterMutex(c) PROVE TypeOK'
  BY <1>2 DEF EnterMutex, redisVars, nombaVars, callVars, historyVars, boundVars
<1>3. ASSUME NEW c \in Callers, ReadAgain(c) PROVE TypeOK'
  <2>1. CASE Fresh(token)
    <3>1. /\ pc[c] = "entered"
          /\ Leave(c)
          /\ UNCHANGED <<redisVars, nombaVars, historyVars, boundVars>>
      BY <1>3, <2>1 DEF ReadAgain
    <3> QED
      BY <3>1 DEF Leave, redisVars, nombaVars, historyVars, boundVars
  <2>2. CASE ~Fresh(token)
    <3>1. /\ seen' = [seen EXCEPT ![c] = @ \/ token # 0]
          /\ UNCHANGED <<redisVars, nombaVars, mutex, got, holds, historyVars, boundVars>>
      BY <1>3, <2>2 DEF ReadAgain
    <3>2. pc[c] = "entered" /\ pc' = [pc EXCEPT ![c] = "stale"]
      BY <1>3, <2>2 DEF ReadAgain
    <3>3. seen' \in [Callers -> BOOLEAN]
      BY <3>1
    <3> QED
      BY <3>1, <3>2, <3>3 DEF redisVars, nombaVars, historyVars, boundVars
  <2> QED BY <2>1, <2>2
<1>4. ASSUME NEW c \in Callers, AcquireLease(c) PROVE TypeOK'
  <2>1. /\ lease' \in Callers \cup {Nobody}
        /\ holds' \in [Callers -> BOOLEAN]
        /\ UNCHANGED <<token, nombaVars, mutex, seen, got, historyVars, boundVars>>
    BY <1>4 DEF AcquireLease
  <2>2. \E label \in {"refresh", "issue", "waiting"} : pc' = [pc EXCEPT ![c] = label]
    BY <1>4 DEF AcquireLease, Refresher
  <2>3. pc[c] = "stale"
    BY <1>4 DEF AcquireLease
  <2> QED
    BY <2>1, <2>2, <2>3 DEF nombaVars, historyVars, boundVars
<1>5. ASSUME NEW c \in Callers, PeerRefreshed(c) PROVE TypeOK'
  BY <1>5 DEF PeerRefreshed, Leave, redisVars, nombaVars, historyVars, boundVars
<1>6. ASSUME NEW c \in Callers, GiveUp(c) PROVE TypeOK'
  BY <1>6 DEF GiveUp, Refresher, redisVars, nombaVars, callVars, boundVars
<1>7. ASSUME NEW c \in Callers, Obtain(c) PROVE TypeOK'
  BY <1>7 DEF Obtain, redisVars, historyVars, boundVars
<1>8. ASSUME NEW c \in Callers, Write(c) PROVE TypeOK'
  <2>1. dirty' \in BOOLEAN
    BY <1>8 DEF Write
  <2> QED
    BY <1>8, <2>1 DEF Write, nombaVars, callVars, boundVars
<1>9. ASSUME NEW c \in Callers, Release(c) PROVE TypeOK'
  BY <1>9 DEF Release, Leave, Held, nombaVars, boundVars
<1>10. ASSUME NEW c \in Callers, AuthFails(c) PROVE TypeOK'
  BY <1>10 DEF AuthFails, redisVars, nombaVars, callVars, historyVars
<1>11. ASSUME Age PROVE TypeOK'
  BY <1>11 DEF Age, redisVars, callVars, historyVars, boundVars
<1>12. ASSUME OrphanExpires PROVE TypeOK'
  BY <1>12 DEF OrphanExpires, nombaVars, callVars, historyVars, boundVars
<1>13. ASSUME LeaseLapses PROVE TypeOK'
  BY <1>13 DEF LeaseLapses, Held, nombaVars, callVars
<1>14. ASSUME NEW p \in Processes, Crash(p) PROVE TypeOK'
  <2>1. /\ mutex' \in [Processes -> Callers \cup {Nobody}]
        /\ pc' \in [Callers -> Labels]
        /\ seen' \in [Callers -> BOOLEAN]
        /\ got' \in [Callers -> Nat]
        /\ holds' \in [Callers -> BOOLEAN]
    BY <1>14 DEF Crash
  <2>2. ASSUME NEW c \in Callers
        PROVE  mutex'[Home[c]] = c <=> pc'[c] \notin {"idle", "queued"}
    BY <1>14, <2>2 DEF Crash
  <2>3. /\ unleased' \in SUBSET Callers
        /\ lapses' \in Nat
        /\ UNCHANGED <<token, lease, issued, aged, dirty, errors>>
    BY <1>14 DEF Crash, redisVars, nombaVars
  <2> QED
    BY <2>1, <2>2, <2>3
<1>15. CASE UNCHANGED vars
  BY <1>15 DEF vars, redisVars, nombaVars, callVars, historyVars, boundVars
<1> QED
  BY <1>1, <1>2, <1>3, <1>4, <1>5, <1>6, <1>7, <1>8, <1>9, <1>10, <1>11, <1>12,
     <1>13, <1>14, <1>15 DEF Next, Proceed

(* Every reachable state is well typed, and each process's mutex is held   *)
(* exactly by the call that is inside (runExclusive).                      *)
THEOREM TypeCorrect == Spec => []TypeOK
<1>1. Init => TypeOK
  BY InitTyped
<1>2. TypeOK /\ [Next]_vars => TypeOK'
  BY NextTyped
<1> QED
  BY <1>1, <1>2, PTL DEF Spec

-----------------------------------------------------------------------------
(* Nobody refreshes and nobody has written at first.                       *)
LEMMA InitInv == Init => LeaseInv /\ CacheInv
  BY DEF Init, LeaseInv, CacheInv, Refreshing

(* The lease: a call becomes a refresher by acquiring it, or is excused;   *)
(* whatever takes it away excuses the call that had it.                    *)
LEMMA LeaseStep ==
    ASSUME TypeOK, LeaseInv, [Next]_vars
    PROVE  LeaseInv'
<1> USE DEF TypeOK, LeaseInv, Refreshing, Labels
<1>1. ASSUME NEW c \in Callers, ReadCache(c) PROVE LeaseInv'
  BY <1>1 DEF ReadCache, redisVars, historyVars
<1>2. ASSUME NEW c \in Callers, EnterMutex(c) PROVE LeaseInv'
  BY <1>2 DEF EnterMutex, redisVars, callVars, historyVars
<1>3. ASSUME NEW c \in Callers, ReadAgain(c) PROVE LeaseInv'
  <2>1. CASE Fresh(token)
    <3>1. Leave(c) /\ UNCHANGED <<redisVars, historyVars>>
      BY <1>3, <2>1 DEF ReadAgain
    <3> QED
      BY <3>1 DEF Leave, redisVars, historyVars
  <2>2. CASE ~Fresh(token)
    BY <1>3, <2>2 DEF ReadAgain, redisVars, historyVars
  <2> QED
    BY <2>1, <2>2
<1>4. ASSUME NEW c \in Callers, AcquireLease(c) PROVE LeaseInv'
  BY <1>4, NobodyAssumption DEF AcquireLease, historyVars
<1>5. ASSUME NEW c \in Callers, PeerRefreshed(c) PROVE LeaseInv'
  BY <1>5 DEF PeerRefreshed, Leave, redisVars, historyVars
<1>6. ASSUME NEW c \in Callers, GiveUp(c) PROVE LeaseInv'
  BY <1>6 DEF GiveUp, redisVars, callVars
<1>7. ASSUME NEW c \in Callers, Obtain(c) PROVE LeaseInv'
  BY <1>7 DEF Obtain, redisVars, historyVars
<1>8. ASSUME NEW c \in Callers, Write(c) PROVE LeaseInv'
  BY <1>8 DEF Write, callVars
<1>9. ASSUME NEW c \in Callers, Release(c) PROVE LeaseInv'
  BY <1>9, NobodyAssumption DEF Release, Leave, Held
<1>10. ASSUME NEW c \in Callers, AuthFails(c) PROVE LeaseInv'
  BY <1>10 DEF AuthFails, redisVars, callVars, historyVars
<1>11. ASSUME Age PROVE LeaseInv'
  BY <1>11 DEF Age, redisVars, callVars, historyVars
<1>12. ASSUME OrphanExpires PROVE LeaseInv'
  BY <1>12, NobodyAssumption DEF OrphanExpires, Held, callVars, historyVars
<1>13. ASSUME LeaseLapses PROVE LeaseInv'
  BY <1>13 DEF LeaseLapses, Held, callVars
<1>14. ASSUME NEW p \in Processes, Crash(p) PROVE LeaseInv'
  BY <1>14 DEF Crash, redisVars
<1>15. CASE UNCHANGED vars
  BY <1>15 DEF vars, redisVars, callVars, historyVars
<1> QED
  BY <1>1, <1>2, <1>3, <1>4, <1>5, <1>6, <1>7, <1>8, <1>9, <1>10, <1>11, <1>12,
     <1>13, <1>14, <1>15 DEF Next, Proceed

(* "only ONE instance refreshes at a time" (token.ts): two leased          *)
(* refreshers would both be the owner of the one key.                      *)
LEMMA LeaseExcludes == LeaseInv => SoleRefresher
  BY DEF LeaseInv, SoleRefresher

(* The numbers: a leased call obtains a token newer than the cached one    *)
(* and writes it before another leased call can obtain or write its own.   *)
LEMMA CacheStep ==
    ASSUME TypeOK, LeaseInv, CacheInv, [Next]_vars
    PROVE  CacheInv'
<1> USE DEF TypeOK, CacheInv, Labels
<1>1. ASSUME NEW c \in Callers, ReadCache(c) PROVE CacheInv'
  BY <1>1 DEF ReadCache, redisVars, nombaVars, historyVars
<1>2. ASSUME NEW c \in Callers, EnterMutex(c) PROVE CacheInv'
  BY <1>2 DEF EnterMutex, redisVars, nombaVars, callVars, historyVars
<1>3. ASSUME NEW c \in Callers, ReadAgain(c) PROVE CacheInv'
  <2>1. CASE Fresh(token)
    <3>1. Leave(c) /\ UNCHANGED <<redisVars, nombaVars, historyVars>>
      BY <1>3, <2>1 DEF ReadAgain
    <3> QED
      BY <3>1 DEF Leave, redisVars, nombaVars, historyVars
  <2>2. CASE ~Fresh(token)
    BY <1>3, <2>2 DEF ReadAgain, redisVars, nombaVars, historyVars
  <2> QED
    BY <2>1, <2>2
<1>4. ASSUME NEW c \in Callers, AcquireLease(c) PROVE CacheInv'
  BY <1>4 DEF AcquireLease, Refresher, nombaVars, historyVars
<1>5. ASSUME NEW c \in Callers, PeerRefreshed(c) PROVE CacheInv'
  BY <1>5 DEF PeerRefreshed, Leave, redisVars, nombaVars, historyVars
<1>6. ASSUME NEW c \in Callers, GiveUp(c) PROVE CacheInv'
  BY <1>6 DEF GiveUp, Refresher, redisVars, nombaVars, callVars
<1>7. ASSUME NEW c \in Callers, Obtain(c) PROVE CacheInv'
  BY <1>7 DEF Obtain, redisVars, historyVars
<1>8. ASSUME NEW c \in Callers, Write(c) PROVE CacheInv'
  <2>1. token' <= issued' /\ \A d \in Callers : got'[d] <= issued'
    BY <1>8 DEF Write, nombaVars, callVars
  <2>2. ASSUME ~dirty', NEW d \in Callers, pc'[d] = "write", d \notin unleased'
        PROVE  FALSE
    <3>1. c # d /\ pc[d] = "write" /\ d \notin unleased
      BY <1>8, <2>2 DEF Write
    <3>2. pc[c] = "write" /\ c \notin unleased
      BY <1>8, <2>2 DEF Write
    <3> QED
      BY <3>1, <3>2 DEF LeaseInv, Refreshing
  <2> QED
    BY <2>1, <2>2
<1>9. ASSUME NEW c \in Callers, Release(c) PROVE CacheInv'
  <2>1. /\ pc[c] = "finally"
        /\ UNCHANGED <<token, issued, dirty>>
        /\ pc' = [pc EXCEPT ![c] = "idle"]
        /\ got' = [got EXCEPT ![c] = 0]
        /\ unleased \ {c} \subseteq unleased'
    BY <1>9 DEF Release, Leave, nombaVars
  <2> QED
    BY <2>1
<1>10. ASSUME NEW c \in Callers, AuthFails(c) PROVE CacheInv'
  BY <1>10 DEF AuthFails, redisVars, nombaVars, callVars, historyVars
<1>11. ASSUME Age PROVE CacheInv'
  BY <1>11 DEF Age, redisVars, callVars, historyVars
<1>12. ASSUME OrphanExpires PROVE CacheInv'
  BY <1>12 DEF OrphanExpires, nombaVars, callVars, historyVars
<1>13. ASSUME LeaseLapses PROVE CacheInv'
  BY <1>13 DEF LeaseLapses, nombaVars, callVars
<1>14. ASSUME NEW p \in Processes, Crash(p) PROVE CacheInv'
  <2>1. /\ UNCHANGED <<token, issued, dirty>>
        /\ \A d \in Callers : Home[d] = p => pc'[d] = "idle" /\ got'[d] = 0
        /\ \A d \in Callers : Home[d] # p =>
              /\ pc'[d] = pc[d]
              /\ got'[d] = got[d]
              /\ d \in unleased' <=> d \in unleased
    BY <1>14 DEF Crash, redisVars, nombaVars
  <2> QED
    BY <2>1
<1>15. CASE UNCHANGED vars
  BY <1>15 DEF vars, redisVars, nombaVars, callVars, historyVars
<1> QED
  BY <1>1, <1>2, <1>3, <1>4, <1>5, <1>6, <1>7, <1>8, <1>9, <1>10, <1>11, <1>12,
     <1>13, <1>14, <1>15 DEF Next, Proceed

(* Only Write changes the token, and a leased one puts it forward.         *)
LEMMA Advances ==
    ASSUME IInv, [Next]_vars
    PROVE  token' >= token \/ dirty'
<1> USE DEF IInv, TypeOK
<1>1. ASSUME NEW c \in Callers, Write(c) PROVE token' >= token \/ dirty'
  <2>1. CASE dirty \/ c \in unleased
    BY <1>1, <2>1 DEF Write
  <2>2. CASE ~dirty /\ c \notin unleased
    <3>1. token' = got[c] /\ pc[c] = "write"
      BY <1>1 DEF Write
    <3> QED
      BY <2>2, <3>1 DEF CacheInv
  <2> QED
    BY <2>1, <2>2
<1>2. CASE \A c \in Callers : ~Write(c)
  <2>1. token' = token
    BY <1>2 DEF Next, Proceed, ReadCache, EnterMutex, ReadAgain, AcquireLease,
       PeerRefreshed, GiveUp, Obtain, Release, AuthFails, Age, OrphanExpires,
       LeaseLapses, Crash, vars, redisVars
  <2> QED
    BY <2>1
<1> QED
  BY <1>1, <1>2

(* The inductive invariant: types, the lease and the order of tokens.      *)
THEOREM Invariance == Spec => []IInv
<1>1. Init => IInv
  BY InitTyped, InitInv DEF IInv
<1>2. IInv /\ [Next]_vars => IInv'
  BY NextTyped, LeaseStep, CacheStep DEF IInv
<1> QED
  BY <1>1, <1>2, PTL DEF Spec

(* "only ONE instance refreshes at a time" (token.ts), for every number of *)
(* replicas and calls, except for calls that have no lease (any more).     *)
THEOREM SoleRefresherAlways == Spec => []SoleRefresher
<1>1. IInv => SoleRefresher
  BY LeaseExcludes DEF IInv
<1> QED
  BY <1>1, Invariance, PTL

(* As long as every writer has held its lease to the end, the cached token *)
(* is never replaced by one that Nomba had issued before it.               *)
THEOREM CacheAdvancesAlways == Spec => CacheAdvances
<1>1. IInv /\ [Next]_vars => (token' >= token \/ dirty')
  BY Advances
<1>2. IInv /\ [Next]_vars => [token' >= token \/ dirty']_vars
  BY <1>1
<1> QED
  BY <1>2, Invariance, PTL DEF Spec, CacheAdvances

-----------------------------------------------------------------------------
(* What of CallsReturn and LeaseRecovers is a safety property: nothing is  *)
(* left behind.  The call that has a process's mutex is one of its own and *)
(* still under way, so that a queued call waits for somebody who can move, *)
(* and a call that has acquired the lease has its finally still to come.   *)
NothingLeftBehind ==
    /\ \A p \in Processes : mutex[p] # Nobody =>
          Home[mutex[p]] = p /\ pc[mutex[p]] \notin {"idle", "queued"}
    /\ \A c \in Callers : holds[c] => Refreshing(c) \/ pc[c] = "finally"

(* Only the end of a call or of its process gives up the mutex, and with   *)
(* it what the call holds.                                                 *)
LEMMA BehindStep ==
    ASSUME TypeOK, NothingLeftBehind, [Next]_vars
    PROVE  NothingLeftBehind'
<1> USE NobodyAssumption, HomeAssumption DEF TypeOK, NothingLeftBehind, Refreshing, Labels
<1>1. ASSUME NEW c \in Callers, ReadCache(c) PROVE NothingLeftBehind'
  BY <1>1 DEF ReadCache
<1>2. ASSUME NEW c \in Callers, EnterMutex(c) PROVE NothingLeftBehind'
  BY <1>2 DEF EnterMutex, callVars
<1>3. ASSUME NEW c \in Callers, ReadAgain(c) PROVE NothingLeftBehind'
  <2>1. CASE Fresh(token)
    <3>1. pc[c] = "entered" /\ Leave(c)
      BY <1>3, <2>1 DEF ReadAgain
    <3> QED
      BY <3>1 DEF Leave
  <2>2. CASE ~Fresh(token)
    BY <1>3, <2>2 DEF ReadAgain
  <2> QED
    BY <2>1, <2>2
<1>4. ASSUME NEW c \in Callers, AcquireLease(c) PROVE NothingLeftBehind'
  <2>1. pc[c] = "stale" /\ UNCHANGED mutex
    BY <1>4 DEF AcquireLease
  <2>2. \/ holds' = [holds EXCEPT ![c] = TRUE] /\ pc' = [pc EXCEPT ![c] = Refresher(c)]
        \/ holds' = holds /\ pc' = [pc EXCEPT ![c] = "waiting"]
    BY <1>4 DEF AcquireLease
  <2> QED
    BY <2>1, <2>2 DEF Refresher
<1>5. ASSUME NEW c \in Callers, PeerRefreshed(c) PROVE NothingLeftBehind'
  BY <1>5 DEF PeerRefreshed, Leave
<1>6. ASSUME NEW c \in Callers, GiveUp(c) PROVE NothingLeftBehind'
  BY <1>6 DEF GiveUp, Refresher, callVars
<1>7. ASSUME NEW c \in Callers, Obtain(c) PROVE NothingLeftBehind'
  BY <1>7 DEF Obtain
<1>8. ASSUME NEW c \in Callers, Write(c) PROVE NothingLeftBehind'
  BY <1>8 DEF Write, callVars
<1>9. ASSUME NEW c \in Callers, Release(c) PROVE NothingLeftBehind'
  BY <1>9 DEF Release, Leave
<1>10. ASSUME NEW c \in Callers, AuthFails(c) PROVE NothingLeftBehind'
  BY <1>10 DEF AuthFails, callVars
<1>11. ASSUME Age PROVE NothingLeftBehind'
  BY <1>11 DEF Age, callVars
<1>12. ASSUME OrphanExpires PROVE NothingLeftBehind'
  BY <1>12 DEF OrphanExpires, callVars
<1>13. ASSUME LeaseLapses PROVE NothingLeftBehind'
  BY <1>13 DEF LeaseLapses, callVars
<1>14. ASSUME NEW p \in Processes, Crash(p) PROVE NothingLeftBehind'
  BY <1>14 DEF Crash
<1>15. CASE UNCHANGED vars
  BY <1>15 DEF vars, callVars
<1> QED
  BY <1>1, <1>2, <1>3, <1>4, <1>5, <1>6, <1>7, <1>8, <1>9, <1>10, <1>11, <1>12,
     <1>13, <1>14, <1>15 DEF Next, Proceed

(* No crash, time-out or failed answer leaves a mutex or a lease with a    *)
(* call that is over (runExclusive and the finally of getAccessToken).     *)
THEOREM NothingLeftBehindAlways == Spec => []NothingLeftBehind
<1>1. Init => NothingLeftBehind
  BY DEF Init, NothingLeftBehind
<1>2. TypeOK /\ NothingLeftBehind /\ [Next]_vars => NothingLeftBehind'
  BY BehindStep
<1> QED
  BY <1>1, <1>2, TypeCorrect, PTL DEF Spec

-----------------------------------------------------------------------------
(* Console: what the tab knows without its mutations.                      *)
TabTyped ==
    /\ view \in Views
    /\ store \in Tokens
    /\ known \in BOOLEAN
    /\ page \in Pages \cup {"login"}
    /\ known <=> page # "login"
    /\ cache \in Answers \cup {"none", "error"}
    /\ fetch \in [stage : {"idle", "sent", "refused"} \cup Answers, token : Tokens]
    /\ fetch.stage # "sent" => fetch.token = "none"
    /\ stale \in BOOLEAN
    /\ spent \in [writes : 0..MaxWrites, disturbances : 0..MaxDisturbances]

(* A mutation on the way was offered by the page it was sent from, and is  *)
(* counted.                                                                *)
Request == [mutation : Mutations, from : Pages, token : Tokens,
            stage : {"sent", "done", "failed", "refused"}]

Offered(c) == c.mutation \in Content[c.from].offers

CallsInv ==
    /\ calls \subseteq Request
    /\ \A c \in calls : Offered(c)
    /\ IsFiniteSet(calls)
    /\ Cardinality(calls) <= spent.writes

(* A mutation of the page that is open has changed the query, and its      *)
(* callback has not run yet.                                               *)
Awaited(c) ==
    /\ c.stage \in {"done", "failed"}
    /\ c.from = page
    /\ view \in Changed[c.mutation]

(* An answer without the page's own write is on the screen, or about to be *)
(* and nothing is asked, only while that callback is still to come.        *)
OwnWritesInv ==
    /\ Mounted
    /\ fetch.stage = "mine" \/ (fetch.stage = "idle" /\ cache = "mine")
    => \E c \in calls : Awaited(c)

ConsoleIInv == TabTyped /\ CallsInv /\ OwnWritesInv

-----------------------------------------------------------------------------
(* What the pages show and offer.                                          *)
LEMMA PagesAre ==
  /\ Pages = {"dashboard", "customers", "statement", "exceptions", "refunds",
              "school", "students", "rules"}
  /\ Sidebar.shows = {"exceptions", "refunds"}
  /\ Content["dashboard"].shows = {"kpis", "timeseries", "breakdown",
                                   "exceptions", "customers", "refunds"}
  /\ Content["dashboard"].offers = {"resolve", "reattribute", "approve"}
  /\ Content["customers"].shows = {"customers"}
  /\ Content["customers"].offers = {"createCustomer"}
  /\ Content["statement"].shows = {"statement"}
  /\ Content["statement"].offers = {"createInvoice", "applyCredit"}
  /\ Content["exceptions"].shows = {"exceptions", "customers"}
  /\ Content["exceptions"].offers = {"resolve", "reattribute"}
  /\ Content["refunds"].shows = {"refunds"}
  /\ Content["refunds"].offers = {"approve"}
  /\ Content["school"].shows = {"defaulters"}
  /\ Content["school"].offers = {"runBilling", "promoteCohort"}
  /\ Content["students"].shows = {"students"}
  /\ Content["students"].offers = {"onboardRoster"}
  /\ Content["rules"].shows = {"rules", "tags"}
  /\ Content["rules"].offers = {"createRule"}
<1>1. /\ Sidebar.shows = {"exceptions", "refunds"}
      /\ Sidebar.offers = {}
  BY DEF Sidebar, Part
<1>2. /\ ReattributeDialog.shows = {"customers"}
      /\ ReattributeDialog.offers = {"reattribute"}
  BY DEF ReattributeDialog, Part
<1>3. /\ ExceptionQueue.shows = {"exceptions", "customers"}
      /\ ExceptionQueue.offers = {"resolve", "reattribute"}
  BY <1>2 DEF ExceptionQueue, Together, Part
<1>4. /\ PendingRefunds.shows = {"refunds"}
      /\ PendingRefunds.offers = {"approve"}
  BY DEF PendingRefunds, Part
<1>5. /\ DashboardPage.shows = {"kpis", "timeseries", "breakdown",
                                "exceptions", "customers", "refunds"}
      /\ DashboardPage.offers = {"resolve", "reattribute", "approve"}
  BY <1>3, <1>4 DEF DashboardPage, Together, Part
<1>6. /\ CustomersPage.shows = {"customers"}
      /\ CustomersPage.offers = {"createCustomer"}
  BY DEF CustomersPage, Part
<1>7. /\ StatementPage.shows = {"statement"}
      /\ StatementPage.offers = {"createInvoice", "applyCredit"}
  BY DEF StatementPage, Part
<1>8. /\ RunBillingDialog.shows = {}
      /\ RunBillingDialog.offers = {"runBilling"}
  BY DEF RunBillingDialog, Part
<1>9. /\ PromoteDialog.shows = {}
      /\ PromoteDialog.offers = {"promoteCohort"}
  BY DEF PromoteDialog, Part
<1>10. /\ SchoolCollectionsPage.shows = {"defaulters"}
       /\ SchoolCollectionsPage.offers = {"runBilling", "promoteCohort"}
  BY <1>8, <1>9 DEF SchoolCollectionsPage, Together, Part
<1>11. /\ StudentsPage.shows = {"students"}
       /\ StudentsPage.offers = {"onboardRoster"}
  BY DEF StudentsPage, Part
<1>12. /\ FeeDialog.shows = {"tags"}
       /\ FeeDialog.offers = {"createRule"}
  BY DEF FeeDialog, Part
<1>13. /\ DiscountDialog.shows = {"tags"}
       /\ DiscountDialog.offers = {"createRule"}
  BY DEF DiscountDialog, Part
<1>14. /\ RulesPage.shows = {"rules", "tags"}
       /\ RulesPage.offers = {"createRule"}
  BY <1>12, <1>13 DEF RulesPage, Together, Part
<1>15. /\ Pages = {"dashboard", "customers", "statement", "exceptions",
                   "refunds", "school", "students", "rules"}
       /\ Content["dashboard"] = DashboardPage
       /\ Content["customers"] = CustomersPage
       /\ Content["statement"] = StatementPage
       /\ Content["exceptions"] = ExceptionQueue
       /\ Content["refunds"] = PendingRefunds
       /\ Content["school"] = SchoolCollectionsPage
       /\ Content["students"] = StudentsPage
       /\ Content["rules"] = RulesPage
  BY DEF Pages, Content
<1> QED
  BY <1>1, <1>3, <1>4, <1>5, <1>6, <1>7, <1>10, <1>11, <1>14, <1>15

(* hooks.ts: what a mutation changes of what its page shows, its onSuccess *)
(* asks for again.                                                         *)
LEMMA RefreshesItsPage ==
  ASSUME NEW p \in Pages, NEW m \in Content[p].offers
  PROVE  Shown[p] \cap Changed[m] \subseteq Invalidated[m]
<1>1. Shown[p] = {"exceptions", "refunds"} \cup Content[p].shows
  BY PagesAre DEF Shown, Together, Part
<1>2. CASE p = "dashboard"
  BY <1>1, <1>2, PagesAre DEF Changed, Invalidated, OpsViews, Views
<1>3. CASE p = "customers"
  BY <1>1, <1>3, PagesAre DEF Changed, Invalidated, OpsViews, Views
<1>4. CASE p = "statement"
  BY <1>1, <1>4, PagesAre DEF Changed, Invalidated, OpsViews, Views
<1>5. CASE p = "exceptions"
  BY <1>1, <1>5, PagesAre DEF Changed, Invalidated, OpsViews, Views
<1>6. CASE p = "refunds"
  BY <1>1, <1>6, PagesAre DEF Changed, Invalidated, OpsViews, Views
<1>7. CASE p = "school"
  BY <1>1, <1>7, PagesAre DEF Changed, Invalidated, OpsViews, Views
<1>8. CASE p = "students"
  BY <1>1, <1>8, PagesAre DEF Changed, Invalidated, OpsViews, Views
<1>9. CASE p = "rules"
  BY <1>1, <1>9, PagesAre DEF Changed, Invalidated, OpsViews, Views
<1> QED
  BY <1>2, <1>3, <1>4, <1>5, <1>6, <1>7, <1>8, <1>9, PagesAre

-----------------------------------------------------------------------------
(* Removing, replacing and rewriting mutations does not make them more.    *)
LEMMA FewerCalls ==
  ASSUME NEW S, IsFiniteSet(S), NEW n \in Nat, Cardinality(S) <= n, NEW c
  PROVE  IsFiniteSet(S \ {c}) /\ Cardinality(S \ {c}) <= n
<1>1. /\ IsFiniteSet(S \ {c})
      /\ Cardinality(S \ {c}) = IF c \in S THEN Cardinality(S) - 1 ELSE Cardinality(S)
  BY ONLY IsFiniteSet(S), FS_RemoveElement
<1>2. Cardinality(S) \in Nat
  BY ONLY IsFiniteSet(S), FS_CardinalityType
<1> QED
  BY <1>1, <1>2

LEMMA OneMoreCall ==
  ASSUME NEW S, IsFiniteSet(S), NEW n \in Int, Cardinality(S) <= n, NEW d
  PROVE  IsFiniteSet(S \cup {d}) /\ Cardinality(S \cup {d}) <= n + 1
<1>1. /\ IsFiniteSet(S \cup {d})
      /\ Cardinality(S \cup {d}) = IF d \in S THEN Cardinality(S) ELSE Cardinality(S) + 1
  BY ONLY IsFiniteSet(S), FS_AddElement
<1>2. Cardinality(S) \in Nat
  BY ONLY IsFiniteSet(S), FS_CardinalityType
<1> QED
  BY <1>1, <1>2

LEMMA ReplacedCall ==
  ASSUME NEW S, IsFiniteSet(S), NEW n \in Nat, Cardinality(S) <= n, NEW c \in S, NEW d
  PROVE  IsFiniteSet((S \ {c}) \cup {d}) /\ Cardinality((S \ {c}) \cup {d}) <= n
<1>1. IsFiniteSet(S \ {c}) /\ Cardinality(S \ {c}) = Cardinality(S) - 1
  BY FS_RemoveElement
<1>2. Cardinality(S) \in Nat
  BY ONLY IsFiniteSet(S), FS_CardinalityType
<1>3. PICK k \in Int : k = n - 1
  OBVIOUS
<1>4. Cardinality(S \ {c}) <= k
  BY <1>1, <1>2, <1>3
<1>5. IsFiniteSet(S \ {c})
  BY <1>1
<1>6. IsFiniteSet((S \ {c}) \cup {d}) /\ Cardinality((S \ {c}) \cup {d}) <= k + 1
  BY ONLY k \in Int, <1>4, <1>5, OneMoreCall
<1> QED
  BY <1>3, <1>6

(* A refused, performed or rejected mutation is the same one in another    *)
(* stage.                                                                  *)
LEMMA BecomesKeeps ==
  ASSUME CallsInv, spent.writes \in Nat, spent'.writes = spent.writes, NEW c \in calls,
         NEW stage \in {"done", "failed", "refused"}, Becomes(c, stage)
  PROVE  CallsInv'
<1> DEFINE d == [c EXCEPT !.stage = stage]
<1>1. c \in Request /\ Offered(c)
  BY DEF CallsInv
<1>2. d \in Request /\ d.mutation = c.mutation /\ d.from = c.from
  BY <1>1 DEF Request
<1>3. Offered(d)
  BY <1>1, <1>2 DEF Offered
<1>4. calls' = (calls \ {c}) \cup {d}
  BY DEF Becomes
<1> HIDE DEF d
<1>5. IsFiniteSet(calls') /\ Cardinality(calls') <= spent.writes
  BY <1>4, ReplacedCall DEF CallsInv
<1> QED
  BY <1>2, <1>3, <1>4, <1>5 DEF CallsInv, Offered

LEMMA EndsKeeps ==
  ASSUME CallsInv, spent.writes \in Nat, spent'.writes = spent.writes,
         \/ calls' = {}
         \/ UNCHANGED calls
         \/ \E c \in calls : calls' = calls \ {c}
  PROVE  CallsInv'
<1>1. CASE calls' = {}
  BY <1>1, FS_EmptySet DEF CallsInv, Offered
<1>2. CASE UNCHANGED calls
  BY <1>2 DEF CallsInv, Offered
<1>3. ASSUME NEW c \in calls, calls' = calls \ {c} PROVE CallsInv'
  <2>1. IsFiniteSet(calls') /\ Cardinality(calls') <= spent.writes
    BY <1>3, FewerCalls DEF CallsInv
  <2> QED
    BY <1>3, <2>1 DEF CallsInv, Offered
<1> QED
  BY <1>1, <1>2, <1>3

(* The end of a token's life does not change what a mutation is.           *)
LEMMA ExpireKeepsCalls ==
  ASSUME CallsInv, TabTyped, Expire PROVE CallsInv'
<1> DEFINE F(c) == [c EXCEPT !.token = Expired(@)]
<1>1. calls' = {F(c) : c \in calls} /\ spent'.writes = spent.writes
  BY DEF Expire, Disturb, TabTyped
<1>2. ASSUME NEW c \in Request
      PROVE F(c) \in Request /\ F(c).mutation = c.mutation /\ F(c).from = c.from
  BY <1>2 DEF Request, Expired, Tokens
<1>3. \A c \in calls : F(c) \in Request /\ (Offered(c) => Offered(F(c)))
  BY <1>2 DEF CallsInv, Offered
<1> HIDE DEF F
<1>4. calls' \subseteq Request /\ \A c \in calls' : Offered(c)
  BY <1>1, <1>3 DEF CallsInv
<1>5. IsFiniteSet(calls') /\ Cardinality(calls') <= Cardinality(calls)
  <2> DEFINE f == [c \in calls |-> F(c)]
  <2>1. f \in Surjection(calls, calls')
    BY <1>1 DEF Surjection
  <2> HIDE DEF f
  <2>2. IsFiniteSet(calls)
    BY DEF CallsInv
  <2> QED
    BY ONLY <2>1, <2>2, FS_Surjection
<1>6. Cardinality(calls') <= spent'.writes
  <2>1. Cardinality(calls) \in Nat /\ Cardinality(calls') \in Nat /\ spent.writes \in Nat
    BY <1>5, FS_CardinalityType DEF CallsInv, TabTyped
  <2> QED
    BY <1>1, <1>5, <2>1 DEF CallsInv
<1> QED
  BY <1>4, <1>5, <1>6 DEF CallsInv, Offered

LEMMA SendKeepsCalls ==
  ASSUME CallsInv, TabTyped, NEW m \in Mutations, Send(m) PROVE CallsInv'
<1> DEFINE d == [mutation |-> m, from |-> page, token |-> store, stage |-> "sent"]
<1>1. d \in Request /\ Offered(d)
  BY DEF Send, TabTyped, Request, Offered
<1>2. calls' = calls \cup {d} /\ spent'.writes = spent.writes + 1 /\ spent.writes \in Nat
  BY DEF Send, TabTyped
<1> HIDE DEF d
<1>3. IsFiniteSet(calls') /\ Cardinality(calls') <= spent'.writes
  <2>1. PICK n \in Int : n = spent.writes
    BY <1>2
  <2>2. IsFiniteSet(calls) /\ Cardinality(calls) <= n
    BY <2>1 DEF CallsInv
  <2>3. IsFiniteSet(calls \cup {d}) /\ Cardinality(calls \cup {d}) <= n + 1
    BY ONLY n \in Int, <2>2, OneMoreCall
  <2> QED
    BY <1>2, <2>1, <2>3
<1> QED
  BY <1>1, <1>2, <1>3 DEF CallsInv, Offered
-----------------------------------------------------------------------------
(* Opening a page leaves no own write behind in the cache or on the way.   *)
LEMMA EnterForgets ==
  ASSUME TabTyped, NEW p \in Pages, NEW t \in Tokens, Enter(p, t)
  PROVE  /\ page' = p
         /\ cache' \in (Answers \ {"mine"}) \cup {"none", "error"}
         /\ fetch' \in [stage : {"idle", "sent", "refused"} \cup (Answers \ {"mine"}),
                        token : Tokens]
         /\ fetch'.stage # "sent" => fetch'.token = "none"
BY DEF Enter, TabTyped, Forgotten, Disowned, Sent, Answers, Tokens

(* Starting again and a change of the server's state keep the types.       *)
LEMMA ReloadTyped ==
  ASSUME TabTyped, Reload, view' = view, store' \in Tokens, spent' = spent
  PROVE  TabTyped' /\ calls' = {} /\ ~Mounted'
BY DEF Reload, TabTyped, Idle, Mounted, Tokens

LEMMA ChangeTyped ==
  ASSUME TabTyped, NEW own \in BOOLEAN, Change(own)
  PROVE  /\ cache' \in Answers \cup {"none", "error"}
         /\ fetch' \in [stage : {"idle", "sent", "refused"} \cup Answers, token : Tokens]
         /\ fetch'.stage # "sent" => fetch'.token = "none"
         /\ fetch'.stage = "idle" <=> fetch.stage = "idle"
         /\ ~own => /\ cache' = "mine" <=> cache = "mine"
                    /\ fetch'.stage = "mine" <=> fetch.stage = "mine"
BY DEF Change, Miss, TabTyped, Answers

LEMMA DisturbTyped ==
  ASSUME TabTyped, ConsoleConstants, Disturb
  PROVE  /\ spent' \in [writes : 0..MaxWrites, disturbances : 0..MaxDisturbances]
         /\ spent'.writes = spent.writes
BY DEF TabTyped, Disturb, ConsoleConstants
-----------------------------------------------------------------------------
(* The session: signing in and out, here and elsewhere, and the pages.     *)
LEMMA SessionSteps ==
  ASSUME ConsoleIInv, ConsoleConstants,
         \/ Login \/ Logout \/ Elsewhere \/ Sync \/ Expire \/ BadgeRefused
         \/ \E p \in Pages : Navigate(p)
  PROVE  ConsoleIInv'
<1> USE DEF ConsoleIInv
<1>1. spent.writes \in Nat
  BY DEF TabTyped
<1>2. CASE Login
  <2>1. Enter("dashboard", "alive") /\ "dashboard" \in Pages /\ "alive" \in Tokens
    BY <1>2, PagesAre DEF Login, Tokens
  <2>2. TabTyped' /\ OwnWritesInv'
    BY <1>2, <2>1, EnterForgets DEF Login, TabTyped, OwnWritesInv, Tokens
  <2> QED
    BY <1>1, <1>2, <2>2, EndsKeeps DEF Login
<1>3. CASE Logout \/ BadgeRefused
  <2>1. TabTyped' /\ calls' = {} /\ ~Mounted' /\ spent' = spent
    BY <1>3, ReloadTyped DEF Logout, BadgeRefused, Unauthorized, Tokens
  <2> QED
    BY <1>1, <2>1, EndsKeeps DEF OwnWritesInv
<1>4. CASE Elsewhere
  <2>1. TabTyped' /\ OwnWritesInv'
    BY <1>4 DEF Elsewhere, tab, TabTyped, OwnWritesInv, Mounted, Awaited, Tokens
  <2> QED
    BY <1>1, <1>4, <2>1, EndsKeeps DEF Elsewhere, tab
<1>5. CASE Sync
  <2>1. UNCHANGED <<view, store, stale, calls, spent>> /\ known' = (store # "none")
    BY <1>5 DEF Sync
  <2>2. CallsInv'
    BY <1>1, <2>1, EndsKeeps
  <2>3. ASSUME ~known' /\ known /\ page' = "login" /\ UNCHANGED <<cache, fetch>>
        PROVE  TabTyped' /\ OwnWritesInv'
    BY <2>1, <2>3 DEF TabTyped, OwnWritesInv, Mounted
  <2>4. ASSUME known' /\ ~known /\ Enter("dashboard", store)
        PROVE  TabTyped' /\ OwnWritesInv'
    <3>1. "dashboard" \in Pages /\ store \in Tokens
      BY PagesAre DEF TabTyped
    <3> QED
      BY <2>1, <2>4, <3>1, EnterForgets, PagesAre DEF TabTyped, OwnWritesInv
  <2> QED
    BY <1>5, <2>2, <2>3, <2>4 DEF Sync
<1>6. CASE Expire
  <2>1. UNCHANGED <<view, known, page, cache, stale>> /\ store' \in Tokens
    BY <1>6 DEF Expire, Expired, Tokens
  <2>2. /\ fetch' \in [stage : {"idle", "sent", "refused"} \cup Answers, token : Tokens]
        /\ fetch'.stage = fetch.stage
        /\ fetch'.stage # "sent" => fetch'.token = "none"
    BY <1>6 DEF Expire, Expired, TabTyped, Tokens
  <2>3. TabTyped'
    BY <1>6, <2>1, <2>2, DisturbTyped DEF TabTyped, Expire
  <2>4. ASSUME NEW c \in calls, Awaited(c) PROVE \E d \in calls' : Awaited(d)'
    <3> DEFINE d == [c EXCEPT !.token = Expired(@)]
    <3>1. d \in calls'
      BY <1>6 DEF Expire
    <3>2. d.stage = c.stage /\ d.from = c.from /\ d.mutation = c.mutation
      BY DEF CallsInv, Request
    <3> HIDE DEF d
    <3> QED
      BY <2>1, <2>4, <3>1, <3>2 DEF Awaited
  <2>5. OwnWritesInv'
    BY <2>1, <2>2, <2>4 DEF OwnWritesInv, Mounted
  <2> QED
    BY <1>6, <2>3, <2>5, ExpireKeepsCalls
<1>7. ASSUME NEW p \in Pages, Navigate(p) PROVE ConsoleIInv'
  <2>1. Enter(p, store) /\ UNCHANGED <<view, store, known, stale, calls, spent>>
        /\ store \in Tokens /\ known
    BY <1>7 DEF Navigate, TabTyped
  <2>2. TabTyped' /\ OwnWritesInv'
    BY <2>1, EnterForgets, PagesAre DEF TabTyped, OwnWritesInv
  <2> QED
    BY <1>1, <2>1, <2>2, EndsKeeps
<1> QED
  BY <1>2, <1>3, <1>4, <1>5, <1>6, <1>7

(* Requests for the query: a poll, its answer, a refusal, a lost one.      *)
LEMMA FetchSteps ==
  ASSUME ConsoleIInv, ConsoleConstants, Poll \/ Answer \/ FetchFails \/ OthersWrite
  PROVE  ConsoleIInv'
<1> USE DEF ConsoleIInv
<1>1. spent.writes \in Nat
  BY DEF TabTyped
<1>2. CASE Poll
  <2>1. TabTyped' /\ OwnWritesInv'
    BY <1>2 DEF Poll, TabTyped, OwnWritesInv, Sent, Idle
  <2> QED
    BY <1>1, <1>2, <2>1, EndsKeeps DEF Poll
<1>3. CASE Serve
  <2>1. TabTyped' /\ OwnWritesInv'
    BY <1>3 DEF Serve, TabTyped, OwnWritesInv, Idle, Answers, Tokens
  <2> QED
    BY <1>1, <1>3, <2>1, EndsKeeps DEF Serve
<1>4. CASE Deliver
  <2>1. TabTyped' /\ OwnWritesInv'
    BY <1>4 DEF Deliver, TabTyped, OwnWritesInv, Mounted, Awaited, Idle, Answers, Tokens
  <2> QED
    BY <1>1, <1>4, <2>1, EndsKeeps DEF Deliver
<1>5. CASE FetchRefused
  <2>1. UNCHANGED <<view, spent>>
    BY <1>5 DEF FetchRefused
  <2>2. CASE page # "login"
    <3>1. TabTyped' /\ calls' = {} /\ ~Mounted'
      BY <1>5, <2>1, <2>2, ReloadTyped DEF FetchRefused, Unauthorized, Tokens
    <3> QED
      BY <1>1, <2>1, <3>1, EndsKeeps DEF OwnWritesInv
  <2>3. CASE page = "login"
    <3>1. /\ store' = "none" /\ known' = FALSE /\ cache' = "error" /\ fetch' = Idle
          /\ UNCHANGED <<page, stale, calls>>
      BY <1>5, <2>3 DEF FetchRefused
    <3>2. TabTyped' /\ OwnWritesInv'
      BY <2>1, <2>3, <3>1 DEF TabTyped, OwnWritesInv, Mounted, Idle, Tokens
    <3> QED
      BY <1>1, <2>1, <3>1, <3>2, EndsKeeps
  <2> QED
    BY <2>2, <2>3
<1>6. CASE FetchFails
  <2>1. TabTyped' /\ OwnWritesInv' /\ spent'.writes = spent.writes
    BY <1>6, DisturbTyped DEF FetchFails, TabTyped, OwnWritesInv, Mounted, Idle, Answers, Tokens
  <2> QED
    BY <1>1, <1>6, <2>1, EndsKeeps DEF FetchFails
<1>7. CASE OthersWrite
  <2>1. Change(FALSE) /\ Disturb /\ UNCHANGED <<view, store, known, page, stale, calls>>
    BY <1>7 DEF OthersWrite
  <2>2. TabTyped' /\ spent'.writes = spent.writes
    BY <2>1, ChangeTyped, DisturbTyped DEF TabTyped
  <2>3. OwnWritesInv'
    BY <2>1, ChangeTyped DEF OwnWritesInv, Mounted, Awaited
  <2> QED
    BY <1>1, <2>1, <2>2, <2>3, EndsKeeps
<1> QED
  BY <1>2, <1>3, <1>4, <1>5, <1>6, <1>7 DEF Answer
(* A mutation that ends or changes is not one that another's callback is   *)
(* awaited for.                                                            *)
LEMMA OthersAwaited ==
  ASSUME UNCHANGED <<view, page>>, NEW c \in calls, ~Awaited(c), calls \ {c} \subseteq calls',
         \E e \in calls : Awaited(e)
  PROVE  \E e \in calls' : Awaited(e)'
BY DEF Awaited

(* Mutations: sent, refused by the server, performed, and their callbacks. *)
LEMMA MutationSteps ==
  ASSUME ConsoleIInv, ConsoleConstants,
         \/ \E m \in Mutations : Send(m)
         \/ \E c \in calls :
               Reject(c) \/ Perform(c) \/ CallDone(c) \/ CallFailed(c) \/ CallRefused(c)
  PROVE  ConsoleIInv'
<1> USE DEF ConsoleIInv
<1>1. spent.writes \in Nat
  BY DEF TabTyped
<1>2. ASSUME NEW m \in Mutations, Send(m) PROVE ConsoleIInv'
  <2>1. CallsInv'
    BY <1>2, SendKeepsCalls
  <2>2. TabTyped'
    BY <1>2 DEF Send, TabTyped, ConsoleConstants
  <2>3. OwnWritesInv'
    BY <1>2 DEF Send, OwnWritesInv, Mounted, Awaited
  <2> QED
    BY <2>1, <2>2, <2>3
<1>3. ASSUME NEW c \in calls, Reject(c) PROVE ConsoleIInv'
  <2>1. PICK stage \in {"done", "failed", "refused"} : Becomes(c, stage)
    BY <1>3 DEF Reject
  <2>2. UNCHANGED <<view, store, known, page, cache, fetch, stale, spent>> /\ ~Awaited(c)
    BY <1>3 DEF Reject, Awaited
  <2>3. CallsInv' /\ TabTyped'
    BY <1>1, <2>1, <2>2, BecomesKeeps DEF TabTyped
  <2>4. calls \ {c} \subseteq calls'
    BY <2>1 DEF Becomes
  <2> QED
    BY <2>2, <2>3, <2>4, OthersAwaited DEF OwnWritesInv, Mounted
<1>4. ASSUME NEW c \in calls, Perform(c) PROVE ConsoleIInv'
  <2>1. PICK stage \in {"done", "failed"} : Becomes(c, stage)
    BY <1>4 DEF Perform
  <2>2. UNCHANGED <<view, store, known, page, stale>> /\ ~Awaited(c)
    BY <1>4 DEF Perform, Awaited
  <2>3. /\ spent' \in [writes : 0..MaxWrites, disturbances : 0..MaxDisturbances]
        /\ spent'.writes = spent.writes
    BY <1>4, DisturbTyped DEF Perform, TabTyped
  <2>4. CallsInv'
    BY <1>1, <2>1, <2>3, BecomesKeeps
  <2>5. calls \ {c} \subseteq calls' /\ [c EXCEPT !.stage = stage] \in calls'
    BY <2>1 DEF Becomes
  <2>6. CASE view \notin Changed[c.mutation]
    <3>1. UNCHANGED <<cache, fetch>>
      BY <1>4, <2>6 DEF Perform
    <3>2. TabTyped'
      BY <2>2, <2>3, <3>1 DEF TabTyped
    <3> QED
      BY <2>2, <2>4, <2>5, <3>1, <3>2, OthersAwaited DEF OwnWritesInv, Mounted
  <2>7. CASE view \in Changed[c.mutation]
    <3>1. Change(page = c.from)
      BY <1>4, <2>7 DEF Perform
    <3>2. TabTyped'
      BY <2>2, <2>3, <3>1, ChangeTyped DEF TabTyped
    <3>3. CASE page = c.from
      <4> DEFINE d == [c EXCEPT !.stage = stage]
      <4>1. d.stage = stage /\ d.from = c.from /\ d.mutation = c.mutation
        BY DEF CallsInv, Request
      <4>2. d \in calls'
        BY <2>5
      <4> HIDE DEF d
      <4>3. Awaited(d)'
        BY <2>2, <2>7, <3>3, <4>1 DEF Awaited
      <4> QED
        BY <2>4, <3>2, <4>2, <4>3 DEF OwnWritesInv
    <3>4. CASE page # c.from
      <4>1. /\ cache' = "mine" <=> cache = "mine"
            /\ fetch'.stage = "mine" <=> fetch.stage = "mine"
            /\ fetch'.stage = "idle" <=> fetch.stage = "idle"
        BY <3>1, <3>4, ChangeTyped
      <4> QED
        BY <2>2, <2>4, <2>5, <3>2, <4>1, OthersAwaited DEF OwnWritesInv, Mounted
    <3> QED
      BY <3>3, <3>4
  <2> QED
    BY <2>6, <2>7
<1>5. ASSUME NEW c \in calls, CallDone(c) PROVE ConsoleIInv'
  <2>1. calls' = calls \ {c} /\ UNCHANGED <<view, store, known, page, cache, spent>>
    BY <1>5 DEF CallDone
  <2>2. CallsInv'
    BY <1>1, <2>1, EndsKeeps
  <2>3. /\ fetch' = fetch \/ fetch' = Sent(store)
        /\ stale' \in BOOLEAN
    BY <1>5 DEF CallDone, Refresh, TabTyped
  <2>4. TabTyped'
    BY <2>1, <2>3 DEF TabTyped, Sent
  <2>5. CASE view \in Invalidated[c.mutation]
    <3>1. ~Mounted \/ fetch' = Sent(store)
      BY <1>5, <2>5 DEF CallDone, Refresh
    <3> QED
      BY <2>1, <2>2, <2>4, <3>1 DEF OwnWritesInv, Mounted, Sent
  <2>6. CASE view \notin Invalidated[c.mutation]
    <3>1. UNCHANGED fetch
      BY <1>5, <2>6 DEF CallDone
    <3>2. ASSUME Mounted PROVE ~Awaited(c)
      <4>1. c.from \in Pages /\ c.mutation \in Content[c.from].offers
        BY DEF CallsInv, Request, Offered
      <4>2. Shown[c.from] \cap Changed[c.mutation] \subseteq Invalidated[c.mutation]
        BY <4>1, RefreshesItsPage
      <4> QED
        BY <2>6, <3>2, <4>2 DEF Awaited, Mounted
    <3> QED
      BY <2>1, <2>2, <2>4, <3>1, <3>2, OthersAwaited DEF OwnWritesInv, Mounted
  <2> QED
    BY <2>5, <2>6
<1>6. ASSUME NEW c \in calls, CallFailed(c) PROVE ConsoleIInv'
  <2>1. calls' = calls \ {c} /\ UNCHANGED <<view, store, known, page, stale, spent>>
    BY <1>6 DEF CallFailed
  <2>2. CallsInv'
    BY <1>1, <2>1, EndsKeeps
  <2>3. TabTyped' /\ OwnWritesInv'
    BY <1>6, <2>1 DEF CallFailed, Forgotten, Disowned, TabTyped, OwnWritesInv, Answers
  <2> QED
    BY <2>2, <2>3
<1>7. ASSUME NEW c \in calls, CallRefused(c) PROVE ConsoleIInv'
  <2>1. UNCHANGED <<view, spent>>
    BY <1>7 DEF CallRefused
  <2>2. CASE page # "login"
    <3>1. TabTyped' /\ calls' = {} /\ ~Mounted'
      BY <1>7, <2>1, <2>2, ReloadTyped DEF CallRefused, Unauthorized, Tokens
    <3> QED
      BY <1>1, <2>1, <3>1, EndsKeeps DEF OwnWritesInv
  <2>3. CASE page = "login"
    <3>1. /\ store' = "none" /\ known' = FALSE /\ calls' = calls \ {c}
          /\ UNCHANGED <<page, cache, fetch, stale>>
      BY <1>7, <2>3 DEF CallRefused
    <3>2. TabTyped' /\ OwnWritesInv'
      BY <2>1, <2>3, <3>1 DEF TabTyped, OwnWritesInv, Mounted, Tokens
    <3> QED
      BY <1>1, <2>1, <3>1, <3>2, EndsKeeps
  <2> QED
    BY <2>2, <2>3
<1> QED
  BY <1>2, <1>3, <1>4, <1>5, <1>6, <1>7

LEMMA ConsoleInitially ==
  ASSUME ConsoleInit, ConsoleConstants PROVE ConsoleIInv
<1>1. IsFiniteSet({}) /\ Cardinality({}) = 0
  BY FS_EmptySet
<1>2. /\ fetch \in [stage : {"idle", "sent", "refused"} \cup Answers, token : Tokens]
      /\ fetch.token = "none"
  BY DEF ConsoleInit, Idle, Tokens
<1>3. spent \in [writes : 0..MaxWrites, disturbances : 0..MaxDisturbances]
  BY DEF ConsoleInit, ConsoleConstants
<1>4. TabTyped
  BY <1>2, <1>3 DEF ConsoleInit, TabTyped, Tokens
<1>5. CallsInv
  BY <1>1 DEF ConsoleInit, CallsInv
<1> QED
  BY <1>4, <1>5 DEF ConsoleInit, ConsoleIInv, OwnWritesInv, Mounted

-----------------------------------------------------------------------------
(* Every step keeps what the tab knows, what is on the way, and that an    *)
(* answer without the page's own write has a callback to come.             *)
THEOREM ConsoleInvariance == ConsoleSpec => []ConsoleIInv
<1>1. ConsoleInit => ConsoleIInv
  BY ConsoleInitially, ConsoleConstants
<1>2. ConsoleIInv /\ [ConsoleNext]_consoleVars => ConsoleIInv'
  <2> SUFFICES ASSUME ConsoleIInv, [ConsoleNext]_consoleVars PROVE ConsoleIInv'
    OBVIOUS
  <2>1. CASE UNCHANGED consoleVars
    BY <2>1 DEF consoleVars, ConsoleIInv, TabTyped, CallsInv, OwnWritesInv, Mounted, Awaited,
                Offered
  <2>2. CASE ConsoleNext
    BY <2>2, SessionSteps, FetchSteps, MutationSteps, ConsoleConstants DEF ConsoleNext
  <2> QED
    BY <2>1, <2>2
<1> QED
  BY <1>1, <1>2, PTL DEF ConsoleSpec

(* A tab of the console is type correct, and has no more mutations on the  *)
(* way than were sent.                                                     *)
THEOREM ConsoleTypeCorrect == ConsoleSpec => []ConsoleTypeOK
<1>1. ConsoleIInv => ConsoleTypeOK
  BY DEF ConsoleIInv, TabTyped, CallsInv, Request, ConsoleTypeOK
<1> QED
  BY <1>1, ConsoleInvariance, PTL

(* Whatever polls, other tabs, other writers, lost requests and expiring   *)
(* tokens do between a decision and its answer, a page that its operator   *)
(* stays on does not settle on what it showed before (hooks.ts).           *)
THEOREM ReadYourWritesAlways == ConsoleSpec => []ReadYourWrites
<1>1. ConsoleIInv => ReadYourWrites
  BY DEF ConsoleIInv, OwnWritesInv, Awaited, ReadYourWrites, Idle
<1> QED
  BY <1>1, ConsoleInvariance, PTL

=============================================================================
