------------------------------ MODULE TokenLease ------------------------------
(***************************************************************************)
(* The token manager of packages/nomba: the callers of getAccessToken in   *)
(* several processes share one token in Redis.  Within a process they      *)
(* queue at a mutex; between processes the first one holds a Redis lease   *)
(* (SET NX PX) while it refreshes, and the others poll for its token.      *)
(*                                                                         *)
(* Tokens are numbered in the order in which Nomba issues them; 0 is none. *)
(* A token is fresh until five minutes before it expires.                  *)
(***************************************************************************)
EXTENDS Naturals

CONSTANTS
    Processes,          \* api and worker replicas
    Callers,            \* concurrent calls of getAccessToken
    Home,               \* the process of each call
    Nobody,
    MaxAges,            \* bound: tokens that come near their expiry
    MaxErrors,          \* bound: failed calls to Nomba
    MaxLapses           \* bound: waits given up, leases expired, crashes

ASSUME NobodyAssumption == Nobody \notin Callers
ASSUME HomeAssumption == Home \in [Callers -> Processes]
ASSUME TokenBounds == {MaxAges, MaxErrors, MaxLapses} \subseteq Nat

VARIABLES
    token,              \* Redis: the cached token
    lease,              \* Redis: the caller whose SET NX succeeded
    issued,             \* Nomba: how many tokens it has issued
    aged,               \* tokens up to this one are near their expiry
    mutex,              \* the caller inside runExclusive, by process
    pc,                 \* where each call is
    seen,               \* the call has read a token that it can refresh
    got,                \* the token Nomba gave to a call
    holds,              \* holdsLease
    unleased,           \* history: calls that refresh without a lease
    dirty,              \* history: one of them has written
    errors, lapses      \* how much of the bounds is spent

redisVars == <<token, lease>>
nombaVars == <<issued, aged>>
callVars == <<seen, got, holds>>
historyVars == <<unleased, dirty>>
boundVars == <<errors, lapses>>
vars == <<redisVars, nombaVars, mutex, pc, callVars, historyVars, boundVars>>

Init ==
    /\ token = 0
    /\ lease = Nobody
    /\ issued = 0
    /\ aged = 0
    /\ mutex = [p \in Processes |-> Nobody]
    /\ pc = [c \in Callers |-> "idle"]
    /\ seen = [c \in Callers |-> FALSE]
    /\ got = [c \in Callers |-> 0]
    /\ holds = [c \in Callers |-> FALSE]
    /\ unleased = {}
    /\ dirty = FALSE
    /\ errors = 0
    /\ lapses = 0

Fresh(t) == t > aged

(* Time passes: the oldest fresh token comes near its expiry.              *)
Age ==
    /\ aged < MaxAges
    /\ aged < issued
    /\ aged' = aged + 1
    /\ UNCHANGED <<redisVars, issued, mutex, pc, callVars, historyVars, boundVars>>

-----------------------------------------------------------------------------
(* getAccessToken.                                                         *)

(* The call is over: runExclusive lets the next caller in.                 *)
Leave(c) ==
    /\ mutex' = [mutex EXCEPT ![Home[c]] = Nobody]
    /\ pc' = [pc EXCEPT ![c] = "idle"]
    /\ seen' = [seen EXCEPT ![c] = FALSE]
    /\ got' = [got EXCEPT ![c] = 0]
    /\ holds' = [holds EXCEPT ![c] = FALSE]

(* A fresh token in the cache is returned at once.                         *)
ReadCache(c) ==
    /\ pc[c] = "idle"
    /\ ~Fresh(token)
    /\ seen' = [seen EXCEPT ![c] = token # 0]
    /\ pc' = [pc EXCEPT ![c] = "queued"]
    /\ UNCHANGED <<redisVars, nombaVars, mutex, got, holds, historyVars, boundVars>>

EnterMutex(c) ==
    /\ pc[c] = "queued"
    /\ mutex[Home[c]] = Nobody
    /\ mutex' = [mutex EXCEPT ![Home[c]] = c]
    /\ pc' = [pc EXCEPT ![c] = "entered"]
    /\ UNCHANGED <<redisVars, nombaVars, callVars, historyVars, boundVars>>

(* Inside the mutex the cache is read again.                               *)
ReadAgain(c) ==
    /\ pc[c] = "entered"
    /\ IF Fresh(token)
         THEN Leave(c)
         ELSE /\ seen' = [seen EXCEPT ![c] = @ \/ token # 0]
              /\ pc' = [pc EXCEPT ![c] = "stale"]
              /\ UNCHANGED <<mutex, got, holds>>
    /\ UNCHANGED <<redisVars, nombaVars, historyVars, boundVars>>

Refresher(c) == IF seen[c] THEN "refresh" ELSE "issue"

(* Mutant: SET without NX.                                                 *)
AcquireLeaseAlways(c) ==
    /\ pc[c] = "stale"
    /\ lease' = c
    /\ holds' = [holds EXCEPT ![c] = TRUE]
    /\ pc' = [pc EXCEPT ![c] = Refresher(c)]
    /\ UNCHANGED <<token, nombaVars, mutex, seen, got, historyVars, boundVars>>

AcquireLease(c) ==
    /\ pc[c] = "stale"
    /\ IF lease = Nobody
         THEN /\ lease' = c
              /\ holds' = [holds EXCEPT ![c] = TRUE]
              /\ pc' = [pc EXCEPT ![c] = Refresher(c)]
         ELSE /\ pc' = [pc EXCEPT ![c] = "waiting"]
              /\ UNCHANGED <<lease, holds>>
    /\ UNCHANGED <<token, nombaVars, mutex, seen, got, historyVars, boundVars>>

(* waitForPeerRefresh: the holder has published a fresh token ...          *)
PeerRefreshed(c) ==
    /\ pc[c] = "waiting"
    /\ Fresh(token)
    /\ Leave(c)
    /\ UNCHANGED <<redisVars, nombaVars, historyVars, boundVars>>

(* Mutant: the wait has no end.                                            *)
GiveUpNever(c) ==
    /\ pc[c] = "waiting"
    /\ UNCHANGED vars

(* ... or has not after twenty polls: refresh without a lease.             *)
GiveUp(c) ==
    /\ pc[c] = "waiting"
    /\ pc' = [pc EXCEPT ![c] = Refresher(c)]
    /\ unleased' = unleased \cup {c}
    /\ UNCHANGED <<redisVars, nombaVars, mutex, callVars, dirty, boundVars>>

(* Mutant: the lease is deleted before the token is written.               *)
ObtainAndRelease(c) ==
    /\ pc[c] \in {"refresh", "issue"}
    /\ issued' = issued + 1
    /\ got' = [got EXCEPT ![c] = issued + 1]
    /\ pc' = [pc EXCEPT ![c] = "write"]
    /\ lease' = IF holds[c] THEN Nobody ELSE lease
    /\ UNCHANGED <<token, aged, mutex, seen, holds, historyVars, boundVars>>

(* Nomba answers with a new token.                                         *)
Obtain(c) ==
    /\ pc[c] \in {"refresh", "issue"}
    /\ issued' = issued + 1
    /\ got' = [got EXCEPT ![c] = issued + 1]
    /\ pc' = [pc EXCEPT ![c] = "write"]
    /\ UNCHANGED <<redisVars, aged, mutex, seen, holds, historyVars, boundVars>>

(* A failed refresh falls back to issue, a failed issue is thrown.         *)
AuthFails(c) ==
    /\ errors < MaxErrors
    /\ pc[c] \in {"refresh", "issue"}
    /\ pc' = [pc EXCEPT ![c] = IF @ = "refresh" THEN "issue" ELSE "finally"]
    /\ errors' = errors + 1
    /\ UNCHANGED <<redisVars, nombaVars, mutex, callVars, historyVars, lapses>>

Write(c) ==
    /\ pc[c] = "write"
    /\ token' = got[c]
    /\ pc' = [pc EXCEPT ![c] = "finally"]
    /\ dirty' = (dirty \/ c \in unleased)
    /\ UNCHANGED <<lease, nombaVars, mutex, callVars, unleased, boundVars>>

Held == lease # Nobody /\ holds[lease]

(* Mutant: the call ends without releasing its process's mutex.            *)
ReleaseLeaseOnly(c) ==
    /\ pc[c] = "finally"
    /\ lease' = IF holds[c] THEN Nobody ELSE lease
    /\ pc' = [pc EXCEPT ![c] = "idle"]
    /\ unleased' = unleased \ {c}
    /\ UNCHANGED <<token, nombaVars, mutex, callVars, dirty, boundVars>>

(* finally: whoever acquired a lease deletes the key, even when the lease  *)
(* has expired since and the key is another caller's.                      *)
Release(c) ==
    /\ pc[c] = "finally"
    /\ lease' = IF holds[c] THEN Nobody ELSE lease
    /\ unleased' = (unleased \cup IF holds[c] /\ Held THEN {lease} ELSE {}) \ {c}
    /\ Leave(c)
    /\ UNCHANGED <<token, nombaVars, dirty, boundVars>>

-----------------------------------------------------------------------------
(* Mutant: SET NX without PX.                                              *)
OrphanStays ==
    /\ lease # Nobody
    /\ ~Held
    /\ UNCHANGED vars

(* Ten seconds are over: PX removes a dead call's lease ...                *)
OrphanExpires ==
    /\ lease # Nobody
    /\ ~Held
    /\ lease' = Nobody
    /\ UNCHANGED <<token, nombaVars, mutex, pc, callVars, historyVars, boundVars>>

(* ... and that of a call which is still waiting for Nomba.                *)
LeaseLapses ==
    /\ lapses < MaxLapses
    /\ Held
    /\ lease' = Nobody
    /\ unleased' = unleased \cup {lease}
    /\ lapses' = lapses + 1
    /\ UNCHANGED <<token, nombaVars, mutex, pc, callVars, dirty, errors>>

Crash(p) ==
    LET dead == {c \in Callers : Home[c] = p} IN
    /\ lapses < MaxLapses
    /\ \E c \in dead : pc[c] # "idle"
    /\ mutex' = [mutex EXCEPT ![p] = Nobody]
    /\ pc' = [c \in Callers |-> IF c \in dead THEN "idle" ELSE pc[c]]
    /\ seen' = [c \in Callers |-> IF c \in dead THEN FALSE ELSE seen[c]]
    /\ got' = [c \in Callers |-> IF c \in dead THEN 0 ELSE got[c]]
    /\ holds' = [c \in Callers |-> IF c \in dead THEN FALSE ELSE holds[c]]
    /\ unleased' = unleased \ dead
    /\ lapses' = lapses + 1
    /\ UNCHANGED <<redisVars, nombaVars, dirty, errors>>

-----------------------------------------------------------------------------
(* What a call does once it has started, on its own or with an answer.     *)
Proceed(c) ==
    \/ EnterMutex(c)
    \/ ReadAgain(c)
    \/ AcquireLease(c)
    \/ PeerRefreshed(c)
    \/ GiveUp(c)
    \/ Obtain(c)
    \/ Write(c)
    \/ Release(c)

Next ==
    \/ \E c \in Callers : ReadCache(c) \/ Proceed(c) \/ AuthFails(c)
    \/ Age
    \/ OrphanExpires
    \/ LeaseLapses
    \/ \E p \in Processes : Crash(p)

Spec == Init /\ [][Next]_vars

(* Calls go on, Nomba answers or the request times out, and Redis expires  *)
(* keys; nobody has to ask for a token.                                    *)
Fairness ==
    /\ \A c \in Callers : WF_vars(Proceed(c) \/ AuthFails(c))
    /\ WF_vars(OrphanExpires)

FairSpec == Spec /\ Fairness

-----------------------------------------------------------------------------
Labels == {"idle", "queued", "entered", "stale", "waiting", "refresh", "issue",
           "write", "finally"}

(* Types of all variables; a call is inside its process's mutex exactly    *)
(* between runExclusive's start and its end.                               *)
TypeOK ==
    /\ token \in Nat
    /\ issued \in Nat
    /\ aged \in Nat
    /\ lease \in Callers \cup {Nobody}
    /\ mutex \in [Processes -> Callers \cup {Nobody}]
    /\ pc \in [Callers -> Labels]
    /\ seen \in [Callers -> BOOLEAN]
    /\ got \in [Callers -> Nat]
    /\ holds \in [Callers -> BOOLEAN]
    /\ unleased \in SUBSET Callers
    /\ dirty \in BOOLEAN
    /\ errors \in Nat
    /\ lapses \in Nat
    /\ \A c \in Callers : mutex[Home[c]] = c <=> pc[c] \notin {"idle", "queued"}

Refreshing(c) == pc[c] \in {"refresh", "issue", "write"}

(* "only ONE instance refreshes at a time" (token.ts): two calls talk to   *)
(* Nomba together only if one of them has given up waiting, or has lost    *)
(* its lease to the clock or to a call that deleted a lease not its own.   *)
SoleRefresher ==
    \A c, d \in Callers :
        Refreshing(c) /\ Refreshing(d) /\ c # d => c \in unleased \/ d \in unleased

(* A refresh never puts an older token over a newer one, which Nomba might *)
(* have invalidated with it ("invalidate each other"), unless a call that  *)
(* had no lease has written.                                               *)
CacheAdvances == [][token' >= token \/ dirty']_vars

(* Every call ends, whatever happens to the call it waits for.             *)
CallsReturn == \A c \in Callers : pc[c] # "idle" ~> pc[c] = "idle"

(* A crashed holder does not keep the lease.                               *)
LeaseRecovers == lease # Nobody ~> lease = Nobody

=============================================================================
