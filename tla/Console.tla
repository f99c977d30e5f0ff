------------------------------ MODULE Console ------------------------------
(***************************************************************************)
(* A tab of the operator console: its session, its cache of answers and    *)
(* the mutations its pages offer.  The other tabs share the stored session *)
(* and change it, as they and the workers change the server's state.       *)
(* Queries do not influence one another, so one of them, view, is followed *)
(* through all pages; its cached answer is abstracted to what it has       *)
(* missed: nothing ("current"), a change of somebody else ("old") or one   *)
(* that this page has asked for itself ("mine").                           *)
(***************************************************************************)
EXTENDS FiniteSets, Integers

CONSTANTS
    MaxWrites,          \* bound: mutations sent
    MaxDisturbances     \* bound: changes by others, requests the network
                        \* loses and ends of a token's life, together

ASSUME ConsoleConstants ==
    {MaxWrites, MaxDisturbances} \subseteq Nat

VARIABLES
    view,       \* the query that is followed
    store,      \* localStorage: kobo.token, kobo.role, kobo.email
    known,      \* useAuth: the tab has seen a session
    page,       \* the page that is open
    cache,      \* the answer to the query
    fetch,      \* the request for it
    stale,      \* invalidated while no component used it
    calls,      \* mutations on the way
    spent       \* what the bounds have been used for

consoleVars == <<view, store, known, page, cache, fetch, stale, calls, spent>>
tab == <<known, page, cache, fetch, stale, calls>>

-----------------------------------------------------------------------------
Views == {"customers", "statement", "kpis", "timeseries", "breakdown", "exceptions",
          "refunds", "defaulters", "rules", "students", "tags"}

(* A part of a page: the queries it uses and the mutations it offers.  That *)
(* a checker alone is offered some of them, the server decides (Reject).   *)
Part(shows, offers) == [shows |-> shows, offers |-> offers]
Together(parts) == Part(UNION {p.shows : p \in parts}, UNION {p.offers : p \in parts})

Sidebar == Part({"exceptions", "refunds"}, {})
ReattributeDialog == Part({"customers"}, {"reattribute"})
ExceptionQueue == Together({Part({"exceptions"}, {"resolve"}), ReattributeDialog})
PendingRefunds == Part({"refunds"}, {"approve"})
DashboardPage ==
    Together({Part({"kpis", "timeseries", "breakdown"}, {}), ExceptionQueue, PendingRefunds})
CustomersPage == Part({"customers"}, {"createCustomer"})
StatementPage == Part({"statement"}, {"createInvoice", "applyCredit"})
RunBillingDialog == Part({}, {"runBilling"})
PromoteDialog == Part({}, {"promoteCohort"})
SchoolCollectionsPage == Together({Part({"defaulters"}, {}), RunBillingDialog, PromoteDialog})
StudentsPage == Part({"students"}, {"onboardRoster"})
FeeDialog == Part({"tags"}, {"createRule"})
DiscountDialog == Part({"tags"}, {"createRule"})
RulesPage == Together({Part({"rules"}, {}), FeeDialog, DiscountDialog})

Content == [dashboard |-> DashboardPage, customers |-> CustomersPage,
            statement |-> StatementPage, exceptions |-> ExceptionQueue,
            refunds |-> PendingRefunds, school |-> SchoolCollectionsPage,
            students |-> StudentsPage, rules |-> RulesPage]

Pages == DOMAIN Content

(* The sidebar is on every page; the login page has no queries.            *)
Shown == [p \in Pages \cup {"login"} |->
            IF p = "login" THEN {} ELSE Together({Sidebar, Content[p]}).shows]

(* The answers a handler changes, of the customer or cohort in question.   *)
Changed == [createCustomer |-> {"customers", "students", "tags"},
            createInvoice |-> {"statement", "customers", "defaulters"},
            applyCredit |-> {"statement", "customers", "defaulters"},
            resolve |-> {"exceptions", "kpis"},
            reattribute |-> {"exceptions", "kpis", "timeseries", "statement"},
            approve |-> {"refunds"},
            onboardRoster |-> {"customers", "students", "tags"},
            createRule |-> {"rules"},
            runBilling |-> {"statement", "customers", "defaulters"},
            promoteCohort |-> {"students", "defaulters", "tags"}]

OpsViews == {"exceptions", "kpis", "timeseries", "breakdown", "customers"}

(* onSuccess of each mutation.                                             *)
Invalidated == [createCustomer |-> {"customers"},
                createInvoice |-> {"statement"},
                applyCredit |-> {"statement", "customers", "kpis"},
                resolve |-> OpsViews,
                reattribute |-> OpsViews,
                approve |-> {"refunds"},
                onboardRoster |-> {"customers", "students"},
                createRule |-> {"rules"},
                runBilling |-> {"defaulters", "customers"},
                promoteCohort |-> Views]

Mutations == DOMAIN Changed

(* Mutant: the queues are asked for only when they are opened.             *)
PolledCardsOnly == {"kpis", "timeseries", "breakdown"}

(* refetchInterval.                                                        *)
Polled == {"kpis", "timeseries", "breakdown", "exceptions", "refunds", "defaulters"}

-----------------------------------------------------------------------------
(* No token, one that jwtVerify accepts, one at the end of its life.       *)
Tokens == {"none", "alive", "expired"}

Idle == [stage |-> "idle", token |-> "none"]
Sent(token) == [stage |-> "sent", token |-> token]
Answers == {"current", "old", "mine"}

Mounted == known /\ view \in Shown[page]

(* Types of the tab, the stored session and the mutations on the way; a tab *)
(* that knows a session has a page open, one that knows none is at the     *)
(* login.                                                                  *)
ConsoleTypeOK ==
    /\ view \in Views
    /\ store \in Tokens
    /\ known \in BOOLEAN
    /\ page \in Pages \cup {"login"}
    /\ known <=> page # "login"
    /\ cache \in Answers \cup {"none", "error"}
    /\ fetch \in [stage : {"idle", "sent", "refused"} \cup Answers, token : Tokens]
    /\ fetch.stage # "sent" => fetch.token = "none"
    /\ stale \in BOOLEAN
    /\ calls \subseteq [mutation : Mutations, from : Pages, token : Tokens,
                        stage : {"sent", "done", "failed", "refused"}]
    /\ Cardinality(calls) <= spent.writes
    /\ spent \in [writes : 0..MaxWrites, disturbances : 0..MaxDisturbances]

ConsoleInit ==
    /\ view \in Views
    /\ store = "none"
    /\ known = FALSE /\ page = "login"
    /\ cache = "none" /\ fetch = Idle /\ stale = FALSE /\ calls = {}
    /\ spent = [writes |-> 0, disturbances |-> 0]

-----------------------------------------------------------------------------
Disturb ==
    /\ spent.disturbances < MaxDisturbances
    /\ spent' = [spent EXCEPT !.disturbances = @ + 1]

(* History: a write is left behind with its page, or was not acknowledged. *)
Forgotten(answer) == IF answer = "mine" THEN "old" ELSE answer
Disowned(request) == [request EXCEPT !.stage = Forgotten(@)]

(* The query's component appears: without an answer, after an error or an  *)
(* invalidation it asks; an answer older than ten seconds is asked for     *)
(* again, a request that is on the way is joined.                          *)
Enter(p, token) ==
    LET mounts == view \in Shown[p] \ Shown[page] /\ fetch = Idle
        must == cache \in {"none", "error"} \/ stale
    IN /\ page' = p
       /\ cache' = Forgotten(cache)
       /\ \/ mounts /\ fetch' = Sent(token)
          \/ ~(mounts /\ must) /\ fetch' = Disowned(fetch)

(* window.location.href: the tab starts again, with an empty cache.        *)
Reload ==
    /\ known' = FALSE /\ page' = "login"
    /\ cache' = "none" /\ fetch' = Idle /\ stale' = FALSE /\ calls' = {}

(* Mutant: the expired session stays in localStorage.                      *)
UnauthorizedKeepsSession == Reload /\ UNCHANGED store

(* An answer of 401: whatever session is stored by now is removed.         *)
Unauthorized == store' = "none" /\ Reload

-----------------------------------------------------------------------------
(* The login form; a wrong password leaves everything as it was.           *)
Login ==
    /\ page = "login" /\ ~known
    /\ store' = "alive"
    /\ known' = TRUE
    /\ Enter("dashboard", "alive")
    /\ UNCHANGED <<view, stale, calls, spent>>

Logout ==
    /\ known
    /\ store' = "none"
    /\ Reload
    /\ UNCHANGED <<view, spent>>

(* Another tab signs in or out, or was refused.                            *)
Elsewhere ==
    /\ store' \in {"none", "alive"}
    /\ UNCHANGED <<view, tab, spent>>

(* The storage event of another tab's change.  Without a session the guard *)
(* of AppShell goes to the login page, with one the login page goes to the *)
(* dashboard; the cache is kept.                                           *)
Sync ==
    /\ known' = (store # "none")
    /\ \/ ~known' /\ known /\ page' = "login" /\ UNCHANGED <<cache, fetch>>
       \/ known' /\ ~known /\ Enter("dashboard", store)
    /\ UNCHANGED <<view, store, stale, calls, spent>>

(* Pages and mutations that have nothing to do with the query are left     *)
(* out, but for one page.                                                  *)
Concerns(m) == view \in Changed[m] \cup Invalidated[m]

Navigate(p) ==
    /\ known /\ p # page
    /\ view \in Shown[p] \/ p = "refunds" \/ \E m \in Content[p].offers : Concerns(m)
    /\ Enter(p, store)
    /\ UNCHANGED <<view, store, known, stale, calls, spent>>

(* JWT_TTL is over.                                                        *)
Expired(token) == IF token = "none" THEN "none" ELSE "expired"

Expire ==
    /\ Disturb
    /\ store' = Expired(store)
    /\ fetch' = [fetch EXCEPT !.token = Expired(@)]
    /\ calls' = {[c EXCEPT !.token = Expired(@)] : c \in calls}
    /\ UNCHANGED <<view, known, page, cache, stale>>

-----------------------------------------------------------------------------
Poll ==
    /\ Mounted /\ view \in Polled /\ fetch = Idle
    /\ fetch' = Sent(store)
    /\ UNCHANGED <<view, store, known, page, cache, stale, calls, spent>>

(* The API answers a GET.                                                  *)
Serve ==
    /\ fetch.stage = "sent"
    /\ fetch' = [Idle EXCEPT !.stage = IF fetch.token = "alive" THEN "current" ELSE "refused"]
    /\ UNCHANGED <<view, store, known, page, cache, stale, calls, spent>>

(* A successful answer also ends an invalidation that came while nobody    *)
(* used the query, although the answer may be from before it.              *)
Deliver ==
    /\ fetch.stage \in Answers
    /\ cache' = fetch.stage
    /\ fetch' = Idle
    /\ stale' = FALSE
    /\ UNCHANGED <<view, store, known, page, calls, spent>>

(* On the login page, left by Sync, the tab does not start again.          *)
FetchRefused ==
    /\ fetch.stage = "refused"
    /\ IF page # "login" THEN Unauthorized
       ELSE /\ store' = "none" /\ known' = FALSE
            /\ cache' = "error" /\ fetch' = Idle
            /\ UNCHANGED <<page, stale, calls>>
    /\ UNCHANGED <<view, spent>>

(* The retries have failed as well: the error is shown instead.            *)
FetchFails ==
    /\ fetch.stage = "sent" /\ Disturb
    /\ cache' = "error"
    /\ fetch' = Idle
    /\ UNCHANGED <<view, store, known, page, stale, calls>>

(* The badges are polled on every page and find out that a token expired.  *)
BadgeRefused ==
    /\ known /\ store # "alive"
    /\ Unauthorized
    /\ UNCHANGED <<view, spent>>

-----------------------------------------------------------------------------
Send(m) ==
    /\ known /\ m \in Content[page].offers /\ Concerns(m)
    /\ spent.writes < MaxWrites
    /\ spent' = [spent EXCEPT !.writes = @ + 1]
    /\ calls' = calls \cup {[mutation |-> m, from |-> page, token |-> store, stage |-> "sent"]}
    /\ UNCHANGED <<view, store, known, page, cache, fetch, stale>>

(* The server's state changes under the answers that were given before.    *)
Miss(answer, own) ==
    IF answer \notin Answers THEN answer
    ELSE IF own \/ answer = "mine" THEN "mine" ELSE "old"

Change(own) ==
    /\ cache' = Miss(cache, own)
    /\ fetch' = [fetch EXCEPT !.stage = Miss(@, own)]

Becomes(c, stage) == calls' = (calls \ {c}) \cup {[c EXCEPT !.stage = stage]}

(* The handler refuses: 401; or 400, 403, 404, 409.                        *)
Reject(c) ==
    /\ c.stage = "sent"
    /\ Becomes(c, IF c.token = "alive" THEN "failed" ELSE "refused")
    /\ UNCHANGED <<view, store, known, page, cache, fetch, stale, spent>>

(* The handler writes; its answer may be lost.                             *)
Perform(c) ==
    /\ c.stage = "sent" /\ c.token = "alive"
    /\ \/ Becomes(c, "done") /\ UNCHANGED spent
       \/ Becomes(c, "failed") /\ Disturb
    /\ IF view \in Changed[c.mutation] THEN Change(page = c.from) ELSE UNCHANGED <<cache, fetch>>
    /\ UNCHANGED <<view, store, known, page, stale>>

(* Mutant: a request that is on the way is joined.                         *)
RefreshJoining ==
    IF Mounted THEN fetch' = (IF fetch = Idle THEN Sent(store) ELSE fetch) /\ UNCHANGED stale
    ELSE stale' = TRUE /\ UNCHANGED fetch

(* invalidateQueries: a query in use is asked again, and the answer to an  *)
(* earlier request is dropped; another is asked when it is used next.      *)
Refresh ==
    IF Mounted THEN fetch' = Sent(store) /\ UNCHANGED stale
    ELSE stale' = TRUE /\ UNCHANGED fetch

CallDone(c) ==
    /\ c.stage = "done"
    /\ calls' = calls \ {c}
    /\ IF view \in Invalidated[c.mutation] THEN Refresh ELSE UNCHANGED <<fetch, stale>>
    /\ UNCHANGED <<view, store, known, page, cache, spent>>

(* The toast of onError; onSuccess does not run.                           *)
CallFailed(c) ==
    /\ c.stage = "failed"
    /\ calls' = calls \ {c}
    /\ cache' = Forgotten(cache) /\ fetch' = Disowned(fetch)
    /\ UNCHANGED <<view, store, known, page, stale, spent>>

CallRefused(c) ==
    /\ c.stage = "refused"
    /\ IF page # "login" THEN Unauthorized
       ELSE /\ store' = "none" /\ known' = FALSE
            /\ calls' = calls \ {c}
            /\ UNCHANGED <<page, cache, fetch, stale>>
    /\ UNCHANGED <<view, spent>>

(* A worker records a transfer, a reversal or a payout, or another tab's   *)
(* mutation succeeds.                                                      *)
OthersWrite ==
    /\ Disturb
    /\ Change(FALSE)
    /\ UNCHANGED <<view, store, known, page, stale, calls>>

-----------------------------------------------------------------------------
Answer == Serve \/ Deliver \/ FetchRefused

ConsoleNext ==
    \/ Login \/ Logout \/ Elsewhere \/ Sync \/ Expire
    \/ \E p \in Pages : Navigate(p)
    \/ Poll \/ Answer \/ FetchFails \/ BadgeRefused
    \/ \E m \in Mutations : Send(m)
    \/ \E c \in calls : Reject(c) \/ Perform(c) \/ CallDone(c) \/ CallFailed(c) \/ CallRefused(c)
    \/ OthersWrite

(* Requests are answered, storage events arrive, and the intervals come    *)
(* round as long as the operator looks at the tab.                         *)
ConsoleFairness ==
    /\ WF_consoleVars(Sync)
    /\ WF_consoleVars(Poll)
    /\ WF_consoleVars(Answer)
    /\ WF_consoleVars(BadgeRefused)

ConsoleSpec == ConsoleInit /\ [][ConsoleNext]_consoleVars /\ ConsoleFairness

-----------------------------------------------------------------------------
(* An operator who stays on the page of a decision does not go on seeing   *)
(* the state from before it: once the answer has come, everything on the   *)
(* page that the server changed (handlers) is asked again (hooks), and no  *)
(* poll that was answered earlier brings the old state back.               *)
ReadYourWrites ==
    /\ Mounted /\ cache = "mine"
    /\ \A c \in calls : view \notin Changed[c.mutation]
    => fetch # Idle

(* Whatever else happens, what a page shows of the operations' queries     *)
(* becomes current again: after network errors, lost answers of mutations, *)
(* changes by workers and by other tabs ("Live" in AppShell).              *)
CatchesUp ==
    Mounted /\ view \in {"kpis", "timeseries", "breakdown", "exceptions", "refunds", "defaulters"}
      ~> cache = "current" \/ ~Mounted

(* A token at the end of its life does not stay: some request is refused   *)
(* and the session goes.  And a session that is gone is gone for this tab, *)
(* too, and with it the page, unless somebody signs in again (request,     *)
(* clearSession, useAuth, AppShell).                                       *)
SignedOutEverywhere ==
    /\ store = "expired" ~> store # "expired"
    /\ store = "none" ~> (~known /\ page = "login") \/ store # "none"

=============================================================================
