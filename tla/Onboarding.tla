----------------------------- MODULE Onboarding -----------------------------
(***************************************************************************)
(* How a customer gets a virtual account and the money sent to it arrives: *)
(* POST /customers and POST /school/roster of apps/api, each row of which  *)
(* is an account at Nomba, a customer and an account here, three steps     *)
(* without a transaction; Nomba's client with its retries; the webhook and *)
(* the poll that bring a payment in.  The processes that do it come and go *)
(* as in Boot.  One payment is followed.                                   *)
(***************************************************************************)
EXTENDS Boot, Sequences

CONSTANTS
    Requests,           \* bound: requests the console sends
    Given,              \* stands for the accountRef an operator types
    Roster,             \* the tags written in each row of an uploaded roster
    Retries,            \* of a call to Nomba, 3 in the code
    MaxErrors           \* bound: calls (after the retries), statements and
                        \* answers that fail

ASSUME OnboardingConstants ==
    /\ Given \notin Requests
    /\ Len(Roster) \in Nat \ {0}
    /\ {Retries, MaxErrors} \subseteq Nat

(* A tag has one value at most, in each row.                               *)
ASSUME RosterAssumption ==
    \A i \in DOMAIN Roster : \A k \in DOMAIN Roster[i] :
        \A x, y \in Roster[i][k].value : x = y

VARIABLES
    request,    \* the requests, their server and how far they are
    answer,     \* what the console has been told
    accounts,   \* Nomba: the references that have a virtual account
    customers,  \* customers, by account_ref
    vas,        \* virtual_accounts, by their customer's account_ref
    payment,    \* the payment, and how far it is
    errors      \* how much of the bound is spent

tables == <<accounts, customers, vas>>
vars == <<bootVars, request, answer, tables, payment, errors>>

-----------------------------------------------------------------------------
(* Tags.  A written tag has a key and, after "=", perhaps a value.  The    *)
(* metadata holds Booleans and texts.                                      *)

Fee == INSTANCE FeeEngine WITH NoRule <- Given

(* parseRoster: a bare tag is true, as is one that says so.                *)
RosterTag(w) ==
    IF w.value \in {{}, {"true"}, {"false"}}
    THEN [key |-> w.key, type |-> "boolean", text |-> IF w.value = {} THEN "true"
                                                      ELSE CHOOSE x \in w.value : TRUE]
    ELSE [key |-> w.key, type |-> "string", text |-> CHOOSE x \in w.value : TRUE]

(* A key that is written again takes the later value.                      *)
Metadata(written) ==
    {RosterTag(written[k]) : k \in {k \in DOMAIN written :
        \A l \in k + 1..Len(written) : written[l].key # written[k].key}}

(* GET /school/tags, the choices of the rule dialogs.                      *)
Label(tag) ==
    [key |-> tag.key,
     value |-> IF tag.type = "boolean" /\ tag.text = "true" THEN {} ELSE {tag.text}]

(* Mutant: what follows "=" stays a text.                                  *)
MatchTagText(w) ==
    IF w.value = {} THEN RosterTag(w)
    ELSE [key |-> w.key, type |-> "string", text |-> CHOOSE x \in w.value : TRUE]

(* parseMatch of a choice: the predicate that is sent with the rule.       *)
MatchTag(w) == RosterTag(w)

-----------------------------------------------------------------------------
Refs == (Requests \X (0..Len(Roster))) \cup {<<Given, 0>>}

(* The customer dialog without and with a reference, the roster upload.    *)
Kinds == {"new", "given", "roster"}

NotSent == [pc |-> "idle", kind |-> "new", server |-> {}, row |-> 0, attempt |-> 0,
            created |-> {}, failed |-> {}]

NoAnswer == [status |-> "none", created |-> {}, failed |-> {}]
Failure == [NoAnswer EXCEPT !.status = "error"]

(* An earlier request may have used the reference, up to any of its steps. *)
Init ==
    /\ BootInit
    /\ request = [r \in Requests |-> NotSent]
    /\ answer = [r \in Requests |-> NoAnswer]
    /\ accounts \in SUBSET {<<Given, 0>>}
    /\ customers \in SUBSET accounts
    /\ vas \in SUBSET customers
    /\ payment = [to |-> {}, stage |-> "none"]
    /\ errors = 0

At(r, label) == request[r].pc = label

(* Every row has a reference of its own, drawn at random, unless one was   *)
(* typed.                                                                  *)
Ref(r) == IF request[r].kind = "given" THEN <<Given, 0>> ELSE <<r, request[r].row>>

FirstRow(kind) == IF kind = "roster" THEN 1 ELSE 0
FinalRow(kind) == IF kind = "roster" THEN Len(Roster) ELSE 0

Error == errors < MaxErrors /\ errors' = errors + 1

-----------------------------------------------------------------------------
(* The console sends; the button is disabled while it waits.               *)

Submit(r, kind) ==
    /\ At(r, "idle")
    /\ request' = [request EXCEPT ![r] = [NotSent EXCEPT !.pc = "sent", !.kind = kind,
                                                         !.row = FirstRow(kind)]]
    /\ UNCHANGED <<bootVars, answer, tables, payment, errors>>

Accept(r) ==
    /\ At(r, "sent")
    /\ \E i \in Apis :
          /\ Listening(i)
          /\ request' = [request EXCEPT ![r].pc = "calling", ![r].server = {i}]
    /\ UNCHANGED <<bootVars, answer, tables, payment, errors>>

(* Nomba finds or makes the account of the reference and says so.          *)
NombaAnswers(r) ==
    /\ At(r, "calling")
    /\ accounts' = accounts \cup {Ref(r)}
    /\ request' = [request EXCEPT ![r].pc = "customer"]
    /\ UNCHANGED <<bootVars, answer, customers, vas, payment, errors>>

(* The next row of the roster, or the end.                                 *)
Continue(r, row) ==
    request' = [request EXCEPT ![r] =
        IF row.row < FinalRow(row.kind)
        THEN [row EXCEPT !.pc = "calling", !.row = @ + 1, !.attempt = 0]
        ELSE [row EXCEPT !.pc = "answering"]]

(* Mutant: a row that throws is passed over.                               *)
RowThrowsSilently(r) == Continue(r, request[r])

(* The roster's catch; of a single customer, the answer 500.               *)
RowThrows(r) == Continue(r, [request[r] EXCEPT !.failed = @ \cup {request[r].row}])

(* A timeout, a 429, a 5xx: Nomba may have made the account.  The client   *)
(* tries again, and gives up after its retries.                            *)
NombaFails(r) ==
    /\ At(r, "calling")
    /\ accounts' \in {accounts, accounts \cup {Ref(r)}}
    /\ IF request[r].attempt < Retries
         THEN request' = [request EXCEPT ![r].attempt = @ + 1] /\ UNCHANGED errors
         ELSE RowThrows(r) /\ Error
    /\ UNCHANGED <<bootVars, answer, customers, vas, payment>>

(* Any other status is not tried again.                                    *)
NombaRefuses(r) ==
    /\ At(r, "calling")
    /\ Error
    /\ RowThrows(r)
    /\ UNCHANGED <<bootVars, answer, tables, payment>>

(* Mutant: the row is reported as soon as it has a customer.               *)
InsertCustomerAndReport(r) ==
    /\ At(r, "customer")
    /\ IF Ref(r) \in customers
         THEN RowThrows(r)
         ELSE request' = [request EXCEPT ![r].pc = "account", ![r].created = @ \cup {Ref(r)}]
    /\ customers' = customers \cup {Ref(r)}
    /\ UNCHANGED <<bootVars, answer, accounts, vas, payment, errors>>

(* account_ref is unique: a reference used before throws.                  *)
InsertCustomer(r) ==
    /\ At(r, "customer")
    /\ IF Ref(r) \in customers
         THEN RowThrows(r)
         ELSE request' = [request EXCEPT ![r].pc = "account"]
    /\ customers' = customers \cup {Ref(r)}
    /\ UNCHANGED <<bootVars, answer, accounts, vas, payment, errors>>

InsertAccount(r) ==
    /\ At(r, "account")
    /\ vas' = vas \cup {Ref(r)}
    /\ Continue(r, [request[r] EXCEPT !.created = @ \cup {Ref(r)}])
    /\ UNCHANGED <<bootVars, answer, accounts, customers, payment, errors>>

(* A statement fails, before or after it has had its effect.               *)
InsertThrows(r) ==
    /\ request[r].pc \in {"customer", "account"}
    /\ Error
    /\ RowThrows(r)
    /\ \/ UNCHANGED <<customers, vas>>
       \/ At(r, "customer") /\ customers' = customers \cup {Ref(r)} /\ UNCHANGED vas
       \/ At(r, "account") /\ vas' = vas \cup {Ref(r)} /\ UNCHANGED customers
    /\ UNCHANGED <<bootVars, answer, accounts, payment>>

Over(row) == [NotSent EXCEPT !.pc = "over", !.kind = row.kind]

Reply(r, reply) ==
    /\ At(r, "answering")
    /\ answer' = [answer EXCEPT ![r] = reply]
    /\ request' = [request EXCEPT ![r] = Over(@)]
    /\ UNCHANGED <<bootVars, tables, payment>>

(* A roster is answered with 201 whatever has failed.                      *)
Respond(r) ==
    /\ Reply(r, IF request[r].kind # "roster" /\ request[r].failed # {}
                THEN Failure
                ELSE [status |-> "report", created |-> request[r].created,
                      failed |-> request[r].failed])
    /\ UNCHANGED errors

ResponseLost(r) == Reply(r, Failure) /\ Error

-----------------------------------------------------------------------------
(* A payment to a number that was passed on, once the console reported it. *)

Reported == UNION {answer[r].created : r \in Requests}

Pay ==
    /\ payment.stage = "none"
    /\ \E ref \in Reported : payment' = [to |-> {ref}, stage |-> "paid"]
    /\ UNCHANGED <<bootVars, request, answer, tables, errors>>

(* The webhook, with aliasAccountReference or with the number only.        *)
Webhook ==
    /\ payment.stage = "paid"
    /\ \E i \in Apis : Listening(i)
    /\ \E stage \in {"referenced", "numbered"} : payment' = [payment EXCEPT !.stage = stage]
    /\ UNCHANGED <<bootVars, request, answer, tables, errors>>

Worker == \E i \in Instances : pc[i] = "working"

(* pollBackfill goes through the accounts that have a customer.            *)
Poll ==
    /\ payment.stage = "paid"
    /\ Worker
    /\ payment.to \subseteq vas \cap customers
    /\ payment' = [payment EXCEPT !.stage = "referenced"]
    /\ UNCHANGED <<bootVars, request, answer, tables, errors>>

(* resolve: the customer of the reference, else of the account's number.   *)
Reconcile ==
    /\ payment.stage \in {"referenced", "numbered"}
    /\ Worker
    /\ payment' = [payment EXCEPT !.stage =
          IF \/ payment.stage = "referenced" /\ payment.to \subseteq customers
             \/ payment.to \subseteq vas
          THEN "credited" ELSE "orphan"]
    /\ UNCHANGED <<bootVars, request, answer, tables, errors>>

-----------------------------------------------------------------------------
ServedBy(i) == {r \in Requests : i \in request[r].server}

Boots(i) == BootStep(i) /\ UNCHANGED <<request, answer, tables, payment, errors>>

Closes(i) == Terminate(i) /\ UNCHANGED <<request, answer, tables, payment, errors>>

(* app.close() waits for the requests.                                     *)
Exits(i) ==
    /\ ServedBy(i) = {}
    /\ Exit(i)
    /\ UNCHANGED <<request, answer, tables, payment, errors>>

(* What an aborted request has done so far stays.                          *)
Crashes(i) ==
    /\ Crash(i)
    /\ request' = [r \in Requests |->
          IF r \in ServedBy(i) THEN Over(request[r]) ELSE request[r]]
    /\ answer' = [r \in Requests |-> IF r \in ServedBy(i) THEN Failure ELSE answer[r]]
    /\ UNCHANGED <<tables, payment, errors>>

Serve(r) ==
    \/ Accept(r)
    \/ NombaAnswers(r)
    \/ InsertCustomer(r)
    \/ InsertAccount(r)
    \/ Respond(r)

Next ==
    \/ \E i \in Instances : Boots(i) \/ Closes(i) \/ Exits(i) \/ Crashes(i)
    \/ \E r \in Requests :
          \/ \E kind \in Kinds : Submit(r, kind)
          \/ Serve(r)
          \/ NombaFails(r)
          \/ NombaRefuses(r)
          \/ InsertThrows(r)
          \/ ResponseLost(r)
    \/ Pay
    \/ Webhook
    \/ Poll
    \/ Reconcile

(* The platform starts what has ended; processes go on; the poll repeats   *)
(* and jobs are taken.  Nobody has to send, pay or deliver a webhook.      *)
Fairness ==
    /\ \A i \in Instances : WF_vars(Boots(i)) /\ WF_vars(Exits(i))
    /\ \A r \in Requests : WF_vars(Serve(r))
    /\ WF_vars(Poll)
    /\ WF_vars(Reconcile)

Spec == Init /\ [][Next]_vars /\ Fairness

-----------------------------------------------------------------------------
(* Types of the requests, their answers, the tables and the payment.       *)
TypeOK ==
    /\ BootTypeOK
    /\ request \in [Requests ->
          [pc : {"idle", "sent", "calling", "customer", "account", "answering", "over"},
           kind : Kinds, server : SUBSET Instances, row : 0..Len(Roster), attempt : 0..Retries,
           created : SUBSET Refs, failed : SUBSET (0..Len(Roster))]]
    /\ answer \in [Requests ->
          [status : {"none", "error", "report"}, created : SUBSET Refs,
           failed : SUBSET (0..Len(Roster))]]
    /\ vas \subseteq customers /\ customers \subseteq accounts /\ accounts \subseteq Refs
    /\ payment \in [to : {{}} \cup {{ref} : ref \in Refs},
                    stage : {"none", "paid", "referenced", "numbered", "credited", "orphan"}]
    /\ errors \in 0..MaxErrors

(* The roster's answer lists every row once, created or failed, whatever   *)
(* throws and whoever else onboards; a created one has its account at      *)
(* Nomba, its customer and the number the console shows.                   *)
ReportTruthful ==
    \A r \in Requests :
        answer[r].status = "report" =>
            LET reported == {ref[2] : ref \in answer[r].created} IN
            /\ reported \cup answer[r].failed
                  = FirstRow(request[r].kind)..FinalRow(request[r].kind)
            /\ reported \cap answer[r].failed = {}
            /\ answer[r].created \subseteq accounts \cap customers \cap vas

(* "Tags come from the roster" (the rule dialogs): a rule made from one of *)
(* the offered tags reaches exactly the students the tag was offered for.  *)
TagReaches ==
    LET students == {ref \in customers : ref[2] \in DOMAIN Roster}
        metadata(ref) == Metadata(Roster[ref[2]])
        labels(ref) == {Label(tag) : tag \in metadata(ref)} IN
    \A label \in UNION {labels(ref) : ref \in students} :
        \A ref \in students :
            Fee!MatchesMetadata([match |-> {MatchTag(label)}], metadata(ref))
                <=> label \in labels(ref)

(* Every instance ends up at work: races between booting instances and     *)
(* boots that die half way do not leave a database that refuses the next.  *)
ComesUp == \A i \in Instances : <>[](pc[i] \in {"listening", "working"})

(* Money sent to a customer whose onboarding was reported reaches that     *)
(* customer, also when its webhook is lost or names only the number and    *)
(* the processes restart.                                                  *)
MoneyArrives ==
    payment.stage = "paid" ~> payment.stage = "credited"

=============================================================================
