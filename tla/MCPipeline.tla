----------------------------- MODULE MCPipeline -----------------------------
(***************************************************************************)
(* A transfer on its way through Inbound and Waterfall, on every bounded   *)
(* input and against reference definitions.  Two families of inputs: any   *)
(* amounts over any invoices by a plain webhook, and one payment by every  *)
(* kind of webhook and of listed transaction.                              *)
(***************************************************************************)
EXTENDS Waterfall, Inbound

CONSTANTS
    MaxAmount,          \* bound: largest payment, in kobo
    MaxInvoice,         \* bound: largest invoice
    MaxInvoices         \* bound: invoices of the customer

ASSUME PipelineBounds == {MaxAmount, MaxInvoice, MaxInvoices} \subseteq Nat

MCNoise == {-1, 0, 1}

VARIABLES transfer, delivery, verdict, body, normal, invs, rem

vars == <<transfer, delivery, verdict, body, normal, invs, rem>>

-----------------------------------------------------------------------------
(* What Nomba sends: external, from the schemas and RawTransaction.        *)
Texts == {[kind |-> "string", text |-> ""], [kind |-> "string", text |-> "null"],
          [kind |-> "string", text |-> "00"], Missing, [kind |-> "null", text |-> ""]}
Ids == {[kind |-> "string", text |-> "user"], [kind |-> "number", text |-> "7"], Missing}

PlainDelivery ==
    [path |-> "webhook", scheme |-> "colon", key |-> "ours", timestampSent |-> TRUE,
     upperCase |-> FALSE, omitted |-> {}, userId |-> [kind |-> "string", text |-> "user"],
     responseCode |-> [kind |-> "string", text |-> ""]]

Webhooks ==
    [path : {"webhook"}, scheme : {"colon", "raw", "unsigned"}, key : {"ours", "another"},
     timestampSent : BOOLEAN, upperCase : BOOLEAN,
     omitted : SUBSET {"aliasAccountReference", "aliasAccountNumber", "fee"},
     userId : Ids, responseCode : Texts]

Listings ==
    [path : {"backfill"}, amounts : SUBSET {"top", "meta", "plain"},
     fees : SUBSET {"top", "meta"}, sessions : SUBSET {"top", "meta"},
     times : SUBSET {"time", "timeCreated"}, reference : BOOLEAN]

Opt(value, given) == IF given THEN {value} ELSE {}

WebhookBody ==
    [event_type |-> "payment_success", type |-> "vact_transfer", aliasAccountType |-> "VIRTUAL",
     identity |-> "transfer", userId |-> delivery.userId, responseCode |-> delivery.responseCode,
     time |-> [kind |-> "string", text |-> "t0"],
     sessionId |-> {transfer.session},
     aliasAccountReference |->
        Opt(transfer.ref, "aliasAccountReference" \notin delivery.omitted),
     aliasAccountNumber |-> Opt(transfer.number, "aliasAccountNumber" \notin delivery.omitted),
     transactionAmount |-> {KoboToNaira(transfer.gross)},
     fee |-> Opt(KoboToNaira(transfer.fee), "fee" \notin delivery.omitted),
     sender |-> {"sender"}]

(* Nomba's reference implementation of the colon scheme.                   *)
SignedText(v) == IF v.kind \in {"missing", "null"} \/ v.text = "null" THEN "" ELSE v.text

Header ==
    IF delivery.scheme = "unsigned" THEN {}
    ELSE {[mac |-> IF delivery.scheme = "raw" THEN Hmac(delivery.key, RawBody(WebhookBody), "hex")
                   ELSE Hmac(delivery.key,
                             <<"transfer", SignedText(delivery.userId),
                               SignedText(delivery.responseCode), "now">>, "base64"),
           upperCase |-> delivery.upperCase]}

Entry ==
    LET naira == transfer.gross * 100
        fee == transfer.fee * 100
    IN [sessionId |-> Opt(transfer.session, "top" \in delivery.sessions),
        metaTransactionId |-> Opt("transaction id", "meta" \in delivery.sessions),
        transactionAmount |-> Opt(naira, "top" \in delivery.amounts),
        metaTransactionAmount |-> Opt(naira, "meta" \in delivery.amounts),
        amount |-> Opt(naira, "plain" \in delivery.amounts),
        fee |-> Opt(fee, "top" \in delivery.fees),
        metaFee |-> Opt(fee, "meta" \in delivery.fees),
        aliasAccountReference |-> Opt(transfer.ref, delivery.reference),
        time |-> Opt("t0", "time" \in delivery.times),
        timeCreated |-> Opt("t0", "timeCreated" \in delivery.times)]

Customers == {[id |-> "owner", accountRef |-> "r1"], [id |-> "other", accountRef |-> "r2"]}
VirtualAccounts == {[customer |-> "owner", number |-> "n1"], [customer |-> "other", number |-> "n2"]}

-----------------------------------------------------------------------------
(* Invoices as the program writes them.                                    *)
Stored ==
    {[expected |-> x, settled |-> y,
      status |-> IF y = 0 THEN "open" ELSE IF y < x THEN "partially_paid" ELSE "settled"] :
        x \in 0..MaxInvoice, y \in 0..MaxInvoice}

Transfer(gross, fee) ==
    [session |-> "session", ref |-> "r1", number |-> "n1", gross |-> gross, fee |-> fee]

Init ==
    /\ verdict = "sent"
    /\ body = <<>> /\ normal = <<>> /\ rem = <<>>
    /\ \/ /\ delivery = PlainDelivery
          /\ transfer \in {Transfer(g, f) : g \in 0..MaxAmount, f \in 0..MaxAmount}
          /\ \E n \in 0..MaxInvoices :
                invs \in [1..n -> {inv \in Stored : inv.settled <= inv.expected}]
       \/ /\ delivery \in Webhooks \cup Listings
          /\ transfer = Transfer(MaxAmount, 1)
          /\ invs = <<>>

(* The webhook reaches POST /webhooks/nomba.                               *)
Arrive ==
    /\ verdict = "sent"
    /\ delivery.path = "webhook"
    /\ verdict' = Receive(WebhookBody, Header, Opt("now", delivery.timestampSent), "ours")
    /\ body' = IF verdict' = "persisted" THEN WebhookBody ELSE body
    /\ UNCHANGED <<transfer, delivery, normal, invs, rem>>

(* pollBackfill finds the transfer in its list.                            *)
Find ==
    /\ verdict = "sent"
    /\ delivery.path = "backfill"
    /\ \E noise \in Noise :
          LET tx == MapTransaction(Entry, noise) IN
          IF Scanned(tx)
          THEN /\ verdict' = "persisted"
               /\ body' = BuildSyntheticPayload([accountRef |-> "r1", number |-> "n1"], tx)
          ELSE /\ verdict' = "skipped"
               /\ body' = body
    /\ UNCHANGED <<transfer, delivery, normal, invs, rem>>

(* reconcileInboundCredit parses and normalises, or throws.                *)
Normalize ==
    /\ verdict = "persisted"
    /\ normal = <<>>
    /\ IsInboundVirtualAccountCredit(body)
    /\ IF InboundParses(body)
       THEN /\ \E noise \in Noise : normal' = NormalizeInboundPayment(body, noise)
            /\ verdict' = "normalised"
       ELSE /\ normal' = normal
            /\ verdict' = "threw"
    /\ UNCHANGED <<transfer, delivery, body, invs, rem>>

Decide ==
    /\ verdict = "normalised"
    /\ rem = <<>>
    /\ Accepts(normal.gross, normal.fee)
    /\ rem' \in Runs(normal.gross, invs)
    /\ UNCHANGED <<transfer, delivery, verdict, body, normal, invs>>

Next == Arrive \/ Find \/ Normalize \/ Decide

Spec == Init /\ [][Next]_vars

-----------------------------------------------------------------------------
(* A webhook gets into the system exactly if the shared secret signed it   *)
(* by either scheme, whatever primitive types its fields have, and in any  *)
(* letter case; the colon scheme needs its timestamp.  What the schema     *)
(* refuses (null, a number) fails although its signature is right, and a   *)
(* message without a signature is acknowledged and forgotten.              *)
GenuineIsAccepted ==
    (delivery.path = "webhook" /\ verdict # "sent") =>
        /\ verdict = "ignored" <=> delivery.scheme = "unsigned"
        /\ verdict = "refused" <=>
              /\ delivery.scheme # "unsigned"
              /\ \/ delivery.key = "another"
                 \/ delivery.scheme = "colon" /\ ~delivery.timestampSent
        /\ verdict = "failed" =>
              "null" \in {delivery.userId.kind, delivery.responseCode.kind}
              \/ delivery.userId.kind = "number"

(* What a delivery says of its transfer.                                   *)
Complete ==
    delivery.path = "webhook" \/ ("top" \in delivery.sessions /\ delivery.times # {})
Identified ==
    delivery.path = "backfill" \/
    ~({"aliasAccountReference", "aliasAccountNumber"} \subseteq delivery.omitted)
AmountShown == delivery.path = "webhook" \/ delivery.amounts # {}
FeeShown == IF delivery.path = "webhook" THEN "fee" \notin delivery.omitted
            ELSE delivery.fees # {}

(* "Backfill and live webhooks converge on identical ledger writes"        *)
(* (backfill.ts:6) as far as it goes: by whichever way a transfer came in, *)
(* the engine sees its session and its gross to the kobo and finds its     *)
(* customer, and sees its fee to the kobo or, from a message that does not *)
(* show it, no fee at all.  So a listed transaction without a fee splits   *)
(* cash and fees otherwise than the webhook does.  A listed transaction    *)
(* must show its session id and a time; without an amount it is passed by. *)
PathsConverge ==
    Complete =>
        /\ verdict # "threw"
        /\ verdict = "skipped" => transfer.gross = 0 \/ ~AmountShown
        /\ verdict = "normalised" =>
            /\ normal.sessionId = transfer.session
            /\ normal.gross = transfer.gross
            /\ normal.fee = IF FeeShown THEN transfer.fee ELSE 0
            /\ Identified => Resolve(Customers, VirtualAccounts, normal) = {"owner"}

Decided == rem # <<>>
Gross == normal.gross
Fee == normal.fee
Surplus == rem[Len(invs)]
After == Poured(rem, invs)

(* Reference: the i-th invoice is paid from what the older ones leave over *)
OlderThan(i) == SumFunction([j \in 1..(i - 1) |-> Payable(invs[j])])
Share(i) ==
    LET left == Gross - OlderThan(i) IN
    IF left <= 0 THEN 0 ELSE IF left < Payable(invs[i]) THEN left ELSE Payable(invs[i])

(* The waterfall of reconcile() and applyCredit() is the FIFO allocation:  *)
(* each invoice gets its share, nothing is lost, and there is one result.  *)
Fifo ==
    Decided =>
        /\ Cardinality(Runs(Gross, invs)) = 1
        /\ \A i \in DOMAIN invs : After[i].settled = invs[i].settled + Share(i)
        /\ Surplus = Gross - SumFunction([i \in DOMAIN invs |-> Share(i)])

(* The stored status always tells the truth about the amounts, also when a *)
(* payment ends in the middle of an invoice.                               *)
StatusFits ==
    Decided => \A i \in DOMAIN invs :
        LET inv == After[i] IN
        /\ inv.settled <= inv.expected
        /\ inv.status = "settled" <=> inv.settled > 0 /\ inv.settled = inv.expected
        /\ inv.status = "open" <=> inv.settled = 0

(* Debits equal credits for every payment, so build() never throws, and a  *)
(* posting is never negative.                                              *)
PostingsBalance ==
    Decided =>
        /\ Balanced(CustomerPostings(Gross, Fee, rem, invs))
        /\ Balanced(OrphanPostings(Gross, Fee))
        /\ \A a \in Accounts : CustomerPostings(Gross, Fee, rem, invs)[a] >= 0

(* What the operator sees and what is proposed agree with what happened:    *)
(* the label says whether money is left over, or an invoice is still owed, *)
(* or neither; and a refund is proposed exactly when the payment cleared   *)
(* all the customer owed and something is left, while a pure prepayment    *)
(* stays a credit.                                                         *)
DecisionFits ==
    Decided =>
        LET label == Classification(Gross, invs, rem)
            owed(list) == \E i \in DOMAIN list : Payable(list[i]) > 0
        IN /\ label = "overpayment" <=> Surplus > 0
           /\ label = "underpayment" <=> Surplus = 0 /\ owed(After)
           /\ RefundAmount(invs, rem) = IF owed(invs) THEN Surplus ELSE 0

=============================================================================
