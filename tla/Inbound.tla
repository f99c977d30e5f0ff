------------------------------- MODULE Inbound -------------------------------
(***************************************************************************)
(* What happens to a transfer between Nomba and the engine: the signature  *)
(* check of the receiver, the schemas, the mapping of a listed transaction *)
(* and the synthetic payload of the backfill poller, the normaliser and    *)
(* the resolution of the customer.  All of it is computation on one        *)
(* message.                                                                *)
(*                                                                         *)
(* A field that may be missing is a set of at most one value.  An amount   *)
(* in naira is a JSON number: here an integer of hundredths of a kobo, to  *)
(* which the multiplication by 100 adds a noise (binary fractions).        *)
(***************************************************************************)
EXTENDS Integers, Sequences, FiniteSets

CONSTANT Noise      \* bound: what float arithmetic adds, in 1/100 kobo

ASSUME NoiseIsSmall == Noise \subseteq -49..49 /\ 0 \in Noise

First(options) ==
    LET given == {i \in DOMAIN options : options[i] # {}} IN
    IF given = {} THEN {}
    ELSE options[CHOOSE i \in given : \A j \in given : i <= j]

OrElse(option, default) == IF option = {} THEN default ELSE CHOOSE v \in option : TRUE

-----------------------------------------------------------------------------
(* Money at the boundary.                                                  *)

NairaToKobo(naira, noise) == (naira + noise + 50) \div 100

KoboToNaira(kobo) == kobo * 100

-----------------------------------------------------------------------------
(* Signatures.  A JSON value is [kind, text]; only primitives have a text. *)

Str(v) == IF v.kind \in {"string", "number", "boolean"} THEN v.text ELSE ""

(* The nine fields; `identity` stands for the six that are always strings. *)
BuildSignaturePayload(body, timestamp) ==
    LET responseCode == Str(body.responseCode) IN
    <<body.identity, Str(body.userId),
      IF responseCode = "null" THEN "" ELSE responseCode, timestamp>>

(* HMAC-SHA256 as an injective function.                                   *)
Hmac(key, text, digest) == [key |-> key, text |-> text, digest |-> digest]

CiEqual(mac, header) == mac = header.mac

(* The bytes as they came.                                                 *)
RawBody(body) == <<body>>

(* Mutant: only the scheme of the API reference.                           *)
VerifyColonScheme(body, header, timestamp, key) ==
    \E h \in header : \E t \in timestamp :
        CiEqual(Hmac(key, BuildSignaturePayload(body, t), "base64"), h)

(* The headers are optional.                                               *)
VerifyWebhook(body, header, timestamp, key) ==
    \E h \in header :
        \/ \E t \in timestamp :
              CiEqual(Hmac(key, BuildSignaturePayload(body, t), "base64"), h)
        \/ CiEqual(Hmac(key, RawBody(body), "hex"), h)

-----------------------------------------------------------------------------
(* Schemas.  JSON null is not undefined: z.string().optional() refuses it, *)
(* and numbers as well.                                                    *)

OptionalString(v) == v.kind \in {"string", "missing"}

EnvelopeParses(body) ==
    /\ OptionalString(body.userId)
    /\ OptionalString(body.responseCode)
    /\ OptionalString(body.time)

InboundParses(body) ==
    /\ EnvelopeParses(body)
    /\ body.sessionId # {}
    /\ \E amount \in body.transactionAmount : amount >= 0
    /\ \A fee \in body.fee : fee >= 0

IsInboundVirtualAccountCredit(body) ==
    /\ body.event_type = "payment_success"
    /\ body.type = "vact_transfer"
    /\ body.aliasAccountType = "VIRTUAL"

(* POST /webhooks/nomba up to the insert.                                  *)
Receive(body, header, timestamp, key) ==
    IF header = {} THEN "ignored"
    ELSE IF ~VerifyWebhook(body, header, timestamp, key) THEN "refused"
    ELSE IF ~EnvelopeParses(body) THEN "failed"
    ELSE "persisted"

-----------------------------------------------------------------------------
(* The backfill poller's way.  Every amount read is converted to kobo.     *)

Num(options, noise) ==
    IF First(options) = {} THEN 0 ELSE NairaToKobo(OrElse(First(options), 0), noise)

(* Mutant: knows only the fields of the webhook.                           *)
MapTransactionTopLevel(t, noise) ==
    [sessionId |-> t.sessionId,
     amount    |-> Num(<<t.transactionAmount>>, noise),
     fee       |-> Num(<<t.fee>>, noise),
     aliasAccountReference |-> t.aliasAccountReference,
     occurredAt |-> t.time]

MapTransaction(t, noise) ==
    [sessionId |-> First(<<t.sessionId, t.metaTransactionId>>),
     amount    |-> Num(<<t.transactionAmount, t.metaTransactionAmount, t.amount>>, noise),
     fee       |-> Num(<<t.fee, t.metaFee>>, noise),
     aliasAccountReference |-> t.aliasAccountReference,
     occurredAt |-> First(<<t.time, t.timeCreated>>)]

Scanned(tx) == tx.sessionId # {} /\ tx.amount > 0

Missing == [kind |-> "missing", text |-> ""]

BuildSyntheticPayload(va, tx) ==
    [event_type |-> "payment_success", type |-> "vact_transfer", aliasAccountType |-> "VIRTUAL",
     identity |-> "backfill", userId |-> Missing,
     responseCode |-> [kind |-> "string", text |-> ""],
     time |-> IF tx.occurredAt = {} THEN [kind |-> "null", text |-> ""]
              ELSE [kind |-> "string", text |-> OrElse(tx.occurredAt, "")],
     sessionId |-> tx.sessionId,
     aliasAccountReference |-> {OrElse(tx.aliasAccountReference, va.accountRef)},
     aliasAccountNumber |-> {va.number},
     transactionAmount |-> {KoboToNaira(tx.amount)},
     fee |-> {KoboToNaira(tx.fee)},
     sender |-> {}]

-----------------------------------------------------------------------------
(* normalizeInboundPayment, and the customer it leads to.                  *)

NormalizeInboundPayment(body, noise) ==
    [sessionId |-> OrElse(body.sessionId, ""),
     accountRef |-> body.aliasAccountReference,
     virtualAccountNumber |-> body.aliasAccountNumber,
     gross |-> NairaToKobo(OrElse(body.transactionAmount, 0), noise),
     fee |-> NairaToKobo(OrElse(body.fee, 0), noise),
     sender |-> body.sender]

(* accountRef first, the virtual account's number as the fallback; the     *)
(* empty set is an orphan.  Both columns are unique.                       *)
Resolve(customers, accounts, n) ==
    LET byRef == {c.id : c \in {c \in customers : c.accountRef \in n.accountRef}} IN
    IF byRef # {} THEN byRef
    ELSE {a.customer : a \in {a \in accounts : a.number \in n.virtualAccountNumber}}

=============================================================================
