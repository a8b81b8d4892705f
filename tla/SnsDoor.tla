------------------------------- MODULE SnsDoor -------------------------------
(***************************************************************************)
(* How an SNS message gets in (crates/webhook/src/entry.rs, app.rs and     *)
(* sns/ over crates/sns-message-verifier), what is done with it by family  *)
(* (model/, actions.rs, aws/sms.rs), and what SNS is answered (error.rs).  *)
(*                                                                         *)
(* An execution environment serves one invocation at a time and keeps its  *)
(* own certificates.  An invocation is an HTTP delivery of one envelope or *)
(* a direct one of several; SNS delivers a copy again after a 5xx or no    *)
(* answer, and sometimes after a 2xx, while another copy may be in hand.   *)
(* The persist and the SES actions are single steps here: EventIntake and  *)
(* Ingest take them apart.  An envelope is a record; `altered' holds the   *)
(* fields that are not as SNS signed them.                                 *)
(***************************************************************************)
EXTENDS Naturals, Sequences, FiniteSets

CONSTANTS
    Envelopes,      \* names of SNS messages
    Envelope,       \* what each says
    Payload,        \* and the inner Message of each
    Scripts,        \* the sets of deliveries [via, items] to consider
    Environments,
    Allowlists,     \* values of ALLOWED_TOPICS to consider
    OptOutList,     \* whether OPT_OUT_LIST_NAME is set
    Tracked,        \* SMS messages sent with feedback enabled
    MaxCachedCerts, \* MAX_CACHED_CERTS
    AsyncRetries,   \* retries of the async-invoke queue
    MaxFaults,      \* transient failures and kills
    MaxDuplicates   \* copies SNS delivers although one was answered

ASSUME DoorAssumption ==
    /\ {MaxCachedCerts, AsyncRetries, MaxFaults, MaxDuplicates} \subseteq Nat
    /\ OptOutList \in BOOLEAN
    /\ \A s \in Scripts : \A d \in s : d.items \in Seq(Envelopes) \ {<<>>}

VARIABLES
    script,     \* the deliveries of this behaviour
    allowlist,  \* ALLOWED_TOPICS and AUTO_RESUBSCRIBE of this deployment
    autoResubscribe,
    certs,      \* the certificate cache of each environment
    hand,       \* the invocation each is serving
    copies,     \* copies of each delivery on their way
    failures,   \* how often each one has failed
    faults, duplicates,
    subscribed, \* topics whose subscription is confirmed
    visited,    \* envelopes whose SubscribeURL was visited
    notices,    \* those announced by subscription.changed
    persisted,  \* envelopes stored as event items
    acted,      \* those whose lifecycle action ran
    refused,    \* those whose action failed for good
    optedOut,   \* numbers on the opt-out list
    feedback,   \* what PutMessageFeedback last said of a message
    replies     \* the final answers given: 2xx and 4xx

doorVars == <<script, allowlist, autoResubscribe, certs, hand, copies, failures, faults, duplicates,
              subscribed, visited, notices, persisted, acted, refused, optedOut, feedback, replies>>
setting == <<script, allowlist, autoResubscribe>>
effects == <<subscribed, visited, notices, persisted, acted, refused, optedOut, feedback>>

Served == [pc |-> "free", of |-> {}, left |-> <<>>]

-----------------------------------------------------------------------------
\* Segment s occurs in v after its first i symbols.
IsAt(s, v, i) == i + Len(s) <= Len(v) /\ SubSeq(v, i + 1, i + Len(s)) = s

-----------------------------------------------------------------------------
\* Plausible slips, used to show that the checks notice.

CanonicalWithoutUrl(x) == {"Message", "MessageId", "Timestamp", "TopicArn", "Type", "Signature"}

AnchorsOnWholeArn(p, v) ==
    IF Len(p) = 1 THEN p[1] = v
    ELSE IsAt(p[1], v, 0) /\ Len(p[Len(p)]) <= Len(v) /\ IsAt(p[Len(p)], v, Len(v) - Len(p[Len(p)]))

FetchFailureIsClientFault(why) == IF why = "SignatureMismatch" THEN "403" ELSE "400"

SendingShapeFirst == <<"Ses", "SesInbound", "SmsInbound", "SmsDelivery">>

FeedbackOnEveryReceipt(x) == Payload[x].message \in Tracked

AnnouncesWithoutVisiting(e, x) ==
    /\ notices' = notices \cup {x}
    /\ UNCHANGED <<subscribed, visited, persisted, acted, refused, optedOut, feedback, certs>>

CachesBeforeVerifying(e, x) == TRUE

-----------------------------------------------------------------------------
\* allowlist.rs.  A pattern is its segments between the wildcards.

\* Where segment s, at or after `from', ends first in v.
EarliestEnd(s, v, from) ==
    LET at == {i \in from .. Len(v) : IsAt(s, v, i)}
    IN  IF at = {} THEN Len(v) + 1 ELSE Len(s) + CHOOSE i \in at : \A j \in at : i <= j

\* The end of each middle segment, taken as early as possible.
MiddleEnd(p, v) ==
    LET end[k \in 1 .. Len(p) - 1] ==
          IF k = 1 THEN Len(p[1]) ELSE EarliestEnd(p[k], v, end[k - 1])
    IN  end[Len(p) - 1]

\* split always yields a segment; a topic is a sequence of symbols.
IsSequence(s) == s \in Seq({s[i] : i \in DOMAIN s})

ASSUME PatternsAssumption ==
    /\ \A entry \in UNION Allowlists : entry.account = "none" =>
          /\ IsSequence(entry.glob) /\ entry.glob # <<>>
          /\ \A i \in DOMAIN entry.glob : IsSequence(entry.glob[i])
    /\ \A x \in Envelopes : IsSequence(Envelope[x].topic.arn)

GlobMatch(p, v) ==
    IF Len(p) = 1 THEN p[1] = v
    ELSE /\ IsAt(p[1], v, 0)
         /\ MiddleEnd(p, v) + Len(p[Len(p)]) <= Len(v)
         /\ IsAt(p[Len(p)], v, Len(v) - Len(p[Len(p)]))

\* An entry is an account or a pattern; no entries allow everything.
Allows(topic) ==
    \/ allowlist = {}
    \/ \E entry \in allowlist : IF entry.account # "none" THEN entry.account = topic.account
                                ELSE GlobMatch(entry.glob, topic.arn)

-----------------------------------------------------------------------------
\* sns-message-verifier.

\* validate_sns_url and validate_cert_url; cache_key drops port and query.
ValidSnsUrl(url) == url.https /\ url.port \in {"none", "443"} /\ url.host = "sns"
ValidCertUrl(url) == ValidSnsUrl(url) /\ url.pem
CacheKey(url) == <<url.host, url.path>>

\* build_string_to_sign: the fields a signature of this type covers.
SignedFields(x) ==
    {"Message", "MessageId", "Timestamp", "TopicArn", "Type", "Signature"}
       \cup IF Envelope[x].type = "Notification" THEN {"Subject"} ELSE {"SubscribeURL", "Token"}

\* verify_with_key
SignatureVerdict(x) ==
    IF Envelope[x].type # "Notification" /\ ~Envelope[x].complete THEN "MissingField"
    ELSE IF Envelope[x].version \notin {"1", "2"} THEN "UnsupportedSignatureVersion"
    ELSE IF Envelope[x].altered \cap SignedFields(x) # {} THEN "SignatureMismatch"
    ELSE "verified"

\* AppError::status and verification_status.
StatusOfFailure(why) ==
    CASE why \in {"TopicNotAllowed", "SignatureMismatch"} -> "403"
      [] why \in {"CertFetch", "CertParse", "CertValidity", "Internal"} -> "500"
      [] OTHER -> "400"

\* CertCache::insert: when it is full, a new key starts it over.
Inserted(cached, key) ==
    IF Cardinality(cached) >= MaxCachedCerts /\ key \notin cached THEN {key} ELSE cached \cup {key}

-----------------------------------------------------------------------------
\* model/: what a payload is, by the fields it has.

Parses(p, family) ==
    CASE family = "SesInbound" -> {"notificationType", "mail", "receipt"} \subseteq p.fields
      [] family = "Ses" -> "mail" \in p.fields /\ p.fields \cap {"notificationType", "eventType"} # {}
      [] family = "SmsInbound" -> {"originationNumber", "inboundMessageId"} \subseteq p.fields
      [] family = "SmsDelivery" -> {"eventType", "messageId"} \subseteq p.fields

FamilyOrder == <<"SesInbound", "Ses", "SmsInbound", "SmsDelivery">>

Classify(p) ==
    LET fits == {i \in DOMAIN FamilyOrder : Parses(p, FamilyOrder[i])}
    IN  IF fits = {} THEN "Unknown"
        ELSE FamilyOrder[CHOOSE i \in fits : \A j \in fits : i <= j]

\* keyword_intent: the registered keyword if there is one, even a blank one,
\* else the body; trimmed and in capitals.
KeywordIntent(p) ==
    LET word == IF p.keyword # "absent" THEN p.keyword ELSE p.body
    IN  CASE word \in {"STOP", " stop ", "QUIT"} -> "OptOut"
          [] word \in {"START", "Yes"} -> "OptIn"
          [] OTHER -> "None"

\* run: a terminal receipt gives feedback; without a record that is a no-op.
GivesFeedback(x) == Payload[x].final /\ Payload[x].message \in Tracked
IsSuccessful(p) ==
    p.eventType \in {"TEXT_DELIVERED", "TEXT_SUCCESSFUL", "MEDIA_DELIVERED", "MEDIA_SUCCESSFUL",
                     "VOICE_COMPLETED", "VOICE_ANSWERED"}

\* The effect of the action an envelope calls for.
Action(x) ==
    LET p == Payload[x]  family == Classify(p) IN
    /\ acted' = acted \cup {<<family, x>>}
    /\ optedOut' = IF family # "SmsInbound" \/ ~OptOutList THEN optedOut
                   ELSE CASE KeywordIntent(p) = "OptOut" -> optedOut \cup {p.number}
                          [] KeywordIntent(p) = "OptIn" -> optedOut \ {p.number}
                          [] OTHER -> optedOut
    /\ feedback' = IF family = "SmsDelivery" /\ GivesFeedback(x)
                   THEN [feedback EXCEPT ![p.message] =
                           IF IsSuccessful(p) THEN "Received" ELSE "Failed"]
                   ELSE feedback
    /\ UNCHANGED <<subscribed, visited, notices, persisted, refused>>

-----------------------------------------------------------------------------
\* The envelopes of a script; those SNS itself made.
Sent(deliveries) == UNION {{d.items[i] : i \in DOMAIN d.items} : d \in deliveries}
Genuine(x) == Envelope[x].altered = {}

\* What SNS makes passes its own rules.
ASSUME GenuineAssumption ==
    /\ \A x \in Envelopes :
          /\ {Envelope[x].header, Envelope[x].complete} \subseteq BOOLEAN
          /\ {Envelope[x].cert.https, Envelope[x].cert.pem, Envelope[x].subscribe.https} \subseteq BOOLEAN
    /\ \A x \in Envelopes : Genuine(x) =>
          /\ Envelope[x].type # "none" /\ Envelope[x].version \in {"1", "2"}
          /\ Envelope[x].header /\ Envelope[x].complete /\ ValidCertUrl(Envelope[x].cert)
          /\ Envelope[x].type # "Notification" => ValidSnsUrl(Envelope[x].subscribe)

\* What is in a notification that SNS signed: classify, "an inbound receipt also
\* satisfies the sending-notification shape ... every other pair of families is
\* structurally disjoint"; only a text message asks for anything, by its words,
\* and a receipt says by its type whether the message arrived.
ASSUME PayloadAssumption ==
    \A x \in Envelopes :
       LET p == Payload[x] IN
       /\ {p.setup, p.final, p.delivered} \subseteq BOOLEAN
       /\ Envelope[x].type = "Notification" /\ Envelope[x].altered \cap SignedFields(x) = {} =>
             /\ p.is = "Unknown" \/ (p.is \in {"SesInbound", "Ses", "SmsInbound", "SmsDelivery"} /\ Parses(p, p.is))
             /\ \A f \in {"SesInbound", "Ses", "SmsInbound", "SmsDelivery"} :
                   Parses(p, f) => f = p.is \/ (f = "Ses" /\ p.is = "SesInbound")
             /\ \A what \in {"OptOut", "OptIn"} :
                   p.asks = what <=> p.is = "SmsInbound" /\ KeywordIntent(p) = what
             /\ p.is = "SmsDelivery" /\ p.final => p.delivered = IsSuccessful(p)
             /\ p.setup => p.is = "SesInbound"

DoorInit ==
    /\ script \in Scripts
    /\ allowlist \in Allowlists /\ autoResubscribe \in BOOLEAN
    /\ certs = [e \in Environments |-> {}]
    /\ hand = [e \in Environments |-> Served]
    /\ copies = [d \in script |-> IF d.via = "cancel" THEN 0 ELSE 1]
    /\ failures = [d \in script |-> 0]
    /\ faults = 0 /\ duplicates = 0
    /\ subscribed = {Envelope[x].topic : x \in Envelopes} \ {Envelope[x].topic : x \in
                       {y \in Sent(script) : Genuine(y) /\ Envelope[y].type = "SubscriptionConfirmation"}}
    /\ visited = {} /\ notices = {} /\ persisted = {} /\ acted = {} /\ refused = {}
    /\ optedOut = {} /\ feedback = [msg \in Tracked |-> "none"] /\ replies = {}

\* The record in hand.
At(e, pc) == hand[e].pc = pc
Current(e) == Head(hand[e].left)
Moves(e, pc) == hand' = [hand EXCEPT ![e].pc = pc] /\ UNCHANGED <<copies, failures, replies>>

\* A 2xx or 4xx ends this record and the next of the invocation is taken up; a
\* 5xx fails the invocation, and its copy comes again, unless the async queue
\* gives it up.
Replies(e, code) ==
    LET d == CHOOSE d \in hand[e].of : TRUE  rest == Tail(hand[e].left) IN
    IF code = "500"
    THEN /\ hand' = [hand EXCEPT ![e] = Served]
         /\ failures' = [failures EXCEPT ![d] = @ + 1]
         /\ copies' = [copies EXCEPT ![d] =
                         IF d.via = "direct" /\ failures[d] >= AsyncRetries THEN @ ELSE @ + 1]
         /\ UNCHANGED replies
    ELSE /\ hand' = [hand EXCEPT ![e] = IF rest = <<>> THEN Served
                                        ELSE [@ EXCEPT !.pc = "verify", !.left = rest]]
         /\ replies' = replies \cup {<<Current(e), code>>}
         /\ UNCHANGED <<copies, failures>>

Fault == faults < MaxFaults /\ faults' = faults + 1

\* dispatch: Records of Sns are handled in turn, a Function URL request by its
\* route; VerifiedSns wants the SNS header of the latter.
Receives(e, d) ==
    /\ At(e, "free") /\ copies[d] > 0
    /\ copies' = [copies EXCEPT ![d] = @ - 1]
    /\ hand' = [hand EXCEPT ![e] = [pc |-> "verify", of |-> {d}, left |-> d.items]]
    /\ UNCHANGED <<setting, certs, failures, faults, duplicates, replies, effects>>

\* VerifiedSns::verify up to the certificate: the topic, then its URL, then the
\* cached key.
Verifies(e) ==
    /\ At(e, "verify")
    /\ LET x == Current(e)  key == CacheKey(Envelope[x].cert)
           via == (CHOOSE d \in hand[e].of : TRUE).via IN
       IF ~Envelope[x].header /\ via # "direct" THEN Replies(e, StatusOfFailure("MissingSnsHeader"))
       ELSE IF Envelope[x].type = "none" THEN Replies(e, StatusOfFailure("MalformedEnvelope"))
       ELSE IF ~Allows(Envelope[x].topic) THEN Replies(e, StatusOfFailure("TopicNotAllowed"))
       ELSE IF ~ValidCertUrl(Envelope[x].cert) THEN Replies(e, StatusOfFailure("InvalidCertUrl"))
       ELSE IF key \notin certs[e] THEN Moves(e, "fetch")
       ELSE IF SignatureVerdict(x) = "verified" THEN Moves(e, "handle")
       ELSE Replies(e, StatusOfFailure(SignatureVerdict(x)))
    /\ UNCHANGED <<setting, certs, faults, duplicates, effects>>

\* Verified first, cached after.
KeepsCert(e, x) == SignatureVerdict(x) = "verified"

FetchesCert(e) ==
    /\ At(e, "fetch")
    /\ LET x == Current(e) IN
       /\ IF SignatureVerdict(x) = "verified" THEN Moves(e, "handle")
          ELSE Replies(e, StatusOfFailure(SignatureVerdict(x)))
       /\ certs' = IF KeepsCert(e, x)
                   THEN [certs EXCEPT ![e] = Inserted(@, CacheKey(Envelope[x].cert))] ELSE certs
    /\ UNCHANGED <<setting, faults, duplicates, effects>>

FetchFails(e) ==
    /\ At(e, "fetch") /\ Fault
    /\ \E why \in {"CertFetch", "CertParse", "CertValidity"} : Replies(e, StatusOfFailure(why))
    /\ UNCHANGED <<setting, certs, duplicates, effects>>

\* follow_subscribe_url
Follows(e, x) ==
    /\ subscribed' = subscribed \cup {Envelope[x].topic}
    /\ visited' = visited \cup {x}
    /\ UNCHANGED <<notices, persisted, acted, refused, optedOut, feedback, certs>>

\* confirm_subscription and handle_unsubscribe: a failed GET recruits a redelivery.
Confirms(e) ==
    /\ At(e, "handle") /\ Envelope[Current(e)].type # "Notification"
    /\ LET x == Current(e)  undo == Envelope[x].type = "UnsubscribeConfirmation" IN
       \/ /\ undo /\ ~autoResubscribe
          /\ Replies(e, "200") /\ UNCHANGED <<certs, effects, faults>>
       \/ /\ ~(undo /\ ~autoResubscribe) /\ ~ValidSnsUrl(Envelope[x].subscribe)
          /\ Replies(e, StatusOfFailure("SubscribeUrlRejected")) /\ UNCHANGED <<certs, effects, faults>>
       \/ /\ ~(undo /\ ~autoResubscribe) /\ ValidSnsUrl(Envelope[x].subscribe)
          /\ \/ /\ Follows(e, x) /\ UNCHANGED faults
                /\ IF undo THEN Moves(e, "notice") ELSE Replies(e, "200")
             \/ /\ Fault
                /\ Replies(e, StatusOfFailure("Internal")) /\ UNCHANGED <<certs, effects>>
    /\ UNCHANGED <<setting, duplicates>>

\* The notice is best effort.
Announces(e) ==
    /\ At(e, "notice")
    /\ \/ notices' = notices \cup {Current(e)} /\ UNCHANGED faults
       \/ Fault /\ UNCHANGED notices
    /\ Replies(e, "200")
    /\ UNCHANGED <<setting, certs, duplicates, subscribed, visited, persisted, acted,
                   refused, optedOut, feedback>>

\* process_notification up to the persist; SES's setup notification stops here.
IsSetup(x) == Classify(Payload[x]) = "SesInbound" /\ Payload[x].setup

PersistsNew(e) ==
    /\ At(e, "handle") /\ Envelope[Current(e)].type = "Notification"
    /\ IF IsSetup(Current(e)) THEN Replies(e, "200") /\ UNCHANGED persisted
       ELSE Moves(e, "act") /\ persisted' = persisted \cup {Current(e)}
    /\ UNCHANGED <<setting, certs, faults, duplicates, subscribed, visited, notices,
                   acted, refused, optedOut, feedback>>

\* actions::run: done, done or not and the answer lost, or refused for good.
Acts(e) ==
    /\ At(e, "act")
    /\ \/ Action(Current(e)) /\ Replies(e, "200") /\ UNCHANGED faults
       \/ Fault /\ Action(Current(e)) /\ Replies(e, StatusOfFailure("Internal"))
       \/ /\ Fault /\ Replies(e, "200")
          /\ refused' = refused \cup {Current(e)}
          /\ UNCHANGED <<subscribed, visited, notices, persisted, acted, optedOut, feedback>>
    /\ UNCHANGED <<setting, certs, duplicates>>

\* Any call fails, or the environment is killed with its certificates.
Stops(e) ==
    /\ ~At(e, "free") /\ Fault
    /\ Replies(e, StatusOfFailure("Internal"))
    /\ \E kept \in {certs[e], {}} : certs' = [certs EXCEPT ![e] = kept]
    /\ UNCHANGED <<setting, duplicates, effects>>

\* SNS delivers again what is in hand or answered; someone visits the UnsubscribeURL, and
\* SNS says so.
Duplicates(d) ==
    /\ duplicates < MaxDuplicates
    /\ (\E e \in Environments : d \in hand[e].of) \/ (\E r \in replies : r[1] = d.items[1])
    /\ copies' = [copies EXCEPT ![d] = @ + 1]
    /\ duplicates' = duplicates + 1
    /\ UNCHANGED <<setting, certs, hand, failures, faults, replies, effects>>

Cancels(d) ==
    /\ d.via = "cancel" /\ Envelope[d.items[1]].topic \in subscribed
    /\ copies[d] + failures[d] = 0 /\ \A e \in Environments : d \notin hand[e].of
    /\ \A r \in replies : r[1] # d.items[1]
    /\ subscribed' = subscribed \ {Envelope[d.items[1]].topic}
    /\ copies' = [copies EXCEPT ![d] = 1]
    /\ UNCHANGED <<setting, certs, hand, failures, faults, duplicates, replies, visited,
                   notices, persisted, acted, refused, optedOut, feedback>>

DoorStep ==
    \E e \in Environments :
       \/ \E d \in script : Receives(e, d)
       \/ Verifies(e) \/ FetchesCert(e) \/ Confirms(e) \/ Announces(e) \/ PersistsNew(e) \/ Acts(e)

DoorNext ==
    \/ DoorStep
    \/ \E e \in Environments : FetchFails(e) \/ Stops(e)
    \/ \E d \in script : Duplicates(d) \/ Cancels(d)

DoorSpec == DoorInit /\ [][DoorNext]_doorVars

DoorFairness == WF_doorVars(DoorStep)

-----------------------------------------------------------------------------
\* What the operator listed: the account, or segments that can be placed in turn.
Listed(topic) ==
    \/ allowlist = {}
    \/ \E entry \in allowlist :
          \/ entry.account # "none" /\ entry.account = topic.account
          \/ /\ entry.account = "none"
             /\ LET p == entry.glob  v == topic.arn IN
                \E at \in [1 .. Len(p) -> 0 .. Len(v)] :
                   /\ at[1] = 0 /\ at[Len(p)] + Len(p[Len(p)]) = Len(v)
                   /\ \A i \in 1 .. Len(p) : IsAt(p[i], v, at[i])
                   /\ \A i \in 1 .. Len(p) - 1 : at[i] + Len(p[i]) <= at[i + 1]

\* What the handlers read of an envelope.
FieldsUsed(x) ==
    IF Envelope[x].type = "Notification" THEN {"Message", "MessageId", "Timestamp", "TopicArn", "Type"}
    ELSE {"SubscribeURL", "Timestamp", "TopicArn", "Type"}

\* extractor.rs, "no handler can see an unverified message", checked before the
\* signature "only because TopicArn is part of the signed canonical string": a URL
\* is visited and an event stored only for a topic the operator listed, and on
\* nothing but field values SNS signed.
ActsOnSignedFields ==
    \A x \in visited \cup persisted \cup notices :
       Listed(Envelope[x].topic) /\ Envelope[x].altered \cap FieldsUsed(x) = {}

\* verify, "caching before verification would let bad-signature envelopes fill the
\* cache and flush the live entry": only URLs that an envelope SNS signed named
\* are ever cached, whatever was delivered before.
OnlyProvenCertsKept ==
    \A e \in Environments :
       certs[e] \subseteq {CacheKey(Envelope[x].cert) :
                            x \in {y \in Sent(script) : Envelope[y].altered \cap SignedFields(y) = {}}}

\* Whatever comes to the door, the service acts on, and remembers, only what SNS
\* signed.
ActsOnSigned == ActsOnSignedFields /\ OnlyProvenCertsKept

\* verification_status, "so a correctly-signed message survives a cold-start
\* network blip": what SNS sends for a listed topic is never answered 4xx, which
\* SNS would take as final.
GenuineNeverRefused ==
    \A r \in replies : Genuine(r[1]) /\ Listed(Envelope[r[1]].topic) => r[2] = "200"

\* process_notification, "preserving at-least-once for the action even if a prior
\* attempt persisted but died before acting": a notification answered 2xx is
\* stored and its own family's action has run, unless it was refused for good or
\* was SES's setup notification.
AnsweredMeansDone ==
    \A r \in replies :
       LET x == r[1] IN
       r[2] = "200" /\ Envelope[x].type = "Notification" /\ ~Payload[x].setup /\ x \notin refused
          => x \in persisted /\ <<Payload[x].is, x>> \in acted

\* The answers SNS gets are final only when they may be: a 4xx for what is not
\* genuine, a 2xx for what is done.
AnswersAreFinal == GenuineNeverRefused /\ AnsweredMeansDone

\* actions.rs, "AWS-native services ... are the source of truth": a number is on
\* the opt-out list only if it asked to be, and is there once it did and asked for
\* nothing else; a message's feedback is what a final receipt of it said.
SmsFollowsSender ==
    LET asked(n, what) == {x \in persisted : Payload[x].number = n /\ Payload[x].asks = what}
        done(x) == <<x, "200">> \in replies /\ x \notin refused IN
    /\ \A n \in optedOut : asked(n, "OptOut") # {}
    /\ \A x \in persisted : LET n == Payload[x].number IN
          OptOutList /\ Payload[x].asks = "OptOut" /\ done(x) /\ asked(n, "OptIn") = {} => n \in optedOut
    /\ \A msg \in Tracked : feedback[msg] # "none" =>
          \E x \in persisted : /\ Payload[x].message = msg /\ Payload[x].final
                               /\ (feedback[msg] = "Received") = Payload[x].delivered

\* handle_unsubscribe, "by default we immediately re-subscribe", and
\* get_subscribe_url, "a 5xx, so SNS redelivers the confirmation": a cancelled or
\* unconfirmed subscription of a listed topic is confirmed in the end, although
\* visits fail and environments die.
EventuallySubscribed ==
    []<>(\A x \in Sent(script) : Genuine(x) /\ autoResubscribe /\ Listed(Envelope[x].topic)
            => Envelope[x].topic \in subscribed)
==============================================================================
