----------------------------- MODULE SendEnqueue -----------------------------
(***************************************************************************)
(* How the API queues a send: Idempotency-Key lookup, uploads under        *)
(* outbox/, one transaction for message, send state and key, and the       *)
(* reclaiming of the uploads when that transaction is not known to have    *)
(* committed (enqueue in crates/webhook/src/api/send/mod.rs over           *)
(* idempotency.rs, spec.rs and enqueue_send of                             *)
(* crates/mailbox-store/src/mailbox.rs).                                   *)
(*                                                                         *)
(* Concurrent requests, some of them sharing one Idempotency-Key, are      *)
(* modelled; each mints its own message id, so a request names its         *)
(* message.  A step is one call to the table or the bucket.  Seconds are   *)
(* counted by `now`; DynamoDB reaps an expired key row at any later time.  *)
(* A transaction may fail without effect, or commit and lose its answer:   *)
(* the request is then told of an error, or of TransactionInProgress, and  *)
(* in the second case runs it again as a new transaction.                  *)
(***************************************************************************)
EXTENDS Naturals, FiniteSets

CONSTANTS
    Requests,       \* requests to send; also the message ids they mint
    Keyed,          \* those that carry the Idempotency-Key
    Body,           \* what each request asks for, as its fingerprint
    KeyTtl,         \* KEY_TTL_SECONDS
    Timeout,        \* the API function's timeout
    MaxTime,        \* bound on the clock
    MaxTxnRetries,  \* MAX_TXN_RETRIES
    LostAnswers     \* how a commit's answer may get lost

ASSUME RequestsAssumption == Keyed \subseteq Requests

ASSUME TimesAssumption ==
    /\ KeyTtl \in Nat \ {0} /\ Timeout \in Nat /\ MaxTime \in Nat /\ MaxTxnRetries \in Nat
    /\ 2 * Timeout <= KeyTtl

ASSUME LostAnswersAssumption == LostAnswers \subseteq {"error", "inProgress"}

\* outbox/<message_id>/: the spec and its inline parts.
Objects == {"spec", "parts"}

VARIABLES
    now,        \* epoch seconds
    key,        \* the SENDKEY row
    committed,  \* the messages whose send state, message and thread were written
    settled,    \* those of them that the sender has finished with
    bucket,     \* the outbox objects of each message
    req,        \* where each request is
    leaky       \* requests that were killed or could not delete an object

vars == <<now, key, committed, settled, bucket, req, leaky>>

NoKey == [msg |-> {}, hash |-> {}, expires |-> 0]
NoAnswer == [code |-> "none", msg |-> {}]

PC == {"start", "uploadParts", "uploadSpec", "storeContent", "committing",
       "discardSpec", "discardParts", "replaying", "done"}

\* at: now_ms as the request read it; tries: transactions attempted; why: what
\* the uploads are being discarded for; answer: the HTTP response.
Started == [pc |-> "start", at |-> 0, tries |-> 0, why |-> "none", answer |-> NoAnswer]

Init ==
    /\ now = 0
    /\ key = NoKey
    /\ committed = {}
    /\ settled = {}
    /\ bucket = [r \in Requests |-> {}]
    /\ req = [r \in Requests |-> Started]
    /\ leaky = {}

-----------------------------------------------------------------------------
\* Plausible slips, used to show that the checks notice.

LookupIgnoresHash(r) ==
    IF key # NoKey /\ key.expires >= now
    THEN [code |-> "ok", msg |-> key.msg]
    ELSE NoAnswer

KeyRowReplaced(r) == TRUE

FailsKeepingUploads(r) ==
    req' = [req EXCEPT ![r].pc = "done", ![r].answer = [code |-> "error", msg |-> {}]]


CommitBeforeSpec(r) == req[r].pc \in {"uploadSpec", "committing"}

-----------------------------------------------------------------------------
Goes(r, pc) == req' = [req EXCEPT ![r].pc = pc]

Answers(r, answer) == req' = [req EXCEPT ![r].pc = "done", ![r].answer = answer]

Accepted(m) == [code |-> "ok", msg |-> m]
Conflict == [code |-> "409", msg |-> {}]
Error == [code |-> "error", msg |-> {}]

\* discard_and_fail: reclaim the uploads, then fail.
DiscardAndFail(r) == req' = [req EXCEPT ![r].pc = "discardSpec", ![r].why = "error"]

\* replay_key: what a live key answers, if there is one.  An expired row counts
\* as absent.
ReplayKey(r) ==
    CASE key = NoKey \/ key.expires < now -> NoAnswer
      [] key # NoKey /\ key.expires >= now /\ key.hash = Body[r] -> Accepted(key.msg)
      [] OTHER -> Conflict

-----------------------------------------------------------------------------
\* enqueue, up to the commit.

\* Validation, the inbox lookup and a failed read end the request early.
Refuses(r) ==
    /\ req[r].pc = "start"
    /\ Answers(r, Error)
    /\ UNCHANGED <<now, key, committed, settled, bucket, leaky>>

Looks(r) ==
    /\ req[r].pc = "start"
    /\ LET answer == IF r \in Keyed THEN ReplayKey(r) ELSE NoAnswer IN
       req' = [req EXCEPT ![r].pc = IF answer = NoAnswer THEN "uploadParts" ELSE "done",
                          ![r].at = now, ![r].answer = answer]
    /\ UNCHANGED <<now, key, committed, settled, bucket, leaky>>

\* upload_spec: every inline part, then the spec.  A put that reports a failure
\* may have landed.
Uploads(r, pc, object, next) ==
    /\ req[r].pc = pc
    /\ \/ /\ bucket' = [bucket EXCEPT ![r] = @ \cup {object}]
          /\ Goes(r, next) \/ DiscardAndFail(r)
       \/ DiscardAndFail(r) /\ UNCHANGED bucket
    /\ UNCHANGED <<now, key, committed, settled, leaky>>

UploadsParts(r) == Uploads(r, "uploadParts", "parts", "uploadSpec")
UploadsSpec(r) == Uploads(r, "uploadSpec", "spec", "storeContent")

\* content::store, under messages/, whose objects expire by themselves.
StoresContent(r) ==
    /\ req[r].pc = "storeContent"
    /\ Goes(r, "committing") \/ DiscardAndFail(r)
    /\ UNCHANGED <<now, key, committed, settled, bucket, leaky>>

-----------------------------------------------------------------------------
\* enqueue_send.

MayCommit(r) == req[r].pc = "committing"

\* plan_enqueue: the key row is new or expired, by the request's own reading of
\* the clock.
KeyFree(r) == r \in Keyed => key = NoKey \/ key.expires < req[r].at

CommitHolds(r) == KeyFree(r) /\ r \notin committed

CommitWrites(r) ==
    /\ CommitHolds(r)
    /\ committed' = committed \cup {r}
    /\ key' = IF r \in Keyed
              THEN [msg |-> r, hash |-> Body[r], expires |-> req[r].at + KeyTtl]
              ELSE key

Retries(r) ==
    IF req[r].tries < MaxTxnRetries
    THEN req' = [req EXCEPT ![r].tries = @ + 1]
    ELSE DiscardAndFail(r)

Commits(r) ==
    /\ MayCommit(r)
    /\ CommitWrites(r)
    /\ Answers(r, Accepted(r))
    /\ UNCHANGED <<now, settled, bucket, leaky>>

CommitsUnseen(r) ==
    /\ MayCommit(r)
    /\ CommitWrites(r)
    /\ \/ "error" \in LostAnswers /\ DiscardAndFail(r)
       \/ "inProgress" \in LostAnswers /\ Retries(r)
    /\ UNCHANGED <<now, settled, bucket, leaky>>

\* Throttled, or a concurrent writer of the thread, or the Message-ID alias:
\* nothing is written and the flow tries again.
CommitCancelled(r) ==
    /\ MayCommit(r)
    /\ Retries(r)
    /\ UNCHANGED <<now, key, committed, settled, bucket, leaky>>

CommitErrs(r) ==
    /\ MayCommit(r)
    /\ DiscardAndFail(r)
    /\ UNCHANGED <<now, key, committed, settled, bucket, leaky>>

\* decode_cancellation: KeyExists before Duplicate.
CommitFindsKey(r) ==
    /\ MayCommit(r)
    /\ ~KeyFree(r)
    /\ req' = [req EXCEPT ![r].pc = "discardSpec", ![r].why = "keyExists"]
    /\ UNCHANGED <<now, key, committed, settled, bucket, leaky>>

AlreadyQueued(r) ==
    /\ MayCommit(r)
    /\ KeyFree(r)
    /\ r \in committed
    /\ Answers(r, Accepted(r))
    /\ UNCHANGED <<now, key, committed, settled, bucket, leaky>>

-----------------------------------------------------------------------------
\* discard_uploads: the spec, then the parts, best effort.

Discards(r, pc, object, next) ==
    /\ req[r].pc = pc
    /\ req' = next
    /\ \/ bucket' = [bucket EXCEPT ![r] = @ \ {object}] /\ UNCHANGED leaky
       \/ leaky' = leaky \cup {r} /\ UNCHANGED bucket
    /\ UNCHANGED <<now, key, committed, settled>>

DiscardsSpec(r) ==
    Discards(r, "discardSpec", "spec", [req EXCEPT ![r].pc = "discardParts"])

DiscardsParts(r) ==
    Discards(r, "discardParts", "parts",
             IF req[r].why = "keyExists"
             THEN [req EXCEPT ![r].pc = "replaying"]
             ELSE [req EXCEPT ![r].pc = "done", ![r].answer = Error])

\* After KeyExists the answer is the key's; one that expired meanwhile is a 409.
Replays(r) ==
    /\ req[r].pc = "replaying"
    /\ \/ Answers(r, IF ReplayKey(r) = NoAnswer THEN Conflict ELSE ReplayKey(r))
       \/ Answers(r, Error)
    /\ UNCHANGED <<now, key, committed, settled, bucket, leaky>>

-----------------------------------------------------------------------------
\* The surroundings.

\* The function is killed, or the client goes away.
Killed(r) ==
    /\ req[r].pc \notin {"start", "done"}
    /\ Answers(r, NoAnswer)
    /\ leaky' = leaky \cup {r}
    /\ UNCHANGED <<now, key, committed, settled, bucket>>

\* The sender settles a committed send, as sent when all of its objects are
\* there and as failed otherwise, and clears them (SendOutbox).
SenderSettles(r) ==
    /\ r \in committed \ settled
    /\ settled' = settled \cup {r}
    /\ bucket' = [bucket EXCEPT ![r] = {}]
    /\ UNCHANGED <<now, key, committed, req, leaky>>

Running(r) == req[r].pc \notin {"start", "done"}

\* A request that has used up its function's timeout does not see the clock
\* move.
Tick ==
    /\ now < MaxTime
    /\ \A r \in Requests : Running(r) => now < req[r].at + Timeout
    /\ now' = now + 1
    /\ UNCHANGED <<key, committed, settled, bucket, req, leaky>>

\* DynamoDB's TTL.
Reaps ==
    /\ key # NoKey
    /\ key.expires < now
    /\ key' = NoKey
    /\ UNCHANGED <<now, committed, settled, bucket, req, leaky>>

Step(r) ==
    \/ Refuses(r)
    \/ Looks(r)
    \/ UploadsParts(r)
    \/ UploadsSpec(r)
    \/ StoresContent(r)
    \/ Commits(r)
    \/ CommitsUnseen(r)
    \/ CommitCancelled(r)
    \/ CommitErrs(r)
    \/ CommitFindsKey(r)
    \/ AlreadyQueued(r)
    \/ DiscardsSpec(r)
    \/ DiscardsParts(r)
    \/ Replays(r)
    \/ Killed(r)
    \/ SenderSettles(r)

Next ==
    \/ \E r \in Requests : Step(r)
    \/ Tick
    \/ Reaps

Spec == Init /\ [][Next]_vars

-----------------------------------------------------------------------------
Bodies == {Body[r] : r \in Requests}

\* "Same key, same request: returns the original ids" (docs/mailbox/api.md):
\* however requests race, are retried, or find the row half expired, two sends
\* committed under one key belong to different lifetimes of the key.
OneSendPerKeyLifetime ==
    \A r1, r2 \in committed \cap Keyed :
       r1 # r2 => \/ req[r1].at > req[r2].at + KeyTtl
                  \/ req[r2].at > req[r1].at + KeyTtl

\* "Same key, any difference: 409": an accepted request is answered with a
\* committed message that asks for exactly what it asked for, and without a key
\* with its own message.
AnswersAreTrue ==
    \A r \in Requests :
       LET answer == req[r].answer IN
       answer.code = "ok" =>
          /\ answer.msg \in committed
          /\ Body[answer.msg] = Body[r]
          /\ answer.msg # r => {r, answer.msg} \subseteq Keyed /\ r \notin committed

\* The uploads precede the commit: the sender can build a committed send, until
\* the sender itself clears it or the request starts to discard it.
QueuedSendsCanBeBuilt ==
    \A r \in committed \ settled :
       req[r].why = "none" => bucket[r] = Objects

\* Nothing under outbox/ expires: a request that ends, without having queued its
\* message or having been killed, and whose deletes worked, leaves nothing there.
NoOrphanUploads ==
    \A r \in Requests :
       req[r].pc = "done" /\ r \notin committed \cup leaky => bucket[r] = {}

\* Uploads and queued sends keep together: both of the above.
UploadsFollowSends == QueuedSendsCanBeBuilt /\ NoOrphanUploads

\* api/send/mod.rs:178, "Another request committed under the same key between
\* the read above and this commit: [...] drop what this one uploaded": a
\* KeyExists is never the request's own commit, so nothing queued is dropped.
KeyExistsMeansAnotherRequest ==
    \A r \in Requests : req[r].why = "keyExists" => r \notin committed
==============================================================================
