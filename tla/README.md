# Verification of aws-messaging-webhook

TLA+ specifications of this service: sending mail, from the request to the
document SES is given; threading, labelling and listing it; receiving it, from
the SNS envelope to the stored message; following SES events; relaying what
happened to the event bus; caching API keys. TLC checks small instances of every
module. TLAPS proves their safety for all instances: the outbox, the enqueue, the
parts and the addressing of a send or reply, the threading and labelling of mail,
its lists, the door, ingest, the intake of SES events, their relay, the relay of
mail events and the key cache. One safety property, how a writer decides what a
cancelled transaction means, and all liveness are only model-checked.

## The system

One binary runs as two Lambda functions around two DynamoDB tables, one bucket
and an event bus.

| Part | State | Operations | Talks to |
|---|---|---|---|
| SNS door (`entry.rs`, `sns`, `sns-message-verifier`, `allowlist.rs`) | certificate cache per environment | verify, confirm, re-subscribe, classify, persist, act, answer | SNS, HTTP, events table |
| Send API (`api/send`) | none of its own | send, reply: addressing, validation, key lookup, uploads, one transaction, discard | mail table, bucket |
| Mailbox store (`mailbox-store`) | message, thread, alias, send-state, key and SES-reference items; two indexes | `insert_message`, `enqueue_send`, `claim_send`, `note_ses_call`, `mark_send`, `update_labels`, lists | DynamoDB transactions with conditions |
| Sender (`mail/sender.rs`, `fetch.rs`) | the send-state item, parts in the outbox | stream handler, sweep, operator commands, loading and building | mail table stream, bucket, the web, SES |
| Ingest (`mail/ingest.rs`, `mime.rs`) | objects and items of inbound mail | resolve, resume, parse, store, insert | bucket, mail table |
| SES event intake (`sns`, `events_table.rs`, `actions.rs`) | event items, aggregate status and counters | persist, transition, label, suppress | events table, mail table, SES |
| SMS actions (`actions.rs`, `aws/sms.rs`) | the opt-out list, message feedback | opt out, opt in, feedback | SMS service |
| Relay (`stream.rs`, `publish.rs`, `mail/events.rs`) | none; the mapping's checkpoint | build, cut to size, publish | both tables' streams, bucket, EventBridge |
| Read API (`api/read.rs`, `pagination.rs`) | none; the page token | lists with filters and windows | indexes |
| Key cache (`api/keys.rs`) | hashes, load time, last miss | verify | SSM |

What interacts: the API's transaction puts a send-state item into the mail
table, whose stream wakes the sender; the sender's mark moves the message's
label and records the SES id, by which SES events later find the message; SNS
delivers SES events, inbound mail and SMS at least once to the first function,
which verifies, persists and acts; both tables' streams wake the relay; a reply
is addressed from what ingest stored of the mail it answers.

What is hard here: several invocations work on the same item (redelivery, sweep,
operator, API) and are kept apart only by conditions on versions; any call may
fail, fail after taking effect, or never return; invocations are killed; streams
repeat and give up; indexes lag; caches are read without a lock across an await;
names resolve anew; sizes meet caps. Those cases are listed as hazards in
`PROJECT.json`, each at its line.

## Modules

| Module | Models | State | One action per |
|---|---|---|---|
| `SendState` | `mailbox/src/send.rs` | none (operators on the item) | |
| `SendContract` | what the outbox promises (abstract) | phase, resends, accepted | promise |
| `SendOutbox`, `SendOutboxProofs` | `mail/sender.rs` over claim, note and mark | the send's item, its record, its objects, the actors, what SES accepted | call to table, bucket or SES, and how it can go |
| `SendEnqueue`, `SendEnqueueProofs` | `api/send`: enqueue, idempotency, uploads | clock, key row, commits, bucket, requests | call to table or bucket |
| `SendRequests` | `validate.rs`, `reply.rs`, `spec.rs`, `labels.rs`, `address.rs`, `url_policy.rs`, `build.rs`, `content.rs` | none (operators) | |
| `MailParse` | `mime.rs`, the guards and labels of `ingest.rs` | none (operators) | |
| `SendParts`, `SendPartsProofs` | one send from the request, or the mail it answers, to SES: `load_parts`, `fetch.rs`, `aws/objects.rs` | the request, the spec, parts stored and late, attempts, documents sent, hosts reached | call to bucket, resolver, web or SES |
| `MailThreads`, `MailThreadsProofs` | the four writers of messages, threads and aliases | messages, threads, aliases, sends, calls | read or transaction outcome |
| `MailTable` | keys, indexes, conditions, plans, cancellation reasons (`plan.rs`, `txn.rs`, `dynamo_table.rs`, `memory.rs`) | none (operators on a table) | |
| `MailWrites` | `mailbox.rs` over `MailTable` | the table, the writers' calls | read, batch read, attempt, expiry |
| `MailReads`, `MailReadsProofs` | `read.rs` and `pagination.rs` beside `MailWrites` | the lagging index, the client's walk | request, query, page |
| `SnsDoor`, `InboundProofs` | `entry.rs`, `sns`, the verifier, classification, SMS actions, `error.rs` | invocations per environment, certificates, subscriptions, what was persisted and done, answers | verification, fetch, visit, persist, action, answer |
| `Ingest`, `InboundProofs` | `mail/ingest.rs` | inbox, parts, document, item, attempts, answers | call to bucket or table |
| `EventIntake`, `RelayProofs` | the SES branch of `process_notification` | events, status, opens, workers, labels, suppressions | AWS call |
| `EventRelay`, `RelayProofs` | `stream.rs` for the events table, composed with `EventIntake` | checkpoint, relay, tries, bus, dead letters | publish or lookup outcome |
| `MailRelay`, `RelayProofs` | `stream.rs` for the mail table, `mail/events.rs`, `publish.rs` | items, documents, stream, record in hand, entries | read, publish and how it can go |
| `KeyCache`, `KeyCacheProofs` | `api/keys.rs` | clock, document, cache, requests | critical section or fetch |

`MC*` modules give the constants values; four of them hold two modules side by
side that share no state (`MCSendEnqueue`: `SendEnqueue` and `SendParts`;
`MCEventIntake`: `EventIntake` and `KeyCache`; `MCEventRelay`: `EventRelay` and
`MailRelay`; `MCIngest`: `Ingest` and `SnsDoor`). There a behaviour picks one
`side` at the start and the other sleeps, so the run checks each by itself.

Conventions: the arms of a `CASE` exclude each other, and where the code's order
of tests decides, the model has a chain of `IF`s; a read that only conditions the next write is a step of its own; a
transaction is one step with its conditions taken from the plan, which is a set
of writes, one per key; "commits
unseen" actions are commits whose answer is lost; a kill is possible between any
two steps. Payloads, addresses and texts are names or records of what the rules
tell apart; sizes are small numbers beside caps of the same scale; timestamps
are kept as far as the code compares them. A `*Proofs` module holds the
inductive invariant of its component, the lemmas and the theorems; `InboundProofs`
does so for `SnsDoor` and `Ingest`, `RelayProofs` for `EventIntake`, `EventRelay`
and `MailRelay`, `MailReadsProofs` for `MailReads` over `MailWrites`.

How the modules meet. `SendOutbox` follows one send, since sends share nothing
but their thread. `SendEnqueue` ends where `SendOutbox` begins (`committed`,
`SenderSettles`). `SendParts` looks inside the load step of `SendOutbox` and
leaves to it who may call SES (`claim`). `MailThreads` and `MailWrites` are two
views of the same flows: the first has every read as a step and more messages,
the second the real plans, conditions, reasons and expiry. `EventIntake` knows of
the sender only that it records the SES id at some time (`SenderMarks`).
`EventRelay` extends `EventIntake` and shares its stream. `SnsDoor` takes a
persist and an action as single steps; `EventIntake` and `Ingest` take them apart.

Simplifications that bound what the results say:

- `SendFailure` causes the sender treats alike are merged.
- Time is explicit only in `SendEnqueue` (key expiry) and `KeyCache`. In
  `SendOutbox` a claim may look stale when no live sender holds it, or at any
  time with `SlowSenders = TRUE`, which stands for skewed clocks.
- `MailThreads` has no expiry of items; `MailWrites` has.
- `Ingest` has one recipient inbox, the configured one, as the code does.
- RSA, X.509, base64, JSON and the MIME grammar are external: a signature holds
  over the fields it was made from, a document is what the library returns.
- `MailRelay` counts field sizes, not bytes of JSON.
- The mapping of `EventRelay` bisects by giving up on any prefix of a batch.

## Runs

Deadlock is not checked where the system rests when its work is done
(`CHECK_DEADLOCK FALSE`).

| Run | Instance | Shows |
|---|---|---|
| `outbox_races` | 2 senders, sweep, operator, 2 hand-backs, 1 dead letter, slow senders (1.7 M states) | at most once; nothing open or failed is held by SES; outbox kept; no lost wake-up |
| `outbox_resend` | 2 senders, 1 resend, slow senders (0.24 M states) | an SES id is only recorded for what SES accepted; `SendContract` is implemented |
| `outbox_live` | 2 senders, 1 hand-back, 1 dead letter (41 k states) | every send settles or waits for the operator |
| `enqueue` | two requests for one key over two key lifetimes, two bodies for one key beside a request without one; and sends and replies of every kind, 2 attempts, changing names and bytes (1.8 M states) | one send per key lifetime, true answers, uploads follow sends; replies reach whom the mail named, nothing of a mail is lost, the documents are what the service says and the same for every attempt, connections stay public |
| `enqueue_owncommit` | one request | finding 1 |
| `threads` | six groups of three or four racing calls (52 k states) | roll-ups with the newest message, caps, status label, conversations |
| `threads_lateparent` | a parent and a reply | finding 2 |
| `events` | six notifications, three mixes of deliveries, 2 workers; and 2 requests, 2 keys, 1 rotation, 6 ticks (3.6 M states) | status converges and opens count once, suppressed before 2xx; keys are judged by a recent document and never denied for an outage, reads are spaced |
| `events_early` | one bounce | finding 3 |
| `relay` | two notifications, batches of up to 4, 2 tries, 1 fault; and five scripts of mail writes of all sizes, 3 faults (1.3 M states) | no silent loss, repeats need a fault, consumers settle, everything is announced or dead-lettered; entries fit and lose no more than needed, what happened is announced exactly, ids tell happenings apart |
| `ingest` | 3 overlapping deliveries, 3 parts, 2 at a time; and eight groups of SNS messages, 2 environments, five allowlists, 2 faults (0.28 M states) | items have their objects, answers are true, redelivery ends; only signed fields of listed topics act, answers are final only when they may be, SMS state follows its senders, subscriptions are restored |
| `reads` | racing inserts, sends, marks and patches; walks of every list with filters and windows beside writers (45 k states) | cancellations are decided truly; lists miss and repeat nothing, show what was asked for, refuse foreign tokens; the sweep sees every unsettled send; walks end |

Why the bounds suffice for the questions asked: a race for one item needs two
contenders and one bystander; a hand-back budget of two or three passes through
release, release after release, and the last failure; two key lifetimes with
`2 * Timeout <= KeyTtl` contain every order of read, expiry, reaping and commit
(the real values are 90 s and 24 h); one retry of a transaction distinguishes
the first plan from a replan; three parts in chunks of two give a full and a
partial chunk; one fault lets a record be published twice; the two
status changes of a send are the second and the fifth record of its stream, so a
batch of four holds both, and when its invocation fails or dies having published
the second, the old status is announced again after the newer one; a cache of one
certificate is full and flushed at once; a page limit of two with two queries to
fill it has short pages, overshoot and a walk that resumes; every cap of
`SendRequests`, `MailParse` and `MailRelay` is small enough for an input below,
at and above it (a list of addresses holds three, the header budget is met by
headers of one and of three, a document sheds none, some or all of its fields).
`MaxResends`, `MaxDeadLetters`, `MaxTime`, `MaxTxnRetries`,
`MaxFaults`, `MaxBusFaults`, `MaxDuplicates`, `MaxCalls`, `MaxExpired`,
`MaxTries`, `MaxChanges` and `Deliveries` bound what would be unbounded.

Runs start from several initial states (groups of calls, scripts of writes or
deliveries, requests), each one the program reaches by calls that came before.

Every property of a passing run has at least one mutant in `PROJECT.json`: a slip
in one operator, kept in the module under "Plausible slips", under which the run
finds the property violated. A property that joins several claims has a mutant
for the claims that differ in kind.

### Fairness

- `SendOutbox!FairSpec`: the mapping delivers, an invocation takes its next step
  (weak fairness per actor), the sweep is on a schedule; a claim or the sweep's
  mark tried again and again succeeds in the end (strong fairness: DynamoDB is
  not unavailable for ever). Nothing is assumed of SES or of the operator.
- `EventRelay!FairRelaySpec`: Lambda keeps invoking the relay while records are
  left. Publishes may fail every time: then the record is dead-lettered.
- `Ingest!FairSpec`: SNS redelivers until it is answered, an attempt ends within
  its budget, and transient faults end.
- `SnsDoor!DoorFairness`: SNS delivers what is unanswered and an invocation goes
  on; failures are bounded by `MaxFaults`.
- `MailReads!ReadSpec`: the client asks for its next page and the request goes on
  (`ReadStep`). Writers and index propagation need not move.

## Findings

1. `enqueue_owncommit`. `TransactionInProgressException` is mapped to a retry
   (`dynamo_table.rs`), which runs as a new transaction. If the first attempt
   committed, the retry meets its own key row, which `decode_cancellation`
   reports as `KeyExists` before it looks for a duplicate; `enqueue` takes that
   for another request, deletes the uploads of the send it has queued, and
   answers 200 with its id. The sender then fails the send
   (`send_spec_missing`).
2. `threads_lateparent`. A parent that looks up its aliases before its reply
   commits, and commits after it, replaces the reply's placeholder without
   losing any condition, so parent and reply end in different threads. The
   design document says they share one.
3. `events_early`. An SES event that is handled before `mark_send` has recorded
   the SES id finds no message, is answered 2xx and is not repeated; the tag
   put on the send for that case is not read anywhere.

Noted on the way, without a run:

- an enqueue whose commit is reported as an error discards its uploads in the
  same way, so a send the client was told had failed is queued and then fails
  (`CommitsUnseen` with `"error"`);
- a send whose record is dead-lettered stays queued: the sweep lists only
  `sending`, and the runbook leaves the rest to the operator;
- an attempt that fetched a part while another's put landed sends the bytes it
  fetched, not the ones stored (`raced` in `EveryAttemptSendsTheSame`);
- `hand_back` fails a send at its fifth transient failure, after four
  hand-backs, where the design document counts five;
- a key added within 30 seconds of another miss is denied until the floor has
  passed, where the design document says it works at once;
- a reply without a subject to a mail whose subject fills the cap is refused:
  `reply_subject` puts "Re: " in front and `validate` finds it too long;
- a plain reply to a mail that names more than fifty people to answer to is
  refused: ingest keeps a hundred Reply-To addresses, a send takes fifty
  recipients;
- a plain reply is refused with 400 when an address it is derived from (the
  author's, a Reply-To, or a recipient of one's own mail) has a non-ASCII local
  part, or is no email address or SMTP mailbox: ingest stores such a participant,
  `envelope_address` does not take it for a destination;
- a `content_id` of a part that is not inline is accepted and checked against the
  others, and the document does not show it;
- a reply to a mail without a Message-ID has an empty In-Reply-To; a
  participant whose bare address is over the cap is stored cut;
- the comments of `get_raw` and `get_attachment` promise NotFound for a missing
  object; `presign_get` signs a URL without looking.

## Proofs

Each `*Proofs` module states one inductive invariant, proves that it holds in
every behaviour of the specification (the theorem `...IsSafe`, `Safety` for the
outbox), and derives the properties the runs check. They hold for every value of
the constants that meets the assumptions named in the component's module; TLC
checked each inductive invariant on the run of its component first.

| Module | Theorems (property of a run) | For any | Assumed of the constants |
|---|---|---|---|
| `SendOutboxProofs` | `TypeCorrect`, `AtMostOnce`, `OpenOrFailedIsNotHeld`, `SesIdIsTrue`, `OutboxKept`, `WakeupKept`; `MessageFollows`; the action properties `SettledForGood` and `UnknownIsTheOperators`; `Refinement` of `SendContract` | senders, hand-back budget, bounds, slow or punctual senders | actors distinct, bounds natural |
| `SendEnqueueProofs` | `OneSendPerLifetime`, `AnswersStayTrue`, `UploadsFollow` | requests, bodies, times | `2 * Timeout <= KeyTtl`, `KeyTtl` not 0 |
| `MailThreadsProofs` | `RollUpsStayTrue`, `LabelCapsHold`, `LabelsFollowSends`, `ConversationsStayWhole` | mail, calls, caps, retries | what ingest, `validate` and `apply_delivery_label` let a call ask for; user labels are not system labels and finitely many (`LABEL_MAX_BYTES`) |
| `MailReadsProofs` | `ListsAreComplete`, `ListsAreAsAsked` | mail, calls of any writers, lists, query strings, tokens, page and fill limits, lag, faults | an id is not a bare millisecond (a UUIDv7 has random bits) and threads are told apart within one; a scenario starts with items under their own keys; calls and requests have the code's shapes; limits are at least one |
| `SendPartsProofs` | `RepliesAreRight`, `MailIsKept`, `MailSaysWhatWasAsked`, `RetriesSendTheSame`, `FetchesArePublic` | requests, received and sent mail, names and what they resolve to, hosts and what they answer, bytes, attempts, caps | caps natural, those of recipients and addresses not 0, of references above 1; a request has the fields and types of its JSON, a mail those of the parser's result and of its parts, which are told apart by their bytes; what was sent had passed the rules; URLs and resolvers give addresses |
| `InboundProofs` (ingest) | `StoredIsWhole` | parts, chunk size, overlapping attempts | a chunk holds at least one part |
| `RelayProofs` (intake) | `StatusAlwaysConverges`, `AnsweredAreSuppressed`; the action property `StatusNeverRegresses` | notifications, workers, deliveries | each of one of the code's kinds |
| `RelayProofs` (relay) | `RelaysFaithfully`, `ConsumersSettle` | notifications, batch sizes, tries, faults | the same; a batch and a record's tries are at least one |
| `RelayProofs` (mail) | `AnnouncesWhatHappened`, `IdsAreTheHappenings`, `EveryDetailFits` | mail and sizes, scripts of writes and events, retries, faults | what a detail must hold fits beside the pointer (the field caps of `mail/events.rs` and `publish.rs` see to it); no mail is inserted as sent; writes come as the table's conditions let them: a message is inserted once and first, a notification claimed once, system labels stay the system's (`labels.rs`) |
| `InboundProofs` (door) | `AllowsTheListed` (the wildcard match is exact); `ActsOnWhatSnsSigned`, `FinalAnswersAreRight`, `OptOutsFollowSenders` | messages, deliveries, environments, allowlists, bounds | what SNS makes passes its own rules; payloads of two families share a shape only where `classify` says so; a text asks for what `keyword_intent` reads in it |
| `KeyCacheProofs` | `JudgedFairly`; the action property `FetchesStaySpaced` | keys, documents, requests, intervals | intervals natural, backoff below the refresh interval |

The arguments, and why the properties alone are not inductive:

- **Outbox.** "At most once" says nothing of the sender about to call SES.
  `SafetyInv` adds what an actor's image is worth (`WorkFits`): it is no newer
  than the item, an image of the current version *is* the item, a sender that
  holds a claim has the version its claim or note wrote, and one that is about
  to call has noted it. `CallersAreAlone` then says that at most one sender of an
  authorisation is between its note and its answer, and that SES has not
  accepted under that authorisation. `ItemFits` ties the item's status to the
  acceptances. Writes go through the version, so an actor whose image is old
  cannot write, and one whose image is current has nobody calling beside it
  unless `ses_call_at` says so, in which case sweep and sender may only mark it
  unknown.
- **Enqueue.** The row of a key expires while requests for it are under way.
  `Apart` relates each request under way to each send committed under the key:
  the send's row had expired when the request looked, or it outlasts the
  request's life. It holds because a request lives at most `Timeout` (`Clock`)
  and a row twice that. `Stage` and `Stored` say, step by step of a request,
  what it may have committed and which of its uploads are there.
- **Parts.** What an attempt has loaded is what the outbox holds, unless another
  was faster (`raced`); what it fetches was missing, over a URL that passed the
  rules at every hop; the addresses it pinned are public, and what it has fits
  the message (`AttemptOK`, `CallOK`). Two documents of one send are then the same
  function of the same parts. What a document says is read off its construction:
  its fields are four pieces in a row, none of which can name a field of
  another, and its parts a tree of at most four levels.
- **Replies.** The original no longer changes once a request is answered, and the
  answer is the one for what was read, all of the document or nothing of it
  (`AnswerInv`). The rest is about the two transformations a mail goes through,
  parsed and stored, then read and answered. A stored address reads back as the
  mailbox it was written for, quoted or not (`ReadEntries`). Recipients are compared
  as sets of boxes: one case for the answer to one's own message, one for that to
  another's, and `reply_all` adds the rest. A plain answer breaks no rule but
  those on the subject's length and the number of people. Where the code adds up
  sizes and cuts a list where they reach a cap, the proof takes the least place at
  which the claim would fail, instead of an induction along the list.
- **Threads.** What a call has read is what the table holds as long as the
  versions agree (`ReadsFit`), and a call on a message works on that message's
  thread (`WorksOnMessage`). So whatever commits is planned from what is stored,
  and the four writers reduce to three facts of `thread.rs` about any thread and
  any set of messages: a message that starts a thread, one that joins it
  (`apply_message`) and one whose labels change (`apply_label_patch`) leave a
  roll-up of the new set (`NewRollsUp`, `AddRollsUp`, `PatchRollsUp`, over
  cardinalities). `TablesEvolve` says what a commit may do to the items: then
  every other call keeps what it holds. `HoldsQueued` makes a mark's version of
  the send one that was queued; `FoundFits` and `AnswersArePlaced` carry the
  placeholders from an insert's lookup to its commit.
- **Lists.** Every write keeps items under their own keys (`WritesAreSound`), so an
  item has one place in each list and places tell items apart. What a query string
  is read to is proved parameter by parameter (`Understood`), down from the least
  one at which it could fail. A page holds the rows between the key it resumes
  after and its continuation, all of them (`PagesAre`). The inductive invariant
  says of a walk that its listing is in order and in bounds, and covers every
  steady item up to the place reached: the continuation of the last round, or the
  last row of a page that was cut at the limit. A token leads on from there only
  if it was given for the same list, order and window (`SameScope`); a walk some
  page of which was asked for differently is claimed to be in order and to resume
  in bounds, no more.
- **Ingest.** `Knows`: a part that is not on an attempt's list is stored, by
  itself or by one beside it; what is stored stays.
- **Event intake.** `Knows` again: past the persist a notification is persisted,
  past the transition the status covers it, and the addresses not on the list are
  suppressed or refused. `CoveredAtOnce` speaks of the events whose persist
  needs no transition of its own.
- **Event relay**, on top of the intake. The images of the aggregate in the
  stream follow one upon the other up to the status (`Chained`); every record the
  invocation has passed is done; `CountsOK` says of an item still `Ahead` that
  faults explain each publish it has had; and as long as nothing is dead-lettered,
  consumers were last told the status as of the record reached, or a later
  record will tell them (`Fine`, at the checkpoint, for a restart, and at the
  record in hand).
- **Mail relay.** The images in the stream follow each other, item by item, up to
  what the table holds, so a record says what its write did; the work in hand is
  about the record in hand; every record passed has told the bus whatever
  happened in it, unless it is in the dead-letter queue (`PassedOK`); each entry
  is one its record announces, at most once per fault more (`EntriesOK`,
  `FaultsOK`). An id then shows the record, or the message and its status, that it
  was made from. That a detail fits, and has lost no more than it had to, follows
  from `SizesAreBounded` along the order in which fields are dropped.
- **Door.** What an invocation may rely on where it stands (`Serving`): past the
  allowlist the topic is listed, past the signature the message is signed, an
  action follows its persist. All steps but the action are alike in what they can
  add (`QuietStep`): effects on signed messages of listed topics, certificates of
  signed messages, and answers that are final only when they may be. That the
  wildcard match is the search for a placement (`MatchIsPlaced`,
  `PlacedIsMatch`) needs induction along the segments, once up and once down; it
  is done by hand from the well-foundedness of the naturals (`CountsUp`), and so is
  that `MiddleEnd`'s recursion defines anything (`MiddleEndIsRecursive`).
  `PayloadAssumption` ties `asks`, what a sender wanted, to `keyword_intent`: the
  theorem is about order, repetition and lost answers; that the words are read
  rightly is for the run, whose payloads say by themselves what they ask.
- **Key cache.** How far a document may lag: as of its load time it was read
  within a request's life, or a failure lies that near (`Fresh`), and a failure
  pushes the load time forward, which bounds how often an outage is met. Keys
  valid all along are in the cache and in everything in flight. `MissKnows` keeps
  the claims of a read on a miss one floor apart. `Never` lies before every
  interval can reach back from time 0.

Some statements became sharper by their proofs. `OnlyAnswers` of `MailThreads`
excludes a message whose own Message-ID another message knows: the copy of a sent
mail that comes back, which a placeholder may lead elsewhere, is not one of the
replies that the design document promises a common thread. The last claim of
`RepliesReachTheRightPeople`, that received mail can be answered, speaks of requests
that leave the subject out and has three exceptions (see "Noted on the way"): the
subject, more people than a send may have, and an address among those the answer
is for (`AnswerMayGoTo`) that SES cannot deliver to; the run has mails of each
kind. `MailIsWhatTheServiceSays` finds a Content-ID on inline parts alone, and says
that each finds its part beside the body and no other. `ReceivedMailIsKept` says which header is the last that is kept:
the one that reaches the budget.

Only model-checked, and why:

- liveness (`outbox_live`, `relay`, `ingest`, `reads`): the prover has no
  `ENABLED`;
- the refinement's fairness, for the same reason;
- `DecisionsAreTrue` of `MailWrites`: that "duplicate" is only answered when the
  message is stored needs that a stored send state has its message, which the
  expiry of single items can break for arbitrary mail; TLC checks it for the mail
  of the run. The conditions and versions these writers rely on are proved on the
  other view of them, `MailThreads`;
- the candidate ids of a message (`CandidateIds`), which are cut out of a list of
  any length by folds: what a fold computes for every input needs induction with
  an operator for the hypothesis, which no installed prover can instantiate.
  `MailThreadsProofs` takes the ids as they come.

## Plan

Done: all modules of the table above, and theorems about every module with state.

Next:

1. `DecisionsAreTrue` for all mail, with the lifetimes under which a send state
   does not outlive its message.
2. One door: `SnsDoor` composed with `Ingest` and `EventIntake`, in place of its
   single-step persist and actions.

## Not modelled

Reads of one message and downloads (they read one item or sign a URL),
configuration, start-up, the API router and the Lambda runtime, metrics and
logging, test support, permissions and alarms of the deployment; of the modelled
parts, the wording of errors and the wire formats. What the libraries compute
(RSA and X.509, base64, JSON, the MIME grammar) is taken from how the code uses
it.
