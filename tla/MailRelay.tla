------------------------------ MODULE MailRelay ------------------------------
(***************************************************************************)
(* What the relay announces: the details it builds for records of the mail *)
(* table and of the events table, how they are cut to the size PutEvents   *)
(* takes, and what becomes of a record whose entry is refused              *)
(* (crates/webhook/src/stream.rs, mail/events.rs, publish.rs and           *)
(* crates/mailbox/src/content.rs).                                         *)
(*                                                                         *)
(* EventRelay looks at batches and the order of statuses; here one record  *)
(* is handled at a time and a detail is its fields' sizes.  A script of    *)
(* writes fills the stream; the message items they change and the content  *)
(* documents behind them are the state the relay reads.                    *)
(***************************************************************************)
EXTENDS Integers, Sequences, FiniteSets, Functions

CONSTANTS
    Letters,        \* by message id: [labels, at, content, required, optional] and, once sent, sentAt
    WriteScripts,   \* the sequences of writes a behaviour may start from
    EntryCap,       \* PUT_EVENTS_ENTRY_CAP_BYTES less detail type and source
    MaxDetailSize,  \* MAX_DETAIL_BYTES
    MaxContent,     \* MAX_CONTENT_BYTES
    PointerSize,    \* what replaces an omitted payload
    MaxAttempts,    \* the mapping's retries of one record
    MaxBusFaults    \* bound: failed calls and deaths

\* The field caps bound what is never dropped (mail/events.rs, publish.rs): with
\* the pointer, or by itself, it fits an entry.
ASSUME SizesAreBounded ==
    /\ EntryCap \in Nat /\ MaxDetailSize \in 0 .. EntryCap /\ MaxContent \in Nat
    /\ PointerSize \in Nat /\ MaxAttempts \in Nat \ {0} /\ MaxBusFaults \in Nat

ContentFields == {"text", "html", "headers", "references", "reply_to", "verdicts"}

\* No message is inserted as sent.
ASSUME LettersAreWellFormed ==
    \A m \in DOMAIN Letters :
       LET l == Letters[m] IN
       /\ l.labels \subseteq STRING /\ "sent" \notin l.labels
       /\ l.content \in [ContentFields -> Nat] /\ l.optional \in Nat
       /\ l.required \in 0 .. EntryCap

Notifications ==
    {n \in [kind : STRING, msg : DOMAIN Letters, sns : STRING, at : Nat, object : BOOLEAN,
            sizes : [content : Nat, payload : Nat, extra : Nat, kept : Nat]] :
       n.sizes.kept + PointerSize <= EntryCap}

\* The labels no request may set or clear, as far as they matter here.
Reserved == {"received", "queued", "sent"}

Writes ==
    [op : {"insert"}, msg : DOMAIN Letters]
      \cup [op : {"mark"}, msg : {m \in DOMAIN Letters : "queued" \in Letters[m].labels}]
      \cup [op : {"label"}, msg : DOMAIN Letters, add : SUBSET (STRING \ Reserved),
            remove : SUBSET (STRING \ Reserved)]
      \cup [op : {"event"}, record : Notifications]

\* What the tables' conditions admit: an id is inserted once and before anything
\* is done to it, and the claim admits a notification once.
ASSUME ScriptsAreLegal ==
    \A script \in WriteScripts :
       /\ script \in Seq(Writes)
       /\ \A i \in 1 .. Len(script) :
             LET w == script[i]
                 Earlier(ops) == {j \in 1 .. (i - 1) : script[j].op \in ops}
             IN  /\ w.op = "insert" => \A j \in Earlier({"insert"}) : script[j].msg # w.msg
                 /\ w.op \in {"mark", "label"} => \E j \in Earlier({"insert"}) : script[j].msg = w.msg
                 /\ w.op = "event" => \A j \in Earlier({"event"}) : script[j].record.sns # w.record.sns

VARIABLES
    todo,       \* the writes still to come
    mail,       \* the message items, by id: labels and whether SES's id is known
    docs,       \* the content documents, by message id
    log,        \* the stream
    work,       \* the record in hand
    passed,     \* records the mapping is past
    attempts,   \* failed attempts at the record after those
    entries,    \* what PutEvents has accepted
    poisoned,   \* records given to the dead-letter queue
    busFaults   \* calls that failed and invocations that died

mailRelayVars == <<todo, mail, docs, log, work, passed, attempts, entries, poisoned, busFaults>>

NoContent == [f \in ContentFields |-> 0]

Total(sizes) == FoldFunction(+, 0, sizes)
Drop(sizes, fields) == [f \in DOMAIN sizes |-> IF f \in fields THEN 0 ELSE sizes[f]]

AtRest == [step |-> "rest", event |-> {}]

MailRelayResting ==
    /\ mail = <<>> /\ docs = <<>> /\ log = <<>> /\ work = AtRest /\ passed = 0
    /\ attempts = 0 /\ entries = <<>> /\ poisoned = {} /\ busFaults = 0

-----------------------------------------------------------------------------
\* Plausible slips, used to show that the checks notice.

CapsBodiesOnly(sizes) ==
    IF Total(sizes) <= EntryCap THEN sizes ELSE Drop(sizes, {"html", "text"})

AnySentImage(r) ==
    "sent" \in r.new.labels

SesIdWithoutNotification(msg, type, sns, at) == <<msg, type, at>>

OmitsPayloadFirst(sizes) ==
    IF Total(sizes) <= MaxDetailSize THEN sizes
    ELSE [Drop(sizes, {"content", "extra"}) EXCEPT !.payload = PointerSize]

-----------------------------------------------------------------------------
(* serialize_within: drop the bodies, then one field after the other.      *)

Within(cap, sizes, fields) == IF Total(sizes) <= cap THEN sizes ELSE Drop(sizes, fields)

SerializeWithin(content) ==
    LET bodiless == Within(MaxContent, content, {"text", "html"})
        unthreaded == Within(MaxContent, Within(MaxContent, bodiless, {"references"}), {"reply_to"})
    IN  Within(MaxContent, Within(MaxContent, unthreaded, {"headers"}), {"verdicts"})

(* cap_received_detail, after bodies that alone exceed the cap are gone.   *)

CapReceivedDetail(sizes) ==
    LET bodiless == Within(EntryCap, Within(EntryCap, sizes, {"html"}), {"text"})
    IN  Within(EntryCap, Within(EntryCap, bodiless, {"headers"}), {"optional"})

WithoutHugeBodies(sizes) == Drop(sizes, {f \in {"html", "text"} : sizes[f] > EntryCap})

ReceivedSizes(letter, content) ==
    [html |-> content["html"], text |-> content["text"], headers |-> content["headers"],
     optional |-> letter.optional + content["references"] + content["reply_to"], required |-> letter.required]

(* build_outbound: raw MIME goes first, then the payload, then unbounded   *)
(* metadata.                                                               *)

BuildOutbound(sizes) ==
    IF Total(sizes) <= MaxDetailSize THEN sizes
    ELSE LET stripped == Drop(sizes, {"content"})
             pointed == IF Total(stripped) <= MaxDetailSize THEN stripped
                        ELSE [stripped EXCEPT !.payload = PointerSize]
         IN  IF Total(pointed) <= EntryCap THEN pointed ELSE Drop(pointed, {"extra"})

-----------------------------------------------------------------------------
(* The events a record announces: their type, the id consumers tell them   *)
(* apart by, and the sizes of their fields.                                *)

ReceivedEventType(labels) ==
    IF "spam" \in labels THEN "received.spam"
    ELSE IF "unauthenticated" \in labels THEN "received.unauthenticated"
    ELSE "received"

MailboxEventType ==
    [Delivery |-> "delivered", Bounce |-> "bounced", Complaint |-> "complained",
     Reject |-> "rejected", Open |-> "opened"]

EventId(msg, type, at) == <<msg, type, "item", at>>
SesEventId(msg, type, sns, at) == <<msg, type, sns, at>>

BuildReceivedEvent(r, content) ==
    {[type |-> ReceivedEventType(r.new.labels),
      id |-> EventId(r.msg, ReceivedEventType(r.new.labels), Letters[r.msg].at),
      sizes |-> CapReceivedDetail(WithoutHugeBodies(ReceivedSizes(Letters[r.msg], content)))] :
        labels \in {l \in {r.new.labels} : "received" \in l}}

IsSentRelabel(r) == "sent" \in r.new.labels /\ "sent" \notin r.old.labels

BuildSentEvent(r) ==
    IF IsSentRelabel(r)
    THEN {[type |-> "sent", id |-> EventId(r.msg, "sent", Letters[r.msg].sentAt),
           sizes |-> [required |-> Letters[r.msg].required]]}
    ELSE {}

\* {} for a kind with no mailbox event, or one without the object it names.
BuildSesEvent(r) ==
    IF r.kind \in DOMAIN MailboxEventType /\ r.object
    THEN {[type |-> MailboxEventType[r.kind],
           id |-> SesEventId(r.msg, MailboxEventType[r.kind], r.sns, r.at),
           sizes |-> [required |-> Letters[r.msg].required]]}
    ELSE {}

-----------------------------------------------------------------------------
(* The writes, each one a record of a stream.                              *)

MailRecord(event, m, old, new) == [table |-> "mail", event |-> event, msg |-> m, old |-> old, new |-> new]

NotificationRecord(n) ==
    [table |-> "events", event |-> "INSERT", kind |-> n.kind, msg |-> n.msg, sns |-> n.sns,
     at |-> n.at, object |-> n.object, sizes |-> n.sizes]

NoImage == [labels |-> {}, readable |-> FALSE]

Image(labels) == [labels |-> labels, readable |-> labels # {}]

Put(items, key, item) == [k \in DOMAIN items \cup {key} |-> IF k = key THEN item ELSE items[k]]

\* Ingest stores the document, then the item; enqueue does too.
Inserts(m) ==
    /\ docs' = Put(docs, m, SerializeWithin(Letters[m].content))
    /\ mail' = Put(mail, m, [labels |-> Letters[m].labels, ses |-> FALSE])
    /\ log' = Append(log, MailRecord("INSERT", m, NoImage, Image(Letters[m].labels)))

Rewrites(m, labels, ses) ==
    /\ mail' = [mail EXCEPT ![m] = [labels |-> labels, ses |-> ses]]
    /\ log' = Append(log, MailRecord("MODIFY", m, Image(mail[m].labels), Image(labels)))
    /\ UNCHANGED docs

RecordsEvent(n) == log' = Append(log, NotificationRecord(n)) /\ UNCHANGED <<mail, docs>>

MailWrite ==
    /\ todo # <<>> /\ todo' = Tail(todo)
    /\ LET w == Head(todo) IN
          \/ w.op = "insert" /\ Inserts(w.msg)
          \/ w.op = "mark" /\ Rewrites(w.msg, (mail[w.msg].labels \ {"queued"}) \cup {"sent"}, TRUE)
          \/ w.op = "label" /\ Rewrites(w.msg, (mail[w.msg].labels \cup w.add) \ w.remove, mail[w.msg].ses)
          \/ w.op = "event" /\ RecordsEvent(w.record)
    /\ UNCHANGED <<work, passed, attempts, entries, poisoned, busFaults>>

\* Retention removes a document.
DocumentExpires ==
    /\ todo = <<>>
    /\ \E m \in DOMAIN docs : docs' = [k \in DOMAIN docs \ {m} |-> docs[k]]
    /\ UNCHANGED <<todo, mail, log, work, passed, attempts, entries, poisoned, busFaults>>

-----------------------------------------------------------------------------
(* The relay's handling of one record.                                     *)

InHand == log[passed + 1]

\* RelayOutcome::Settled and RelayOutcome::Retry.
Settled == work' = AtRest /\ passed' = passed + 1 /\ attempts' = 0
Retry == work' = AtRest /\ attempts' = attempts + 1 /\ UNCHANGED passed

Proceeds(step) == work' = [work EXCEPT !.step = step] /\ UNCHANGED <<passed, attempts>>

\* Publishes the mail events built, or settles when there is none.
PublishesMail(events) ==
    IF events = {} THEN Settled
    ELSE work' = [work EXCEPT !.step = "mail", !.event = events] /\ UNCHANGED <<passed, attempts>>

TakesRecord ==
    /\ work = AtRest /\ passed < Len(log) /\ attempts < MaxAttempts
    /\ LET r == InHand IN
       IF r.table = "events" THEN Proceeds(IF r.kind = "other" THEN "outbound" ELSE "resolve")
       ELSE IF r.event = "INSERT"
       THEN IF "received" \in r.new.labels THEN Proceeds("load") ELSE Settled
       ELSE IF ~r.old.readable THEN Settled ELSE PublishesMail(BuildSentEvent(r))
    /\ UNCHANGED <<todo, mail, docs, log, entries, poisoned, busFaults>>

\* content::load: a missing document reads as empty, one over the cap cannot
\* be read and is done without.
LoadsContent ==
    /\ work.step = "load"
    /\ LET m == InHand.msg
           content == IF m \in DOMAIN docs /\ Total(docs[m]) <= MaxContent THEN docs[m] ELSE NoContent
       IN  PublishesMail(BuildReceivedEvent(InHand, content))
    /\ UNCHANGED <<todo, mail, docs, log, entries, poisoned, busFaults>>

\* mailbox_ses_event, before anything is published.
ResolvesMessage ==
    /\ work.step = "resolve"
    /\ LET known == InHand.msg \in DOMAIN mail /\ mail[InHand.msg].ses
       IN  work' = [work EXCEPT !.step = "outbound", !.event = IF known THEN BuildSesEvent(InHand) ELSE {}]
    /\ UNCHANGED <<todo, mail, docs, log, passed, attempts, entries, poisoned, busFaults>>

Entry(what, sizes, id) == [rec |-> passed + 1, what |-> what, sizes |-> sizes, id |-> id]

\* The entry of the step in hand.
EntryToPut ==
    IF work.step = "outbound"
    THEN Entry("event", BuildOutbound(InHand.sizes), <<InHand.sns>>)
    ELSE LET e == CHOOSE e \in work.event : TRUE IN Entry(e.type, e.sizes, e.id)

PutsEntry ==
    /\ work.step \in {"outbound", "mail"}
    /\ \E entry \in {EntryToPut} :
          IF Total(entry.sizes) <= EntryCap
          THEN /\ entries' = Append(entries, entry)
               /\ IF work.step = "outbound" /\ work.event # {} THEN Proceeds("mail") ELSE Settled
          ELSE Retry /\ UNCHANGED entries
    /\ UNCHANGED <<todo, mail, docs, log, poisoned, busFaults>>

\* A transient read failure, a failed publish, or one whose answer is lost.
CallFails ==
    /\ work.step \in {"load", "resolve", "outbound", "mail"} /\ busFaults < MaxBusFaults
    /\ Retry
    /\ busFaults' = busFaults + 1
    /\ \/ UNCHANGED entries
       \/ work.step \in {"outbound", "mail"} /\ entries' = Append(entries, EntryToPut)
    /\ UNCHANGED <<todo, mail, docs, log, poisoned>>

\* The mapping gives the record to the dead-letter queue.
GivesUp ==
    /\ work = AtRest /\ attempts = MaxAttempts
    /\ poisoned' = poisoned \cup {passed + 1} /\ passed' = passed + 1 /\ attempts' = 0
    /\ UNCHANGED <<todo, mail, docs, log, work, entries, busFaults>>

MailRelayNext ==
    \/ MailWrite \/ DocumentExpires
    \/ TakesRecord \/ LoadsContent \/ ResolvesMessage \/ PutsEntry \/ CallFails \/ GivesUp

MailRelaySpec == MailRelayResting /\ todo \in WriteScripts /\ [][MailRelayNext]_mailRelayVars

-----------------------------------------------------------------------------

\* build_outbound, "an oversized payload can never become a poison record":
\* whatever the sizes, every entry fits, so a record is dead-lettered only
\* after as many faults as the mapping has retries.
OnlyFaultsPoison == Cardinality(poisoned) * MaxAttempts <= busFaults

\* The first record that carries m's sent label: the sender's relabel.
SentAt(m) ==
    {i \in DOMAIN log : /\ log[i].table = "mail" /\ log[i].msg = m /\ "sent" \in log[i].new.labels
                        /\ \A j \in 1..(i - 1) : log[j].table = "mail" /\ log[j].msg = m
                              => "sent" \notin log[j].new.labels}

\* What record i stands for, read off the history of its message.
Happening(i) ==
    LET r == log[i] IN
    IF r.table = "events" THEN {"event"}
    ELSE (IF r.event = "INSERT" /\ "received" \in r.new.labels THEN {ReceivedEventType(r.new.labels)} ELSE {})
           \cup (IF i \in SentAt(r.msg) THEN {"sent"} ELSE {})

EntriesOf(i) == {k \in DOMAIN entries : entries[k].rec = i}

\* stream.rs: a record the relay has settled has announced exactly what
\* happened with it: the arrival of a received message, the one relabel with
\* which a send became sent, whatever is relabelled later, the SES event; a
\* mailbox event only beside an SES event of its own message.
SettledMeansAnnounced ==
    \A i \in (1..passed) \ poisoned :
       LET told == {entries[k].what : k \in EntriesOf(i)}
       IN  /\ Happening(i) \subseteq told
           /\ told \ Happening(i) # {} =>
                 log[i].table = "events" /\ told \ Happening(i) = {MailboxEventType[log[i].kind]}

\* ids.rs, "a redelivery of the same notification rebuilds the same id, and a
\* second notification of the same type gets its own": consumers that keep one
\* entry per id act once per happening, however often a record is retried.
IdsTellHappeningsApart ==
    \A j, k \in DOMAIN entries :
       (entries[j].id = entries[k].id) <=> (entries[j].rec = entries[k].rec /\ entries[j].what = entries[k].what)

\* cap_received_detail and build_outbound: fields are dropped in the order of
\* their weight, and only when the detail is too large with them: raw content
\* before the payload, bodies before headers; what a consumer needs to find
\* the message is always there.
LittleIsDropped ==
    \A k \in DOMAIN entries :
       LET e == entries[k]
           r == log[e.rec]
       IN  IF e.what = "event"
           THEN /\ e.sizes["kept"] = r.sizes["kept"]
                /\ e.sizes["payload"] # r.sizes["payload"] =>
                      r.sizes["payload"] + r.sizes["extra"] + r.sizes["kept"] > MaxDetailSize
                /\ e.sizes["extra"] # r.sizes["extra"] => e.sizes["payload"] = PointerSize
           ELSE /\ e.sizes["required"] = Letters[r.msg].required
                /\ r.table = "mail" /\ r.event = "INSERT" /\ e.sizes["headers"] = 0 /\ r.msg \in DOMAIN docs
                      /\ docs[r.msg]["headers"] > 0 =>
                         e.sizes["html"] = 0 /\ e.sizes["text"] = 0

\* Details are cut until they fit, and no further.
DetailsFit == OnlyFaultsPoison /\ LittleIsDropped
=============================================================================
