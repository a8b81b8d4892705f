----------------------------- MODULE MailThreads -----------------------------
(***************************************************************************)
(* How mail is threaded and labelled in one inbox                          *)
(* (crates/mailbox-store/src/mailbox.rs, plan.rs and txn.rs over           *)
(* crates/mailbox/src/thread.rs).                                          *)
(*                                                                         *)
(* Four operations share the message, thread and alias items of the mail   *)
(* table: insert_message (ingest), enqueue_send (API), mark_send (sender)  *)
(* and update_labels (API).  Each reads, plans a transaction from what it  *)
(* read, and commits it under conditions; a cancelled transaction is       *)
(* decoded into one decision and mostly planned again.  A job is one call  *)
(* of an operation, a step one call to the table, and jobs interleave      *)
(* freely.  A job may end with an error at any step, which also stands for *)
(* a killed function; a redelivery is a second job for the same message.   *)
(*                                                                         *)
(* A thread's id is that of the message that starts it.  Items that expire *)
(* are not modelled: nothing is deleted here.                              *)
(***************************************************************************)
EXTENDS SequencesExt

CONSTANTS
    Messages,           \* message ids
    Mail,               \* what each message says: see MailAssumption
    Jobs,               \* calls of the four operations
    Job,                \* what each call asks for: see JobAssumption
    UserLabels,         \* labels of the callers' own
    CandidateIdCap,     \* CANDIDATE_ID_CAP
    MessageUserLabelCap,\* MESSAGE_USER_LABEL_CAP
    ThreadUserLabelCap, \* THREAD_USER_LABEL_CAP
    MaxTxnRetries       \* MAX_TXN_RETRIES

SendLabels == {"queued", "sent", "rejected"}
DeliveryLabels == {"delivered", "rejected"}
SystemLabels == SendLabels \cup DeliveryLabels \cup {"received", "unread"}
Labels == SystemLabels \cup UserLabels
Directions == {"in", "out"}

\* inReplyTo holds at most one id, references the oldest first; original is the
\* message that a reply answers, sesIds the ids SES writes over rfcId.  Ingest
\* sets system labels only (verdict_labels), a send starts as queued.
MailAssumption ==
    \A m \in Messages :
       /\ Mail[m].direction \in Directions
       /\ Mail[m].stamp \in Nat \ {0}
       /\ Mail[m].labels \subseteq Labels
       /\ Mail[m].direction = "in" => Mail[m].labels \cap UserLabels = {}
       /\ Mail[m].direction = "out" => "queued" \in Mail[m].labels
       /\ Mail[m].original \subseteq Messages \ {m}

\* A patch is a caller's, of disjoint sets of settable labels, or
\* apply_delivery_label's; a mark carries the MarkOutcome.
JobAssumption ==
    \A j \in Jobs :
       /\ Job[j].op \in {"insert", "enqueue", "mark", "patch"}
       /\ Job[j].msg \in Messages
       /\ Job[j].op = "insert" => Mail[Job[j].msg].direction = "in"
       /\ Job[j].op = "enqueue" => Mail[Job[j].msg].direction = "out"
       /\ Job[j].add \cup Job[j].remove \subseteq UserLabels \cup {"unread"} \cup DeliveryLabels
       /\ Job[j].remove \cap DeliveryLabels = {}
       /\ Job[j].add \cap Job[j].remove = {}
       /\ Job[j].outcome \in {"Sent", "Failed", "ClosedSent", "Unknown", "Released"}

ASSUME MailThreadsAssumption ==
    /\ MailAssumption /\ JobAssumption
    /\ UserLabels \cap SystemLabels = {}   \* SystemLabel::parse tells them apart
    /\ IsFiniteSet(UserLabels)             \* LABEL_MAX_BYTES
    /\ {CandidateIdCap, MessageUserLabelCap, ThreadUserLabelCap, MaxTxnRetries} \subseteq Nat

VARIABLES
    messages,   \* the message items: thread, labels and version by id
    threads,    \* the thread items by id
    aliases,    \* the RFC alias rows by Message-ID; msg = {} is a placeholder
    sends,      \* the send states: version and what they say of the message
    job         \* where each call is and what it has read

vars == <<messages, threads, aliases, sends, job>>

\* taken: aliases given up; thread: the thread planned for; found, message,
\* before: what the reads returned; held: the send state a mark works from.
Idle == [pc |-> "idle", tries |-> 0, taken |-> {}, thread |-> {}, found |-> <<>>,
         message |-> <<>>, before |-> <<>>, held |-> 0]

Init ==
    /\ messages = <<>> /\ threads = <<>> /\ aliases = <<>> /\ sends = <<>>
    /\ job = [j \in Jobs |-> Idle]

Over(rows, old) ==
    [k \in DOMAIN rows \cup DOMAIN old |-> IF k \in DOMAIN rows THEN rows[k] ELSE old[k]]

\* What a consistent read of some keys of a table returns.
Read(table, keys) == [k \in keys \cap DOMAIN table |-> table[k]]

-----------------------------------------------------------------------------
\* Plausible slips, used to show that the checks notice.

ApplyMessageLastWins(thread, m) ==
    [version     |-> thread.version + 1,
     count       |-> thread.count + 1,
     labels      |-> thread.labels \cup Mail[m].labels,
     labelCounts |-> [l \in Labels |-> thread.labelCounts[l]
                                          + IF l \in Mail[m].labels THEN 1 ELSE 0],
     stamp       |-> Mail[m].stamp,
     last        |-> m,
     stamps      |-> [thread.stamps EXCEPT ![Mail[m].direction] = Mail[m].stamp]]

PlaceholderReplacesPlaceholder(id, row) == id \in DOMAIN aliases => aliases[id].msg = {}

MessageVersionUnchecked(j) ==
    Job[j].op \in {"insert", "enqueue"} => Job[j].msg \notin DOMAIN messages

ThreadVersionUnchecked(j) == TRUE

AliasRowInOwnThread(j, real) ==
    [msg |-> IF real THEN {Job[j].msg} ELSE {}, thread |-> Job[j].msg]

CapOnMessageOnly(labels, thread) ==
    Cardinality(labels \cap UserLabels) > MessageUserLabelCap

-----------------------------------------------------------------------------
\* thread.rs

AppendNew(seq, id) == IF Contains(seq, id) THEN seq ELSE Append(seq, id)

\* candidate_ids: In-Reply-To, then References from the nearest.
CandidateIds(m) ==
    LET ids == FoldLeft(AppendNew, <<>>, Mail[m].inReplyTo \o Reverse(Mail[m].references))
    IN SubSeq(ids, 1, Min({Len(ids), CandidateIdCap}))

\* insert_into_inbox: the message's own Message-ID goes first.
Candidates == [m \in Messages |-> FoldLeft(AppendNew, <<Mail[m].rfcId>>, CandidateIds(m))]

\* AliasLookup::thread_id: the thread of the first candidate with a row.
LookedUpThread(m, found) ==
    LET known == {i \in DOMAIN Candidates[m] : Candidates[m][i] \in DOMAIN found}
    IN IF known = {} THEN m ELSE found[Candidates[m][Min(known)]].thread

Newer(a, b) == IF a >= b THEN a ELSE b

\* apply_message: a tie goes to the message processed later.
ApplyMessage(thread, m) ==
    LET dir == Mail[m].direction
        leads == Mail[m].stamp >= thread.stamp
    IN [version     |-> thread.version + 1,
        count       |-> thread.count + 1,
        labels      |-> thread.labels \cup Mail[m].labels,
        labelCounts |-> [l \in Labels |-> thread.labelCounts[l]
                                             + IF l \in Mail[m].labels THEN 1 ELSE 0],
        stamp       |-> IF leads THEN Mail[m].stamp ELSE thread.stamp,
        last        |-> IF leads THEN m ELSE thread.last,
        stamps      |-> [thread.stamps EXCEPT ![dir] = Newer(Mail[m].stamp, @)]]

NewThread(m) ==
    [version     |-> 0,
     count       |-> 1,
     labels      |-> Mail[m].labels,
     labelCounts |-> [l \in Labels |-> IF l \in Mail[m].labels THEN 1 ELSE 0],
     stamp       |-> Mail[m].stamp,
     last        |-> m,
     stamps      |-> [d \in Directions |-> IF d = Mail[m].direction THEN Mail[m].stamp ELSE 0]]

\* apply_label_patch: a label leaves with its last carrier; one the thread does
\* not count is passed over.
ApplyLabelPatch(thread, added, removed) ==
    LET Counted(l) == thread.labelCounts[l] + IF l \in added THEN 1 ELSE 0
    IN [thread EXCEPT
          !.version = @ + 1,
          !.labels = (@ \cup added) \ {l \in removed : Counted(l) = 1},
          !.labelCounts = [l \in Labels |-> IF l \in removed /\ Counted(l) > 0
                                            THEN Counted(l) - 1 ELSE Counted(l)]]

-----------------------------------------------------------------------------
\* What a job's transaction would write, from what the job has read.

\* mark_transition, the labels; patch_labels.
LabelsAfter(j) ==
    LET labels == job[j].message[Job[j].msg].labels
    IN IF Job[j].op = "patch"
       THEN (labels \cup Job[j].add) \ Job[j].remove
       ELSE CASE Job[j].outcome \in {"Sent", "ClosedSent"} -> (labels \ {"queued"}) \cup {"sent"}
              [] Job[j].outcome = "Failed" -> (labels \ {"queued"}) \cup {"rejected"}
              [] OTHER -> labels

Relabels(j) ==
    /\ Job[j].op \in {"mark", "patch"}
    /\ LabelsAfter(j) # job[j].message[Job[j].msg].labels

Creates(j) == Job[j].op \in {"insert", "enqueue"}

WritesThread(j) == Creates(j) \/ Relabels(j)

\* thread_for; label_changes.
ThreadAfter(j) ==
    LET m == Job[j].msg
        t == job[j].thread
        before == job[j].before
        labels == job[j].message[m].labels
    IN CASE Creates(j) /\ t \in DOMAIN before -> ApplyMessage(before[t], m)
         [] Creates(j) /\ t \notin DOMAIN before -> NewThread(m)
         [] ~Creates(j) ->
              ApplyLabelPatch(before[t], LabelsAfter(j) \ labels, labels \ LabelsAfter(j))

\* put_alias: the message's alias, or a placeholder for one it refers to.
AliasRow(j, real) ==
    [msg |-> IF real THEN {Job[j].msg} ELSE {}, thread |-> job[j].thread]

\* plan_insert, plan_enqueue, plan_mark, less drop_taken_aliases: real aliases
\* for the message's own ids, placeholders for references that no row maps.
AliasRows(j) ==
    LET m == Job[j].msg
        found == job[j].found
        real == CASE Job[j].op = "insert" ->
                        {id \in {Mail[m].rfcId} : id \in DOMAIN found => found[id].msg = {}}
                  [] Job[j].op = "enqueue" -> {Mail[m].rfcId}
                  [] Job[j].op = "mark" /\ Job[j].outcome = "Sent" -> Mail[m].sesIds
                  [] OTHER -> {}
        referenced == IF Job[j].op = "insert"
                      THEN ToSet(Candidates[m]) \ ({Mail[m].rfcId} \cup DOMAIN found)
                      ELSE {}
    IN [id \in (real \cup referenced) \ job[j].taken |->
          AliasRow(j, id \in real)]

\* check_user_labels.
OverCap(labels, thread) ==
    \/ Cardinality(labels \cap UserLabels) > MessageUserLabelCap
    \/ Cardinality(thread.labels \cap UserLabels) > ThreadUserLabelCap

Refused(j) ==
    CASE Job[j].op = "enqueue" -> OverCap(Mail[Job[j].msg].labels, ThreadAfter(j))
      [] Job[j].op = "patch" -> OverCap(LabelsAfter(j), ThreadAfter(j))
      [] OTHER -> FALSE

-----------------------------------------------------------------------------
\* The conditions of the transaction and what a cancellation means.

MessageUnmoved(j) ==
    LET m == Job[j].msg IN
    IF Creates(j)
    THEN m \notin DOMAIN messages
    ELSE messages[m].version = job[j].message[m].version

StateUnmoved(j) ==
    Job[j].op = "mark" => sends[Job[j].msg].version = job[j].held

ThreadUnmoved(j) ==
    LET t == job[j].thread
        before == job[j].before
    IN WritesThread(j) =>
          IF t \in DOMAIN before
          THEN t \in DOMAIN threads /\ threads[t].version = before[t].version
          ELSE t \notin DOMAIN threads

\* alias_transact_item: a real alias also lands on a placeholder.
AliasFree(id, row) ==
    id \in DOMAIN aliases => row.msg # {} /\ aliases[id].msg = {}

AliasesTaken(j) ==
    LET rows == AliasRows(j) IN {id \in DOMAIN rows : ~AliasFree(id, rows[id])}

\* decode_cancellation, and the commit it did not get to decode.
Decision(j) ==
    IF ~MessageUnmoved(j)
    THEN IF Creates(j) THEN "Duplicate" ELSE "VersionConflict"
    ELSE IF ~(StateUnmoved(j) /\ ThreadUnmoved(j))
         THEN "VersionConflict"
         ELSE IF AliasesTaken(j) # {} THEN "AliasTaken" ELSE "Committed"

Writes(j) ==
    LET m == Job[j].msg
        item == IF Creates(j)
                THEN [thread |-> job[j].thread, labels |-> Mail[m].labels, version |-> 0]
                ELSE [messages[m] EXCEPT !.labels = LabelsAfter(j), !.version = @ + 1]
        label == CASE Job[j].outcome \in {"Sent", "ClosedSent"} -> "sent"
                   [] Job[j].outcome = "Failed" -> "rejected"
                   [] OTHER -> "queued"
    IN /\ messages' = Over([k \in {m} |-> item], messages)
       /\ threads' = IF WritesThread(j)
                     THEN Over([t \in {job[j].thread} |-> ThreadAfter(j)], threads)
                     ELSE threads
       /\ aliases' = Over(AliasRows(j), aliases)
       /\ sends' = CASE Job[j].op = "enqueue" ->
                          Over([k \in {m} |-> [version |-> 0, label |-> "queued"]], sends)
                     [] Job[j].op = "mark" ->
                          [sends EXCEPT ![m] = [version |-> @.version + 1, label |-> label]]
                     [] OTHER -> sends

-----------------------------------------------------------------------------
\* The steps of a call.

FirstRead == [insert |-> "aliases", enqueue |-> "thread", mark |-> "message",
              patch |-> "message"]

Ends(j) == job' = [job EXCEPT ![j] = [Idle EXCEPT !.pc = "done"]]

\* Another turn of the operation's loop, which reads again; taken aliases and
\* the thread of a send are kept.
Again(j, taken) ==
    IF job[j].tries = MaxTxnRetries
    THEN Ends(j)
    ELSE job' = [job EXCEPT ![j] = [Idle EXCEPT !.pc = FirstRead[Job[j].op],
                                               !.tries = job[j].tries + 1,
                                               !.taken = job[j].taken \cup taken,
                                               !.thread = job[j].thread,
                                               !.held = job[j].held]]

UnchangedTable == UNCHANGED <<messages, threads, aliases, sends>>

\* A reply goes to the thread of its original, read before; a mark works from a
\* send that was queued and is still open; apply_delivery_label finds a message
\* by the SES id that its mark recorded.
Starts(j) ==
    LET m == Job[j].msg IN
    /\ job[j].pc = "idle"
    /\ Job[j].op = "enqueue" => Mail[m].original \subseteq DOMAIN messages
    /\ Job[j].op = "mark" => m \in DOMAIN sends /\ sends[m].label = "queued"
    /\ Job[j].add \cap DeliveryLabels # {} => m \in DOMAIN sends /\ sends[m].label = "sent"
    /\ \E t \in Messages :
          /\ t = IF Mail[m].original = {} THEN m
                 ELSE messages[CHOOSE o \in Mail[m].original : TRUE].thread
          /\ job' = [job EXCEPT ![j].pc = FirstRead[Job[j].op],
                                ![j].thread = t,
                                ![j].held = IF Job[j].op = "mark" THEN sends[m].version ELSE 0]
    /\ UnchangedTable

\* read_aliases: every attempt of an insert resolves the thread afresh.
ReadsAliases(j) ==
    LET m == Job[j].msg
        found == Read(aliases, ToSet(Candidates[m]))
    IN /\ job[j].pc = "aliases"
       /\ job' = [job EXCEPT ![j].pc = "thread", ![j].found = found,
                             ![j].thread = LookedUpThread(m, found)]
       /\ UnchangedTable

\* read_message: without a message a patch answers not found and a mark errs.
ReadsMessage(j) ==
    LET m == Job[j].msg IN
    /\ job[j].pc = "message"
    /\ IF m \notin DOMAIN messages
       THEN Ends(j)
       ELSE job' = [job EXCEPT ![j].pc = "thread", ![j].message = Read(messages, {m}),
                               ![j].thread = messages[m].thread]
    /\ UnchangedTable

\* read_thread, which a mark that changes no label skips.
ReadsThread(j) ==
    /\ job[j].pc = "thread"
    /\ job' = [job EXCEPT ![j].pc = "transact",
                          ![j].before = IF Job[j].op = "mark" /\ ~Relabels(j)
                                        THEN <<>> ELSE Read(threads, {job[j].thread})]
    /\ UnchangedTable

\* A patch that changes nothing, or a label cap, ends the call before its
\* transaction.
MayTransact(j) == ~((Job[j].op = "patch" /\ ~Relabels(j)) \/ Refused(j))

EndsUnwritten(j) ==
    /\ job[j].pc = "transact"
    /\ ~MayTransact(j)
    /\ Ends(j)
    /\ UnchangedTable

Commits(j, decision) == decision = "Committed" /\ Writes(j) /\ Ends(j)

\* The commit's answer is lost: an error (Errs), or TransactionInProgress.
CommitsUnseen(j, decision) == decision = "Committed" /\ Writes(j) /\ Again(j, {})

FindsDuplicate(j, decision) == decision = "Duplicate" /\ Ends(j) /\ UnchangedTable

\* Throttled, or DynamoDB refuses to run two transactions on one item at once.
Throttled(j, decision) == decision # "Duplicate" /\ Again(j, {}) /\ UnchangedTable

LosesVersion(j, decision) ==
    /\ decision = "VersionConflict"
    /\ IF Job[j].op = "mark"
       THEN job' = [job EXCEPT ![j].pc = "recheck"]
       ELSE Again(j, {})
    /\ UnchangedTable

\* An insert replans; an enqueue and a mark drop the aliases they lost.
LosesAlias(j, decision) ==
    /\ decision = "AliasTaken"
    /\ Again(j, IF Job[j].op = "insert" THEN {} ELSE AliasesTaken(j))
    /\ UnchangedTable

\* transact: the table decides on what it holds at this moment.
Transacts(j) ==
    /\ job[j].pc = "transact"
    /\ MayTransact(j)
    /\ \E decision \in {Decision(j)} :
          \/ Commits(j, decision)
          \/ CommitsUnseen(j, decision)
          \/ FindsDuplicate(j, decision)
          \/ Throttled(j, decision)
          \/ LosesVersion(j, decision)
          \/ LosesAlias(j, decision)

\* mark_send: a conflict on the send state itself loses the claim.
Rechecks(j) ==
    /\ job[j].pc = "recheck"
    /\ IF sends[Job[j].msg].version # job[j].held THEN Ends(j) ELSE Again(j, {})
    /\ UnchangedTable

\* A call to the table fails, or the function is killed.
Errs(j) ==
    /\ job[j].pc \notin {"idle", "done"}
    /\ Ends(j)
    /\ UnchangedTable

Next ==
    \E j \in Jobs :
       \/ Starts(j)
       \/ ReadsAliases(j)
       \/ ReadsMessage(j)
       \/ ReadsThread(j)
       \/ EndsUnwritten(j)
       \/ Transacts(j)
       \/ Rechecks(j)
       \/ Errs(j)

Spec == Init /\ [][Next]_vars

-----------------------------------------------------------------------------
Carriers(t) == {m \in DOMAIN messages : messages[m].thread = t}

MaxStamp(ms) == Max({0} \cup {Mail[m].stamp : m \in ms})

\* "A redelivery [...] cancels the whole transaction, so the thread count" stays
\* right (docs/design/mailbox-on-ses.md), and "a thread keeps a label while any
\* of its messages has it" (docs/mailbox/api.md): the roll-up of a thread is that
\* of its messages, whichever inserts, sends, marks and patches raced.
CountsMatch ==
    \A t \in DOMAIN threads :
       /\ threads[t].count = Cardinality(Carriers(t))
       /\ threads[t].labels = UNION {messages[m].labels : m \in Carriers(t)}
       /\ \A l \in Labels :
             threads[t].labelCounts[l] = Cardinality({m \in Carriers(t) : l \in messages[m].labels})

\* apply_message: a late older message neither pulls a thread down the list nor
\* repoints its preview, in total and per direction.
NewestLeads ==
    \A t \in DOMAIN threads :
       /\ threads[t].stamp = MaxStamp(Carriers(t))
       /\ threads[t].last \in {m \in Carriers(t) : Mail[m].stamp = threads[t].stamp}
       /\ \A d \in Directions :
             threads[t].stamps[d] = MaxStamp({m \in Carriers(t) : Mail[m].direction = d})

\* A thread item is the roll-up of its messages, in its counts and in its newest.
RollUpsMatch == CountsMatch /\ NewestLeads

\* "A message holds at most 20 of your labels, and a thread 20 across its
\* messages" (docs/mailbox/api.md), however many messages of the thread are
\* labelled at once.
UserLabelsCapped ==
    /\ \A m \in DOMAIN messages :
          Cardinality(messages[m].labels \cap UserLabels) <= MessageUserLabelCap
    /\ \A t \in DOMAIN threads :
          Cardinality(threads[t].labels \cap UserLabels) <= ThreadUserLabelCap

\* plan_mark, "a reader can never see a message still labelled queued whose send
\* is finished": a label patch planned before a mark does not bring it back.  A
\* message that SES rejects after accepting it shows both labels.
SendLabelFollows ==
    \A m \in DOMAIN sends :
       /\ sends[m].label \in messages[m].labels
       /\ "queued" \in messages[m].labels <=> sends[m].label = "queued"

\* A real alias names a message, one of its ids, and the thread it is in.
AliasesAreTrue ==
    \A id \in DOMAIN aliases : \A m \in aliases[id].msg :
       /\ m \in DOMAIN messages
       /\ id \in {Mail[m].rfcId} \cup Mail[m].sesIds
       /\ aliases[id].thread = messages[m].thread

\* A message that only answers p, that nobody has answered yet, and that is not
\* the copy of another.
OnlyAnswers(m, p) ==
    /\ Mail[m].direction = "in"
    /\ Candidates[m] = <<Mail[m].rfcId, p>> /\ p # Mail[m].rfcId
    /\ \A n \in Messages \ {m} :
          Mail[m].rfcId \notin {Mail[n].rfcId} \cup Mail[n].sesIds \cup ToSet(Candidates[n])

\* "Replies to a parent this inbox never received [...] share one thread"
\* (docs/design/mailbox-on-ses.md), also when they arrive at once.
RepliesShareThread ==
    \A p \in DOMAIN aliases : aliases[p].msg = {} =>
       \A m \in DOMAIN messages :
          OnlyAnswers(m, p) => messages[m].thread = aliases[p].thread

\* Conversations stay together: aliases lead to the messages they name, and
\* replies to one unknown parent into one thread.
ConversationsHold == AliasesAreTrue /\ RepliesShareThread

\* docs/design/mailbox-on-ses.md:130, "A reply that arrives before its parent
\* [...] share one thread: the parent's own Message-ID [...] find the
\* placeholder": also a parent that was looking its aliases up meanwhile.
ReplyJoinsParent ==
    \A p, m \in DOMAIN messages :
       /\ Mail[p].direction = "in"
       /\ Candidates[p] = <<Mail[p].rfcId>>
       /\ OnlyAnswers(m, Mail[p].rfcId)
       => messages[m].thread = messages[p].thread
==============================================================================
