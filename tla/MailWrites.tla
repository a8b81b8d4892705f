----------------------------- MODULE MailWrites ------------------------------
(***************************************************************************)
(* The mailbox's write flows as the table executes them                    *)
(* (crates/mailbox-store/src/mailbox.rs over MailTable).                   *)
(*                                                                         *)
(* Each writer works through a script of calls.  A call reads, plans a     *)
(* transaction from what it read, and attempts it while other writers      *)
(* commit theirs; DynamoDB may cancel it for contention too.  The alias    *)
(* rows of an insert are read in rounds: BatchGetItem may leave keys       *)
(* unprocessed.  MailThreads looks at the same flows one item at a time,   *)
(* with every read a step of its own; here the plans, the conditions and   *)
(* the cancellation reasons are the code's, and items expire.              *)
(***************************************************************************)
EXTENDS MailTable

CONSTANTS
    Writers,
    Mail,                   \* what each message says, by id
    Labels,
    Keys,                   \* hashes of Idempotency-Keys
    Scenarios,              \* what is stored at first, the writers' scripts, what the client may ask
    MaxTxnRetries,          \* MAX_TXN_RETRIES
    MaxBatchGetAttempts,    \* MAX_BATCH_GET_ATTEMPTS
    MaxExpired              \* bound: items the table may reap

\* What a table holds: items under their own keys, ids that are not a bare
\* millisecond, and threads that say where they are in their list.
IsId(id) == id \in Nat /\ id % IdsPerMs # 0
ThreadIds == 1..IdsPerMs - 1

IsItem(key, item) ==
    \/ item.kind = "inbox" /\ key = InboxKey(item.inbox) /\ item.inbox \in Nat
    \/ /\ item.kind = "message" /\ key = MessageKey(item.inbox, item.id)
       /\ {"kind", "inbox", "id", "thread"} \subseteq DOMAIN item
       /\ IsId(item.id) /\ item.thread \in ThreadIds
    \/ /\ item.kind = "thread" /\ key = ThreadKey(item.inbox, item.thread)
       /\ {"kind", "inbox", "thread", "timestamp"} \subseteq DOMAIN item
       /\ item.thread \in ThreadIds /\ item.timestamp \in Nat
    \/ /\ item.kind = "state" /\ key = SendStateKey(item.id)
       /\ {"kind", "id"} \subseteq DOMAIN item
    \/ item.kind = "rfc" /\ key[1] = "RFC" /\ item.thread \in ThreadIds
    \/ item.kind = "key" /\ key = SendKeyKey(item.hash)
    \/ item.kind = "ref" /\ key = SesRefKey(item.ses)

IsTable(table) == IsFiniteSet(DOMAIN table) /\ \A key \in DOMAIN table : IsItem(key, table[key])

Calls ==
    [op : {"ensure"}, inbox : Nat] \cup [op : {"insert", "claim"}, msg : DOMAIN Mail]
      \cup [op : {"enqueue"}, msg : DOMAIN Mail, key : {{}} \cup {{h} : h \in Keys}]
      \cup [op : {"mark"}, msg : DOMAIN Mail, outcome : {"sent", "failed", "unknown"}]
      \cup [op : {"patch"}, msg : DOMAIN Mail, add : SUBSET Labels, remove : SUBSET Labels]

ASSUME MailIsWellFormed ==
    \A id \in DOMAIN Mail :
       /\ IsId(id) /\ Mail[id].thread \in ThreadIds
       /\ Mail[id].candidates \in Seq(Range(Mail[id].candidates)) /\ IsFiniteSet(Mail[id].ses)

ASSUME ScriptsAreWellFormed ==
    \A scenario \in Scenarios : IsTable(scenario.stored) /\ scenario.script \in [Writers -> Seq(Calls)]

VARIABLES
    items,      \* the table
    script,     \* the calls each writer has still to make
    job,        \* where each writer's call is
    expired     \* items reaped so far

writeVars == <<items, script, job, expired>>

\* pending, found: alias rows to read and read; rounds: batch reads made;
\* taken: aliases given up; held: the send state a mark works from;
\* answer: what the last call or attempt came to.
Idle == [pc |-> "idle", pending |-> {}, found |-> <<>>, rounds |-> 0, tries |-> 0,
         taken |-> {}, held |-> {}, ops |-> {}, answer |-> "none"]

Task(w) == Head(script[w])

\* A key row is live until it expires; the clock of the calls stands at Now.
Now == 1

-----------------------------------------------------------------------------
(* What the items look like.                                               *)

MailMessage(id, thread) ==
    [kind |-> "message", inbox |-> Mail[id].inbox, id |-> id, thread |-> thread,
     labels |-> Mail[id].labels, text |-> Mail[id].text, rfc |-> Mail[id].rfc,
     due |-> Mail[id].due, version |-> 0]

Carried(counts) == {l \in Labels : counts[l] > 0}

NewThread(msg) ==
    LET counts == [l \in Labels |-> IF l \in msg.labels THEN 1 ELSE 0]
    IN  [kind |-> "thread", inbox |-> msg.inbox, thread |-> msg.thread, timestamp |-> MsOf(msg.id),
         text |-> msg.text, counts |-> counts, labels |-> Carried(counts), due |-> msg.due,
         version |-> 0]

\* The thread moves in its list only for a message at least as new, and
\* expires with the last of its messages.
ApplyMessage(thread, msg) ==
    LET counts == [l \in Labels |-> thread.counts[l] + IF l \in msg.labels THEN 1 ELSE 0]
    IN  [thread EXCEPT
            !.timestamp = IF MsOf(msg.id) >= @ THEN MsOf(msg.id) ELSE @,
            !.text.from = @ \cup msg.text.from, !.text.to = @ \cup msg.text.to,
            !.counts = counts, !.labels = Carried(counts), !.due = @ /\ msg.due, !.version = @ + 1]

ApplyLabelPatch(thread, added, removed) ==
    LET counts == [l \in Labels |->
                      LET n == thread.counts[l] + IF l \in added THEN 1 ELSE 0
                      IN  IF l \in removed /\ n > 0 THEN n - 1 ELSE n]
    IN  [thread EXCEPT !.counts = counts, !.labels = Carried(counts), !.version = @ + 1]

ThreadAfter(msg, before) ==
    IF before = {} THEN NewThread(msg) ELSE ApplyMessage(CHOOSE b \in before : TRUE, msg)

\* A consistent read: the set with the item, or {}.
Get(table, key) == IF key \in DOMAIN table THEN {table[key]} ELSE {}

-----------------------------------------------------------------------------
(* The plan of a call, or {} when there is nothing to write.               *)

FoundThread(id, found) ==
    LET row(r) == RfcAliasKey(Mail[id].inbox, r.id)
        hits == {i \in DOMAIN Mail[id].candidates : row(Mail[id].candidates[i]) \in DOMAIN found}
    IN  IF hits = {} THEN Mail[id].thread ELSE found[row(Mail[id].candidates[Min(hits)])].thread

InsertPlan(w) ==
    LET m == Task(w).msg
        msg == MailMessage(m, FoundThread(m, job[w].found))
        before == Get(items, ThreadKey(msg.inbox, msg.thread))
    IN  {PlanInsert(msg, before, ThreadAfter(msg, before), Mail[m].candidates, job[w].found)}

EnqueuePlan(w) ==
    LET m == Task(w).msg
        msg == MailMessage(m, Mail[m].thread)
        before == Get(items, ThreadKey(msg.inbox, msg.thread))
        state == [kind |-> "state", id |-> m, status |-> "queued", version |-> 0]
        key == {[kind |-> "key", hash |-> h, message |-> m, expires |-> Now] : h \in Task(w).key}
    IN  {PlanEnqueue(msg, state, key, before, ThreadAfter(msg, before), Now)}

\* claim_send: anything but queued is not ours to take.
ClaimPlan(w) ==
    {PlanStateCas(s, [s EXCEPT !.status = "sending", !.version = @ + 1], "queued") :
        s \in {s \in Get(items, SendStateKey(Task(w).msg)) : s.status = "queued"}}

\* A label change of one message and its thread's counts.
Relabelled(msg, labels) ==
    {<<t, ApplyLabelPatch(t, labels \ LabelsOf(msg), LabelsOf(msg) \ labels)>> :
        t \in IF labels = LabelsOf(msg) THEN {} ELSE Get(items, ThreadKey(msg.inbox, msg.thread))}

\* mark_transition's labels: only a settled send's label moves.
MarkLabels(labels, outcome) ==
    CASE outcome = "sent" -> (labels \ {"queued"}) \cup {"sent"}
      [] outcome = "failed" -> (labels \ {"queued"}) \cup {"rejected"}
      [] OTHER -> labels

MarkPlan(w) ==
    LET m == Task(w).msg
        plan(s, msg) ==
            LET labels == MarkLabels(LabelsOf(msg), Task(w).outcome)
            IN  PlanMark(s, [s EXCEPT !.status = Task(w).outcome, !.version = @ + 1], msg, labels,
                         Relabelled(msg, labels), IF Task(w).outcome = "sent" THEN Mail[m].ses ELSE {})
    IN  {plan(s, msg) : s \in job[w].held, msg \in Get(items, MessageKey(Mail[m].inbox, m))}

PatchPlan(w) ==
    LET m == Task(w).msg
        after(msg) == (LabelsOf(msg) \cup Task(w).add) \ Task(w).remove
    IN  UNION {{PlanPatch(msg, after(msg), t[1], t[2]) : t \in Relabelled(msg, after(msg))} :
                  msg \in Get(items, MessageKey(Mail[m].inbox, m))}

PlanOf(w) ==
    CASE Task(w).op = "insert" -> InsertPlan(w)
      [] Task(w).op = "enqueue" -> EnqueuePlan(w)
      [] Task(w).op = "claim" -> ClaimPlan(w)
      [] Task(w).op = "mark" -> MarkPlan(w)
      [] Task(w).op = "patch" -> PatchPlan(w)

WriteInit(scenario) ==
    /\ items = scenario.stored /\ expired = 0
    /\ script = scenario.script
    /\ job = [w \in Writers |-> Idle]

-----------------------------------------------------------------------------
(* The steps of a call.                                                    *)

Ends(w, answer) ==
    /\ job' = [job EXCEPT ![w] = [Idle EXCEPT !.answer = answer]]
    /\ script' = [script EXCEPT ![w] = Tail(@)]

AliasKeys(m) ==
    {RfcAliasKey(Mail[m].inbox, Mail[m].candidates[i].id) : i \in DOMAIN Mail[m].candidates}

Begins(w) ==
    /\ job[w].pc = "idle" /\ script[w] # <<>> /\ Task(w).op # "ensure"
    /\ LET m == Task(w).msg
       IN  job' = [job EXCEPT ![w] =
              [Idle EXCEPT
                 !.pc = IF Task(w).op = "insert" /\ AliasKeys(m) # {} THEN "aliases" ELSE "plan",
                 !.pending = IF Task(w).op = "insert" THEN AliasKeys(m) ELSE {},
                 !.held = IF Task(w).op = "mark" THEN Get(items, SendStateKey(m)) ELSE {}]]
    /\ UNCHANGED <<items, script, expired>>

\* ensure_inbox: one conditional put, and a consistent read when it loses.
EnsuresInbox(w) ==
    /\ job[w].pc = "idle" /\ script[w] # <<>> /\ Task(w).op = "ensure"
    /\ items' = PutIfAbsent(items, [kind |-> "inbox", inbox |-> Task(w).inbox])
    /\ Ends(w, "ensured")
    /\ UNCHANGED expired

BatchGets(w) ==
    /\ job[w].pc = "aliases"
    /\ \E answered \in SUBSET job[w].pending :
          LET left == job[w].pending \ answered
          IN  IF left # {} /\ job[w].rounds + 1 = MaxBatchGetAttempts
              THEN Ends(w, "transient")
              ELSE /\ job' = [job EXCEPT ![w].found = BatchGot(items, @, answered), ![w].pending = left,
                                         ![w].rounds = @ + 1,
                                         ![w].pc = IF left = {} THEN "plan" ELSE "aliases"]
                   /\ UNCHANGED script
    /\ UNCHANGED <<items, expired>>

Plans(w) ==
    /\ job[w].pc = "plan"
    /\ \E plans \in {PlanOf(w)} :
          IF plans = {} THEN Ends(w, "nothing")
          ELSE /\ \E ops \in plans :
                     job' = [job EXCEPT ![w].pc = "transact",
                                        ![w].ops = DropTakenAliases(ops, job[w].taken)]
               /\ UNCHANGED script
    /\ UNCHANGED <<items, expired>>

Commits(w) ==
    /\ job[w].pc = "transact" /\ CanCommit(items, job[w].ops)
    /\ items' = Committed(items, job[w].ops)
    /\ Ends(w, "committed")
    /\ UNCHANGED expired

\* Reads and plans again, unless the attempts are spent.
Again(w, answer, taken) ==
    IF job[w].tries = MaxTxnRetries THEN Ends(w, "conflict")
    ELSE /\ job' = [job EXCEPT
              ![w].pc = IF Task(w).op = "insert" /\ AliasKeys(Task(w).msg) # {} THEN "aliases" ELSE "plan",
              ![w].pending = IF Task(w).op = "insert" THEN AliasKeys(Task(w).msg) ELSE {},
              ![w].found = <<>>, ![w].rounds = 0, ![w].tries = @ + 1,
              ![w].taken = @ \cup taken, ![w].answer = answer]
         /\ UNCHANGED script

\* A mark whose send state moved on has lost its claim.
LostClaim(w) ==
    Task(w).op = "mark"
      /\ {s.version : s \in Get(items, SendStateKey(Task(w).msg))} # {s.version : s \in job[w].held}

Cancelled(w) ==
    /\ job[w].pc = "transact"
    /\ \E reasons \in Reasons(items, job[w].ops) :
          LET decision == DecodeCancellation(job[w].ops, reasons)
              taken == TakenAliases(job[w].ops, reasons)
          IN  CASE decision = "Retry" -> Again(w, decision, {})
                [] decision = "VersionConflict" ->
                      IF LostClaim(w) THEN Ends(w, "conflict") ELSE Again(w, decision, {})
                [] decision = "AliasTaken" ->
                      Again(w, decision, IF Task(w).op = "insert" THEN {} ELSE taken)
                [] OTHER -> Ends(w, decision)
    /\ UNCHANGED <<items, expired>>

\* DynamoDB reaps an item whose expires_at has passed, whenever it likes.
Reaps ==
    /\ expired < MaxExpired
    /\ \E k \in DOMAIN items :
          /\ items[k].kind \in {"message", "thread", "rfc"} /\ items[k].due
          /\ items' = [j \in DOMAIN items \ {k} |-> items[j]]
    /\ expired' = expired + 1
    /\ UNCHANGED <<script, job>>

Writes(w) ==
    \/ Begins(w) \/ EnsuresInbox(w) \/ BatchGets(w) \/ Plans(w) \/ Commits(w) \/ Cancelled(w)

WriteNext == (\E w \in Writers : Writes(w)) \/ Reaps

-----------------------------------------------------------------------------

\* The step in which writer w is told that its transaction was cancelled.
TellsCancelled(w) ==
    job[w].pc = "transact" /\ job'[w].pc # "transact" /\ job'[w].answer # "committed"

\* A cancellation is decoded into what is the case at that moment (txn.rs):
\* Duplicate only when the message is stored, KeyExists only when the key row
\* is live, AliasTaken only when the transaction commits without the aliases
\* it names; and no race or contention is ever taken for a permanent failure,
\* which would drop the mail.
DecisionsAreTrue ==
    [][\A w \in Writers : TellsCancelled(w) =>
          LET answer == job'[w].answer
              m == Task(w).msg
          IN  /\ answer # "Permanent"
              /\ answer = "Duplicate" => MessageKey(Mail[m].inbox, m) \in DOMAIN items
              /\ answer = "KeyExists" => \E h \in Task(w).key :
                    SendKeyKey(h) \in DOMAIN items /\ items[SendKeyKey(h)].expires >= Now
              /\ answer = "AliasTaken" /\ Task(w).op # "insert" =>
                    CanCommit(items, DropTakenAliases(job[w].ops, job'[w].taken))]_writeVars

\* The sweep's index lists exactly the sends whose status it asks for: a send
\* that settles leaves it with the write that settles it (plan.rs, index_keys).
SweepSeesUnsettled ==
    \A status \in Swept, k \in {k \in DOMAIN items : items[k].kind = "state"} :
       (items[k].status = status)
          <=> \E e \in IndexKeys(items[k]) :
                 e.index = "ByStatus" /\ e.partition = SendStatusPartition(status)
=============================================================================
