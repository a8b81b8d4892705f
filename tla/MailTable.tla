------------------------------ MODULE MailTable ------------------------------
(***************************************************************************)
(* The mail table: its keys, its indexes, conditional writes, transactions *)
(* and the decoding of their cancellations                                 *)
(* (crates/mailbox-store/src/keys.rs, table.rs, plan.rs, txn.rs,           *)
(* dynamo_table.rs and its double memory.rs).                              *)
(*                                                                         *)
(* A table is a function from keys to items, an item a record of           *)
(* attributes, a plan a set of role-tagged conditional writes: a           *)
(* transaction writes a key once, in no order.  A key is a tuple with the  *)
(* parts of the pk and sk strings.  Ids and sort keys are numbers: a       *)
(* message id carries its millisecond in front, as a UUIDv7 does, so       *)
(* TimePrefix(ms) lies below every id of that millisecond and above every  *)
(* earlier one.  This module has no state of its own.                      *)
(***************************************************************************)
EXTENDS Integers, Sequences, FiniteSetsExt

CONSTANTS
    IdsPerMs,           \* ids of one millisecond, including its bare prefix
    MaxAliasIdBytes     \* ALIAS_ID_MAX_BYTES

ASSUME MailTableAssumption == IdsPerMs \in Nat \ {0, 1} /\ MaxAliasIdBytes \in Nat

MsOf(id) == id \div IdsPerMs
TimePrefix(ms) == ms * IdsPerMs
ThreadTimeSort(ms, thread) == ms * IdsPerMs + thread

InboxKey(inbox) == <<"INBOX", inbox, "META">>
MessageKey(inbox, id) == <<"INBOX", inbox, "MSG", id>>
ThreadKey(inbox, thread) == <<"INBOX", inbox, "THR", thread>>
SendStateKey(id) == <<"OUTBOX", id>>
RfcAliasKey(inbox, rfc) == <<"RFC", inbox, rfc>>
SesRefKey(ses) == <<"SESMSG", ses>>
SendKeyKey(hash) == <<"SENDKEY", hash>>

InboxesPartition == <<"INBOXES">>
MessagesPartition(inbox) == <<"INBOX", inbox, "MSG">>
ThreadsPartition(inbox) == <<"INBOX", inbox, "THR">>
ThreadMessagesPartition(inbox, thread) == <<"THREAD", inbox, thread>>
SendStatusPartition(status) == <<"SENDSTATUS", status>>

Swept == {"sending", "unknown"}

-----------------------------------------------------------------------------
\* Plausible slips, used to show that the checks notice.

SettledKeepsStatusKeys(item) ==
    CASE item.kind = "inbox" -> {[index |-> "ByTime", partition |-> InboxesPartition, sort |-> item.inbox]}
      [] item.kind = "message" ->
            {[index |-> "ByTime", partition |-> MessagesPartition(item.inbox), sort |-> item.id]}
      [] item.kind = "state" ->
            {[index |-> "ByStatus", partition |-> SendStatusPartition("sending"), sort |-> item.id]}
      [] OTHER -> {}

NewThreadLossIsPermanent(op) ==
    op.form \in {"put", "update"} /\ op.cond[1] \in {"VersionEquals", "All", "NotExistsOrExpired"}

ResumesAtKey(sort, q) ==
    \A s \in q.start : IF q.ascending THEN sort >= s.sort ELSE sort <= s.sort

-----------------------------------------------------------------------------
(* Where an item lives and which index entries it has; ByStatus is sparse. *)

KeyOf(item) ==
    CASE item.kind = "inbox" -> InboxKey(item.inbox)
      [] item.kind = "message" -> MessageKey(item.inbox, item.id)
      [] item.kind = "thread" -> ThreadKey(item.inbox, item.thread)
      [] item.kind = "state" -> SendStateKey(item.id)
      [] item.kind = "key" -> SendKeyKey(item.hash)
      [] item.kind = "ref" -> SesRefKey(item.ses)

Entry(index, partition, sort) == [index |-> index, partition |-> partition, sort |-> sort]

IndexKeys(item) ==
    CASE item.kind = "inbox" -> {Entry("ByTime", InboxesPartition, item.inbox)}
      [] item.kind = "message" ->
            {Entry("ByTime", MessagesPartition(item.inbox), item.id),
             Entry("ByThread", ThreadMessagesPartition(item.inbox, item.thread), item.id)}
      [] item.kind = "thread" ->
            {Entry("ByTime", ThreadsPartition(item.inbox), ThreadTimeSort(item.timestamp, item.thread))}
      [] item.kind = "state" ->
            IF item.status \in Swept
            THEN {Entry("ByStatus", SendStatusPartition(item.status), item.id)}
            ELSE {}
      [] OTHER -> {}

\* An absent label set is an empty one: DynamoDB has no empty string set.
LabelsOf(item) == IF "labels" \in DOMAIN item THEN item.labels ELSE {}

-----------------------------------------------------------------------------
(* Conditional writes.  op.form: "put" writes the whole item, "update"     *)
(* sets and removes attributes, "alias" is a first-writer-wins RFC row.    *)

EvalCond(table, key, cond) ==
    CASE cond[1] = "None" -> TRUE
      [] cond[1] = "NotExists" -> key \notin DOMAIN table
      [] cond[1] = "VersionEquals" ->
            key \in DOMAIN table /\ table[key].version = cond[2]
      [] cond[1] = "NotExistsOrExpired" ->
            key \in DOMAIN table => table[key].expires < cond[2]
      [] cond[1] = "All" ->
            key \in DOMAIN table /\ \A a \in DOMAIN cond[2] : table[key][a] = cond[2][a]

\* A real alias lands on no row or on a placeholder, a placeholder on no row.
AliasHolds(table, op) ==
    op.key \in DOMAIN table => op.item.message # {} /\ table[op.key].message = {}

Holds(table, op) ==
    IF op.form = "alias" THEN AliasHolds(table, op) ELSE EvalCond(table, op.key, op.cond)

Updated(old, op) ==
    [a \in (DOMAIN old \cup DOMAIN op.item) \ op.remove |->
        IF a \in DOMAIN op.item THEN op.item[a] ELSE old[a]]

ApplyOp(table, op) == IF op.form = "update" THEN Updated(table[op.key], op) ELSE op.item

Committed(table, ops) ==
    [k \in DOMAIN table \cup {op.key : op \in ops} |->
        IF \E op \in ops : op.key = k THEN ApplyOp(table, CHOOSE op \in ops : op.key = k) ELSE table[k]]

\* A put that never overwrites; the caller is told which it was.
PutIfAbsent(table, item) ==
    IF KeyOf(item) \in DOMAIN table THEN table
    ELSE [k \in DOMAIN table \cup {KeyOf(item)} |-> IF k = KeyOf(item) THEN item ELSE table[k]]

\* What one BatchGetItem adds to the rows found, by key.
BatchGot(table, found, answered) ==
    [k \in DOMAIN found \cup (answered \cap DOMAIN table) |->
        IF k \in answered THEN table[k] ELSE found[k]]

CanCommit(table, ops) == \A op \in ops : Holds(table, op)

-----------------------------------------------------------------------------
(* The decoding of a cancelled transaction: one reason per write.          *)

CheckFailed == "ConditionalCheckFailed"

IsRetryable(reason) ==
    reason \in {"TransactionConflict", "ThrottlingError", "ProvisionedThroughputExceeded",
                "RequestLimitExceeded", "InternalServerError"}

IsNotExistsConditioned(op) == op.form = "put" /\ op.cond[1] = "NotExists"

IsVersionOrStatusConditioned(op) ==
    \/ op.form = "put" /\ op.cond[1] \in {"NotExists", "VersionEquals", "All", "NotExistsOrExpired"}
    \/ op.form = "update" /\ op.cond[1] \in {"VersionEquals", "All", "NotExistsOrExpired"}

TakenAliases(ops, reasons) ==
    {op.key : op \in {o \in ops : o.form = "alias" /\ reasons[o] = CheckFailed}}

DropTakenAliases(ops, taken) == {op \in ops : op.form = "alias" => op.key \notin taken}

DecodeCancellation(ops, reasons) ==
    LET failed(Is(_)) == \E op \in ops : reasons[op] = CheckFailed /\ Is(op)
    IN  IF failed(LAMBDA op : op.role = "IdempotencyKey") THEN "KeyExists"
        ELSE IF failed(LAMBDA op : op.role \in {"Message", "SendState"} /\ IsNotExistsConditioned(op))
             THEN "Duplicate"
        ELSE IF \E op \in ops : IsRetryable(reasons[op]) THEN "Retry"
        ELSE IF failed(LAMBDA op : op.role \in {"Message", "SendState", "Thread"}
                                     /\ IsVersionOrStatusConditioned(op))
             THEN "VersionConflict"
        ELSE IF /\ TakenAliases(ops, reasons) # {}
                /\ \A op \in ops : reasons[op] = CheckFailed => op.form = "alias"
             THEN "AliasTaken"
        ELSE "Permanent"

\* The reasons DynamoDB may give: a failed check is reported as such unless
\* the item is contended, and contention may be reported for any one write.
\* The empty set: the transaction commits.
Reasons(table, ops) ==
    LET checked == [op \in ops |-> IF Holds(table, op) THEN "None" ELSE CheckFailed]
    IN  {[checked EXCEPT ![op] = "TransactionConflict"] : op \in ops}
          \cup IF CanCommit(table, ops) THEN {} ELSE {checked}

-----------------------------------------------------------------------------
(* The planners.  before is the set with the thread item that was read.    *)

Put(role, item, cond) ==
    [role |-> role, form |-> "put", key |-> KeyOf(item), item |-> item, remove |-> {}, cond |-> cond]

PutNew(role, item) == Put(role, item, <<"NotExists">>)

PutVersioned(role, item, before) ==
    Put(role, item, IF before = {} THEN <<"NotExists">>
                    ELSE <<"VersionEquals", (CHOOSE b \in before : TRUE).version>>)

\* Maps rfc to msg's thread; message is {} for a placeholder.  An id too long
\* for a key is skipped.
PutAlias(msg, rfc, message) ==
    IF rfc.bytes > MaxAliasIdBytes THEN {}
    ELSE {[role |-> "RfcAlias", form |-> "alias", key |-> RfcAliasKey(msg.inbox, rfc.id),
           item |-> [kind |-> "rfc", message |-> message, thread |-> msg.thread, due |-> msg.due],
           remove |-> {}, cond |-> <<"None">>]}

With(attributes, name, value) ==
    [a \in DOMAIN attributes \cup {name} |-> IF a = name THEN value ELSE attributes[a]]

UpdateMessageLabels(msg, labels, extra) ==
    LET set == With(extra, "version", msg.version + 1)
    IN  [role |-> "Message", form |-> "update", key |-> KeyOf(msg),
         item |-> IF labels = {} THEN set ELSE With(set, "labels", labels),
         remove |-> IF labels = {} THEN {"labels"} ELSE {},
         cond |-> <<"VersionEquals", msg.version>>]

\* found: the alias rows read, by key; candidates: the ids looked up, in order.
PlanInsert(msg, before, after, candidates, found) ==
    LET row(r) == RfcAliasKey(msg.inbox, r.id)
        unmapped == {i \in DOMAIN candidates : candidates[i] # msg.rfc /\ row(candidates[i]) \notin DOMAIN found}
        claimable == row(msg.rfc) \in DOMAIN found => found[row(msg.rfc)].message = {}
    IN  {PutNew("Message", msg), PutVersioned("Thread", after, before)}
          \cup (IF msg.rfc.bytes > 0 /\ claimable THEN PutAlias(msg, msg.rfc, {msg.id}) ELSE {})
          \cup UNION {PutAlias(msg, candidates[i], {}) : i \in unmapped}

PlanEnqueue(msg, state, key, before, after, now) ==
    {Put("IdempotencyKey", k, <<"NotExistsOrExpired", now>>) : k \in key}
      \cup {PutNew("Message", msg), PutNew("SendState", state), PutVersioned("Thread", after, before)}
      \cup PutAlias(msg, msg.rfc, {msg.id})

PlanStateCas(before, after, expected) ==
    {Put("SendState", after, <<"All", [status |-> expected, version |-> before.version]>>)}

\* ses: {} or the ids SES gave; threads: {} or {<<before, after>>}.
PlanMark(stateBefore, stateAfter, msg, labels, threads, ses) ==
    {PutVersioned("SendState", stateAfter, {stateBefore}),
     UpdateMessageLabels(msg, labels, [status |-> stateAfter.status])}
      \cup {PutVersioned("Thread", t[2], {t[1]}) : t \in threads}
      \cup (UNION {PutAlias(msg, s, {msg.id}) : s \in ses})
      \cup {Put("SesRef", [kind |-> "ref", ses |-> s.id, message |-> msg.id], <<"None">>) : s \in ses}

PlanPatch(msg, labels, before, after) ==
    {UpdateMessageLabels(msg, labels, <<>>), PutVersioned("Thread", after, {before})}

-----------------------------------------------------------------------------
(* The pages a query of an index partition may be answered with: bounds    *)
(* are exclusive, start is {} or the key to resume after.  DynamoDB cuts a *)
(* page at the limit, or before when it gets too large; one that ends at   *)
(* the cut has a continuation even when nothing is left.                   *)

Bounded(sort, q) ==
    /\ \A a \in q.after : sort > a
    /\ \A b \in q.before : sort < b

Precedes(a, b, ascending) == IF ascending THEN a < b ELSE a > b

Resumes(sort, q) == \A s \in q.start : Precedes(s.sort, sort, q.ascending)

PageKey(partition, sort, key) == [partition |-> partition, sort |-> sort, key |-> key]

InOrder(rows, ascending) ==
    [i \in 1..Cardinality(rows) |->
        CHOOSE r \in rows : Cardinality({o \in rows : Precedes(o.sort, r.sort, ascending)}) = i - 1]

RowsOf(table, q) ==
    UNION {{[sort |-> e.sort, key |-> k] : e \in {e \in IndexKeys(table[k]) :
                                                   /\ e.index = q.index /\ e.partition = q.partition
                                                   /\ Bounded(e.sort, q) /\ Resumes(e.sort, q)}} :
              k \in DOMAIN table}

CutPage(list, partition, cut) ==
    [rows |-> SubSeq(list, 1, Min({cut, Len(list)})),
     next |-> IF cut <= Len(list) THEN {PageKey(partition, list[cut].sort, list[cut].key)} ELSE {}]

QueryPages(table, q, limit) ==
    {CutPage(list, q.partition, cut) :
        list \in {InOrder(rows, q.ascending) : rows \in {RowsOf(table, q)}}, cut \in 1..limit}
=============================================================================
