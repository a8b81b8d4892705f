----------------------------- MODULE EventIntake -----------------------------
(***************************************************************************)
(* The request path for the SES events of one message: an SNS notification *)
(* is persisted, its status applied, and its lifecycle actions run         *)
(* (process_notification in crates/webhook/src/sns/mod.rs over persist_new *)
(* of aws/events_table.rs and run of actions.rs).                          *)
(*                                                                         *)
(* SNS delivers a notification at least once and redelivers one that was   *)
(* not answered 2xx, perhaps while another copy of it, or a later event of *)
(* the same message, is being handled: workers are concurrent invocations. *)
(* A step is one call to AWS.  A call may fail, without effect or with its *)
(* answer lost, and an invocation may die between two steps; both end it   *)
(* without a 2xx.  Verification and classification have happened.          *)
(***************************************************************************)
EXTENDS Naturals, FiniteSets, Sequences

CONSTANTS
    Notes,          \* SNS notifications about one message
    Kind,           \* what each reports
    Recipients,     \* the addresses each one names as bounced or complaining
    Workers,        \* concurrent invocations
    Deliveries      \* how often SNS may deliver each: the cases to consider

\* "Bounce" is a permanent one, "SoftBounce" any other.
Kinds == {"Send", "Delivery", "Bounce", "SoftBounce", "Complaint", "Reject", "Open", "Click"}

ASSUME IntakeAssumption == (\A n \in Notes : Kind[n] \in Kinds) /\ Deliveries \subseteq [Notes -> Nat]

NoStatus == "none"
Statuses == {NoStatus, "sent", "delivered", "complained", "bounced"}

VARIABLES
    events,     \* the notifications persisted as event items
    status,     \* current_status of the aggregate item
    opens,      \* its open_count
    stream,     \* the events table's stream, oldest record first
    inv,        \* what each worker is doing
    due,        \* how often SNS may still deliver each notification
    acked,      \* the notifications answered 2xx
    marked,     \* the sender has recorded the SES id (the SESMSG item)
    labels,     \* the delivery labels of the mailbox message
    suppressed, \* the addresses on the account suppression list
    refused     \* those that SES permanently refused to list

vars == <<events, status, opens, stream, inv, due, acked, marked, labels,
          suppressed, refused>>

Resting == [pc |-> "rest", note |-> {}, deferred |-> FALSE, todo |-> {}]

Init ==
    /\ events = {} /\ status = NoStatus /\ opens = 0 /\ stream = <<>>
    /\ inv = [w \in Workers |-> Resting]
    /\ due \in Deliveries /\ acked = {}
    /\ marked = FALSE /\ labels = {} /\ suppressed = {} /\ refused = {}

-----------------------------------------------------------------------------
\* Plausible slips, used to show that the checks notice.

PersistsAgain(n) == TRUE

TransitionOnFreshOnly(n, fresh) ==
    IF fresh /\ Kind[n] \in {"Delivery", "Complaint"} THEN "transition" ELSE "label"

LabelFailureSkipsSuppression(w) ==
    \E n \in inv[w].note :
       inv' = [inv EXCEPT ![w] = Resting] /\ acked' = acked \cup {n}

-----------------------------------------------------------------------------
\* events_table.rs: what an event makes of the status.

\* aggregate_update: Send only sets an unset status, a permanent bounce
\* overwrites any.
StatusInTransaction(n) ==
    CASE Kind[n] = "Send" -> IF status = NoStatus THEN "sent" ELSE status
      [] Kind[n] = "Bounce" -> "bounced"
      [] OTHER -> status

\* allowed_priors and status_transition.
TransitionTo(n) == IF Kind[n] = "Delivery" THEN "delivered" ELSE "complained"

AllowedPriors(s) ==
    CASE s = "delivered" -> {NoStatus, "sent"}
      [] s = "complained" -> {NoStatus, "sent", "delivered"}

HasTransition(n) == Kind[n] \in {"Delivery", "Complaint"}

\* persist_new: the transition is tried for a fresh event and for a duplicate.
AfterPersist(n, fresh) == IF HasTransition(n) THEN "transition" ELSE "label"

\* mailbox_label: a bounce of either kind is labelled.
MailboxLabel ==
    [Delivery |-> "delivered", Bounce |-> "bounced", SoftBounce |-> "bounced",
     Complaint |-> "complained", Reject |-> "rejected", Open |-> "opened"]

Suppresses(n) == Kind[n] \in {"Bounce", "Complaint"}

-----------------------------------------------------------------------------
Goes(w, pc) == inv' = [inv EXCEPT ![w].pc = pc]

\* The invocation ends: with a 2xx, or with a 5xx or not at all.
Acks(w, n) == inv' = [inv EXCEPT ![w] = Resting] /\ acked' = acked \cup {n}
Fails(w) == inv' = [inv EXCEPT ![w] = Resting] /\ UNCHANGED acked

EventRecord(n) == [item |-> "event", note |-> n]
AggRecord(old, new) == [item |-> "agg", old |-> old, new |-> new]

\* SNS delivers, or redelivers.
Delivers(w, n) ==
    /\ inv[w].pc = "rest"
    /\ due[n] > 0
    /\ due' = [due EXCEPT ![n] = @ - 1]
    /\ inv' = [inv EXCEPT ![w] = [Resting EXCEPT !.pc = "persist", !.note = {n}]]
    /\ UNCHANGED <<events, status, opens, stream, acked, marked, labels, suppressed, refused>>

\* duplicate_outcome: the condition on the event item.
IsNew(n) == n \notin events

\* The transaction: the event item and the aggregate, each with its record.
Persists(w) ==
    \E n \in inv[w].note :
       /\ inv[w].pc = "persist"
       /\ IsNew(n)
       /\ events' = events \cup {n}
       /\ status' = StatusInTransaction(n)
       /\ opens' = opens + IF Kind[n] = "Open" THEN 1 ELSE 0
       /\ stream' = stream \o <<EventRecord(n), AggRecord(status, StatusInTransaction(n))>>
       /\ \/ Goes(w, AfterPersist(n, TRUE)) /\ UNCHANGED acked
          \/ Fails(w)
       /\ UNCHANGED <<due, marked, labels, suppressed, refused>>

FindsDuplicate(w) ==
    \E n \in inv[w].note :
       /\ inv[w].pc = "persist"
       /\ ~IsNew(n)
       /\ Goes(w, AfterPersist(n, FALSE))
       /\ UNCHANGED <<events, status, opens, stream, due, acked, marked, labels,
                      suppressed, refused>>

\* apply_status_transition: a lost condition is not an error.
Transitions(w) ==
    \E n \in inv[w].note :
       LET new == TransitionTo(n) IN
       /\ inv[w].pc = "transition"
       /\ IF HasTransition(n) /\ status \in AllowedPriors(new)
          THEN /\ status' = new
               /\ stream' = Append(stream, AggRecord(status, new))
               /\ \/ Goes(w, "label") /\ UNCHANGED acked
                  \/ Fails(w)
          ELSE Goes(w, "label") /\ UNCHANGED <<status, stream, acked>>
       /\ UNCHANGED <<events, opens, due, marked, labels, suppressed, refused>>

\* apply_delivery_label: nothing to label until the sender has recorded the SES
\* id; update_labels adds the label (MailThreads).
Labels(w) ==
    \E n \in inv[w].note :
       /\ inv[w].pc = "label"
       /\ labels' = IF marked /\ Kind[n] \in DOMAIN MailboxLabel
                    THEN labels \cup {MailboxLabel[Kind[n]]} ELSE labels
       /\ inv' = [inv EXCEPT ![w].pc = "suppress",
                             ![w].todo = IF Suppresses(n) THEN Recipients[n] ELSE {}]
       /\ UNCHANGED <<events, status, opens, stream, due, acked, marked, suppressed, refused>>

\* A permanent failure is passed over, a transient one held until suppression
\* has run.
GoesOnUnlabelled(w) ==
    \E n \in inv[w].note : \E transient \in BOOLEAN :
       /\ inv' = [inv EXCEPT ![w].pc = "suppress", ![w].deferred = transient,
                             ![w].todo = IF Suppresses(n) THEN Recipients[n] ELSE {}]
       /\ UNCHANGED acked

LabelFails(w) ==
    /\ inv[w].pc = "label"
    /\ \E n \in inv[w].note : Kind[n] \in DOMAIN MailboxLabel
    /\ GoesOnUnlabelled(w)
    /\ UNCHANGED <<events, status, opens, stream, due, marked, labels, suppressed, refused>>

\* suppress_recipients: one call each; a permanent refusal does not stop the
\* others, a transient one ends the request.
Suppress(w) ==
    \E a \in inv[w].todo :
       /\ inv[w].pc = "suppress"
       /\ inv' = [inv EXCEPT ![w].todo = @ \ {a}]
       /\ \/ suppressed' = suppressed \cup {a} /\ UNCHANGED refused
          \/ refused' = refused \cup {a} /\ UNCHANGED suppressed
       /\ UNCHANGED <<events, status, opens, stream, due, acked, marked, labels>>

Answers(w) ==
    \E n \in inv[w].note :
       /\ inv[w].pc = "suppress"
       /\ inv[w].todo = {}
       /\ IF inv[w].deferred THEN Fails(w) ELSE Acks(w, n)
       /\ UNCHANGED <<events, status, opens, stream, due, marked, labels, suppressed, refused>>

\* A transient failure of any call, or the invocation dies.
Dies(w) ==
    /\ inv[w].pc # "rest"
    /\ Fails(w)
    /\ UNCHANGED <<events, status, opens, stream, due, marked, labels, suppressed, refused>>

\* mark_send records the SES id (SendOutbox).
SenderMarks ==
    /\ ~marked
    /\ marked' = TRUE
    /\ UNCHANGED <<events, status, opens, stream, inv, due, acked, labels, suppressed, refused>>

IntakeNext ==
    \/ \E w \in Workers :
          \/ \E n \in Notes : Delivers(w, n)
          \/ Persists(w)
          \/ FindsDuplicate(w)
          \/ Transitions(w)
          \/ Labels(w)
          \/ LabelFails(w)
          \/ Suppress(w)
          \/ Answers(w)
          \/ Dies(w)
    \/ SenderMarks

IntakeSpec == Init /\ [][IntakeNext]_vars

-----------------------------------------------------------------------------
\* The ladder as documented in events_table.rs, a permanent bounce on top.
StatusOf ==
    [k \in Kinds |-> CASE k = "Send" -> "sent"
                       [] k = "Delivery" -> "delivered"
                       [] k = "Complaint" -> "complained"
                       [] k = "Bounce" -> "bounced"
                       [] OTHER -> NoStatus]

Rank == [none |-> 0, sent |-> 1, delivered |-> 2, complained |-> 3, bounced |-> 4]

\* apply_status_transition: "a throttle or timeout between the two writes cannot
\* silently lose the status", and a stale retry cannot regress it.  A status is
\* what some persisted event says, and no less than any answered event says: once
\* all are answered it does not depend on the order they came in.  An open that is
\* delivered again, even at the same time, is counted once (duplicate_outcome).
StatusConverges ==
    /\ opens = Cardinality({n \in events : Kind[n] = "Open"})
    /\ status # NoStatus => \E n \in events : StatusOf[Kind[n]] = status
    /\ \A n \in acked : Rank[StatusOf[Kind[n]]] <= Rank[status]

\* actions.rs, "no label failure may skip suppression": once a permanent bounce
\* or a complaint is answered, every address is listed or was refused for good.
AnsweredMeansSuppressed ==
    \A n \in acked : Suppresses(n) => Recipients[n] \subseteq suppressed \cup refused

\* docs/mailbox/events.md:12, "message.bounced: SES reports a Bounce", and
\* actions.rs, an event "that arrives before the message is marked sent can still
\* be traced back to it": once both are done, the message shows its event.
EarlyEventsAreTraced ==
    marked => \A n \in acked : Kind[n] \in DOMAIN MailboxLabel => MailboxLabel[Kind[n]] \in labels
==============================================================================
