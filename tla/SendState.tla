------------------------------ MODULE SendState ------------------------------
(***************************************************************************)
(* The OUTBOX#<message_id> / STATE item (crates/mailbox/src/send.rs) and   *)
(* the transitions that every writer of it goes through.                   *)
(*                                                                         *)
(* Timestamps are kept only as far as the code tests them: ses_call_at and *)
(* requeued_at are tested for presence, so they are BOOLEANs; sending_at   *)
(* identifies one claim, so it is the version the claim wrote (0 is        *)
(* "absent"); operator_resend_at is counted, so that a call to SES can be  *)
(* attributed to the authorisation (enqueue or operator resend) it was     *)
(* made under.                                                             *)
(***************************************************************************)
EXTENDS Naturals

CONSTANT
    MaxTransientFailures    \* MAX_TRANSIENT_FAILURES of the sender

ASSUME MaxTransientFailuresAssumption == MaxTransientFailures \in Nat \ {0}

SendStatus == {"queued", "sending", "sent", "failed", "unknown"}

\* SendFailure, with the causes the sender never tells apart merged:
\* cannot_build stands for attachment_fetch_failed (refused by the host),
\* outbox_unavailable (refused), message_too_large and build_failed;
\* unavailable for the three *_unavailable causes of a spent hand-back budget.
SendFailure == {"send_spec_missing", "part_missing", "cannot_build",
                "rejected", "unavailable", "closed_by_operator",
                "sender_abandoned"}

NoFailure == "none"

SendStateItem ==
    [status            : SendStatus,
     version           : Nat,
     sendingAt         : Nat,
     sesCallAt         : BOOLEAN,
     requeuedAt        : BOOLEAN,
     transientFailures : Nat,
     resends           : Nat,
     failure           : SendFailure \cup {NoFailure}]

\* SendState::queued: what the enqueue transaction writes.
Queued ==
    [status |-> "queued", version |-> 0, sendingAt |-> 0, sesCallAt |-> FALSE,
     requeuedAt |-> FALSE, transientFailures |-> 0, resends |-> 0,
     failure |-> NoFailure]

-----------------------------------------------------------------------------
\* Plausible slips in the transitions, used to show that the checks notice.

ClaimedKeepsRequeuedAt(st) ==
    [st EXCEPT !.status = "sending", !.version = @ + 1,
               !.sendingAt = st.version + 1, !.sesCallAt = FALSE]

HandBackAlways(st, failure) == [kind |-> "Released", failure |-> NoFailure]

SettlesOnUnknown(outcome) ==
    outcome.kind \in {"Sent", "Failed", "ClosedSent", "Unknown"}

-----------------------------------------------------------------------------
\* The transitions of SendState, named as in the source.

Claimed(st) ==
    [st EXCEPT !.status = "sending", !.version = @ + 1,
               !.sendingAt = st.version + 1, !.sesCallAt = FALSE,
               !.requeuedAt = FALSE]

CallingSes(st) == [st EXCEPT !.version = @ + 1, !.sesCallAt = TRUE]

Sent(st) == [st EXCEPT !.status = "sent", !.version = @ + 1, !.sendingAt = 0]

Failed(st, failure) ==
    [st EXCEPT !.status = "failed", !.version = @ + 1, !.sendingAt = 0,
               !.failure = failure]

Unknown(st) ==
    [st EXCEPT !.status = "unknown", !.version = @ + 1, !.sendingAt = 0]

Resumed(st) ==
    [st EXCEPT !.status = "queued", !.version = @ + 1, !.sendingAt = 0,
               !.sesCallAt = FALSE, !.requeuedAt = TRUE,
               !.transientFailures = 0, !.resends = @ + 1]

Released(st) ==
    [st EXCEPT !.status = "queued", !.version = @ + 1, !.sendingAt = 0,
               !.sesCallAt = FALSE, !.requeuedAt = TRUE,
               !.transientFailures = @ + 1]

-----------------------------------------------------------------------------
\* MarkOutcome: how a send finished, as the mailbox is told it.

MarkKind == {"Sent", "Failed", "Unknown", "Released", "ClosedSent", "Resumed"}

MarkOutcome == [kind : MarkKind, failure : SendFailure \cup {NoFailure}]

Mark(kind) == [kind |-> kind, failure |-> NoFailure]
MarkFailed(failure) == [kind |-> "Failed", failure |-> failure]

\* MarkOutcome::settles: the message will never be assembled again.
Settles(outcome) == outcome.kind \in {"Sent", "Failed", "ClosedSent"}

\* mark_transition, the send-state half.
MarkTransition(st, outcome) ==
    CASE outcome.kind \in {"Sent", "ClosedSent"} -> Sent(st)
      [] outcome.kind = "Failed"                 -> Failed(st, outcome.failure)
      [] outcome.kind = "Unknown"                -> Unknown(st)
      [] outcome.kind = "Released"               -> Released(st)
      [] outcome.kind = "Resumed"                -> Resumed(st)

\* mark_transition, the label half: the one system label of an outbound
\* message that a mark moves (relabel).
SendLabel == {"queued", "sent", "rejected"}

LabelAfter(label, outcome) ==
    CASE outcome.kind \in {"Sent", "ClosedSent"} -> "sent"
      [] outcome.kind = "Failed" -> "rejected"
      [] OTHER -> label

\* hand_back and the sweep's release branch share the cap: the failure that
\* would use the budget up is recorded instead of another release.
HandBack(st, failure) ==
    IF st.transientFailures + 1 >= MaxTransientFailures
    THEN MarkFailed(failure)
    ELSE Mark("Released")

\* queued_send_id: the writes whose stream record asks for a send, a new
\* queued item or one whose requeued_at has just appeared.
TriggersSender(before, after) ==
    /\ after.status = "queued"
    /\ ~before.requeuedAt
    /\ after.requeuedAt

IsSettled(st) == st.status \in {"sent", "failed"}
==============================================================================
