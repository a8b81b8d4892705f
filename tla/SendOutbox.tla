------------------------------ MODULE SendOutbox ------------------------------
(***************************************************************************)
(* The life of one committed send: the sender invocations that the mail    *)
(* table's stream triggers, the sweep, the operator, SES, the outbox       *)
(* objects and the send-state item they all race for                       *)
(* (crates/webhook/src/mail/sender.rs over claim_send, note_ses_call and   *)
(* mark_send of crates/mailbox-store/src/mailbox.rs).                      *)
(*                                                                         *)
(* Sends share no item but their thread, so one send is modelled.  A step  *)
(* is one call to the table, the bucket or SES; a read that only           *)
(* conditions the next write is a step of its own.  A transaction may fail *)
(* without effect, or commit and lose its answer: the SDK then reports a   *)
(* transient error, or TransactionInProgress and the store flow tries      *)
(* again.  Invocations may be killed between any two steps.                *)
(***************************************************************************)
EXTENDS SendState, FiniteSets

CONSTANTS
    Senders,        \* sender invocations that may run concurrently
    Sweep,          \* the scheduled sweep
    Operator,       \* whoever invokes the sender with a command
    MaxResends,     \* bound on operator resends
    MaxDeadLetters, \* bound on records the mapping gives up on
    SlowSenders     \* TRUE: a claim may look stale while its sender still runs

ASSUME ActorsAssumption ==
    /\ Sweep \notin Senders
    /\ Operator \notin Senders
    /\ Sweep # Operator

ASSUME BoundsAssumption ==
    MaxResends \in Nat /\ MaxDeadLetters \in Nat /\ SlowSenders \in BOOLEAN

Actors == Senders \cup {Sweep, Operator}

\* outbox/<message_id>/: the spec and the parts it names.
Objects == {"spec", "parts"}

VARIABLES
    item,       \* the send-state item in the mail table
    message,    \* the message item: its status label, the mirrored send status
                \* and whether an SES message id is recorded
    stream,     \* undelivered or retried stream records, by the item version
    dead,       \* records the mapping gave up on and sent to the DLQ
    outbox,     \* the objects still in the bucket
    work,       \* what each actor is doing
    accepted    \* how often SES accepted the message, per authorisation

vars == <<item, message, stream, dead, outbox, work, accepted>>

PC == {"idle", "claiming", "loading", "noting", "calling", "marking",
       "clearing", "clearingParts", "done"}

\* base: the image the actor read or last wrote; outcome: what it is about to
\* mark; rec: the stream record a sender is handling.
Idle == [pc |-> "idle", base |-> Queued, outcome |-> Mark("Unknown"), rec |-> 0]

\* An actor ends here with an error: a sender's record is delivered again.
GivesUp(a) == work' = [work EXCEPT ![a] = Idle]

\* An actor that needs its image no more: only the cleanup, if any, is left.
Ends(a, pc) == work' = [work EXCEPT ![a] = [Idle EXCEPT !.pc = pc, !.rec = work[a].rec]]

\* Having decided the outcome, an actor records it against the image it holds.
Records(a, outcome) ==
    work' = [work EXCEPT ![a].pc = "marking", ![a].outcome = outcome]

Init ==
    /\ item = Queued
    /\ message = [label |-> "queued", sendStatus |-> "queued", sesId |-> FALSE]
    /\ stream = {0}
    /\ dead = {}
    /\ outbox = Objects
    /\ work = [a \in Actors |-> Idle]
    /\ accepted = [e \in 0..MaxResends |-> 0]

-----------------------------------------------------------------------------
\* Plausible slips, used to show that the checks notice.

MarkCasOnStatusOnly(base) == item.status = base.status

OutcomeRetriesUnknown(base, ans) ==
    CASE ans = "Sent"   -> Mark("Sent")
      [] ans = "Failed" -> MarkFailed("rejected")
      [] OTHER          -> HandBack(base, "unavailable")

SweepIgnoresSesCall(stuck) == HandBack(stuck, "sender_abandoned")

SweepMissesSending(st) == st.status = "unknown"

-----------------------------------------------------------------------------
\* Transactions on the send state.

\* plan_state_cas: a claim or a note lands only over the status and the version
\* the writer holds.
StateCasHolds(base) == item.status = base.status /\ item.version = base.version

\* plan_mark: a mark lands only over the version the writer holds.
MarkCasHolds(base) == item.version = base.version

\* One committed write of the item: the stream carries its record, when it is
\* one that asks for a send.
Writes(after) ==
    /\ item' = after
    /\ stream' = IF TriggersSender(item, after)
                 THEN stream \cup {after.version}
                 ELSE stream

-----------------------------------------------------------------------------
\* handle_send: claim.

\* claim_send reads the state consistently and stops unless it is queued.
ReadsState(r) ==
    IF item.status = "queued"
    THEN [Idle EXCEPT !.pc = "claiming", !.base = item, !.rec = r]
    ELSE [Idle EXCEPT !.pc = "done", !.rec = r]

\* The mapping delivers a record.
TakeRecord(s, r) ==
    /\ work[s].pc = "idle"
    /\ r \in stream
    /\ work' = [work EXCEPT ![s] = ReadsState(r)]
    /\ UNCHANGED <<item, message, stream, dead, outbox, accepted>>

ClaimCommits(s) ==
    /\ work[s].pc = "claiming"
    /\ StateCasHolds(work[s].base)
    /\ Writes(Claimed(work[s].base))
    /\ work' = [work EXCEPT ![s].pc = "loading",
                            ![s].base = Claimed(work[s].base)]
    /\ UNCHANGED <<message, dead, outbox, accepted>>

\* The claim commits but its answer is lost: as an error the invocation fails;
\* as TransactionInProgress the flow reads the state again, finds the send
\* taken, and skips the record, nobody holding the claim.
ClaimCommitsUnseen(s) ==
    /\ work[s].pc = "claiming"
    /\ StateCasHolds(work[s].base)
    /\ Writes(Claimed(work[s].base))
    /\ GivesUp(s) \/ Ends(s, "done")
    /\ UNCHANGED <<message, dead, outbox, accepted>>

\* Another writer got there first: the flow reads the state again.
ClaimConflicts(s) ==
    /\ work[s].pc = "claiming"
    /\ ~StateCasHolds(work[s].base)
    /\ work' = [work EXCEPT ![s] = ReadsState(work[s].rec)]
    /\ UNCHANGED <<item, message, stream, dead, outbox, accepted>>

\* The store fails, or the retries run out, before anything is written.
ClaimErrs(s) ==
    /\ work[s].pc = "claiming"
    /\ GivesUp(s)
    /\ UNCHANGED <<item, message, stream, dead, outbox, accepted>>

-----------------------------------------------------------------------------
\* handle_send: load and build.

LoadSucceeds(s) ==
    /\ work[s].pc = "loading"
    /\ outbox = Objects
    /\ work' = [work EXCEPT ![s].pc = "noting"]
    /\ UNCHANGED <<item, message, stream, dead, outbox, accepted>>

\* An object that is gone will not come back.
LoadFindsNothing(s) ==
    /\ work[s].pc = "loading"
    /\ outbox # Objects
    /\ Records(s, MarkFailed(IF "spec" \in outbox THEN "part_missing"
                             ELSE "send_spec_missing"))
    /\ UNCHANGED <<item, message, stream, dead, outbox, accepted>>

\* Refused by the bucket or the attachment's host, too large, or unbuildable.
LoadRefused(s) ==
    /\ work[s].pc = "loading"
    /\ Records(s, MarkFailed("cannot_build"))
    /\ UNCHANGED <<item, message, stream, dead, outbox, accepted>>

\* Briefly unavailable, or out of the time kept for loading.
LoadUnavailable(s) ==
    /\ work[s].pc = "loading"
    /\ Records(s, HandBack(work[s].base, "unavailable"))
    /\ UNCHANGED <<item, message, stream, dead, outbox, accepted>>

-----------------------------------------------------------------------------
\* handle_send: note_ses_call, then one SES call.

NoteCommits(s) ==
    /\ work[s].pc = "noting"
    /\ StateCasHolds(work[s].base)
    /\ Writes(CallingSes(work[s].base))
    /\ work' = [work EXCEPT ![s].pc = "calling",
                            ![s].base = CallingSes(work[s].base)]
    /\ UNCHANGED <<message, dead, outbox, accepted>>

\* The note commits but its answer is lost: an error fails the invocation; a
\* second attempt of the same write finds the state moved on, by itself, and
\* the record is skipped.  SES is not called either way.
NoteCommitsUnseen(s) ==
    /\ work[s].pc = "noting"
    /\ StateCasHolds(work[s].base)
    /\ Writes(CallingSes(work[s].base))
    /\ GivesUp(s) \/ Ends(s, "done")
    /\ UNCHANGED <<message, dead, outbox, accepted>>

\* The claim is gone: not sending.
NoteConflicts(s) ==
    /\ work[s].pc = "noting"
    /\ ~StateCasHolds(work[s].base)
    /\ Ends(s, "done")
    /\ UNCHANGED <<item, message, stream, dead, outbox, accepted>>

NoteErrs(s) ==
    /\ work[s].pc = "noting"
    /\ GivesUp(s)
    /\ UNCHANGED <<item, message, stream, dead, outbox, accepted>>

\* classify_send_result: what the sender can be told, and whether SES may hold
\* the message when it is.  A success, and an unknown outcome, may follow an
\* acceptance; 429 and 503 (Retryable) and the other refusals do not.
SendOutcome == {"Sent", "Failed", "Retryable", "Unknown"}

SesAccepts(ans) ==
    CASE ans = "Sent" -> {TRUE}
      [] ans = "Unknown" -> BOOLEAN
      [] OTHER -> {FALSE}

\* record_outcome
OutcomeOf(base, ans) ==
    CASE ans = "Sent"      -> Mark("Sent")
      [] ans = "Failed"    -> MarkFailed("rejected")
      [] ans = "Retryable" -> HandBack(base, "unavailable")
      [] ans = "Unknown"   -> Mark("Unknown")

CallsSes(s, ans) ==
    /\ work[s].pc = "calling"
    /\ \E took \in SesAccepts(ans) :
          accepted' = IF took
                      THEN [accepted EXCEPT ![work[s].base.resends] = @ + 1]
                      ELSE accepted
    /\ Records(s, OutcomeOf(work[s].base, ans))
    /\ UNCHANGED <<item, message, stream, dead, outbox>>

\* Killed while the request is on its way: SES may still take the message, and
\* nobody is left to record it.
KilledInCall(s) ==
    /\ work[s].pc = "calling"
    /\ accepted' = [accepted EXCEPT ![work[s].base.resends] = @ + 1]
    /\ GivesUp(s)
    /\ UNCHANGED <<item, message, stream, dead, outbox>>

-----------------------------------------------------------------------------
\* The sweep and the operator decide an outcome for a send nobody works on.

\* list_by_status(Sending) reads the ByStatus index, which trails the table;
\* the image the sweep holds may be arbitrarily old by the time it is marked,
\* so a trailing index adds nothing to reading the item itself.  A claim counts
\* as stale once it is 15 minutes old.  A sender is killed after 2 minutes, so
\* the claim of one that still runs is never that old, unless clocks differ.
SweptStatus(st) == st.status = "sending"

HoldsClaim(s, st) ==
    /\ work[s].pc \in {"loading", "noting", "calling", "marking"}
    /\ work[s].base.sendingAt = st.sendingAt

Stale(st) == SlowSenders \/ \A s \in Senders : ~HoldsClaim(s, st)

SweepOutcome(stuck) ==
    IF stuck.sesCallAt THEN Mark("Unknown")
    ELSE HandBack(stuck, "sender_abandoned")

SweepFinds ==
    /\ work[Sweep].pc = "idle"
    /\ SweptStatus(item)
    /\ Stale(item)
    /\ work' = [work EXCEPT ![Sweep] = [Idle EXCEPT !.pc = "marking", !.base = item,
                                              !.outcome = SweepOutcome(item)]]
    /\ UNCHANGED <<item, message, stream, dead, outbox, accepted>>

\* resolve_unknown: refused unless the send is unknown.
Resolution ==
    {Mark("Resumed"), Mark("ClosedSent"), MarkFailed("closed_by_operator")}

OperatorResolves(outcome) ==
    /\ work[Operator].pc = "idle"
    /\ item.status = "unknown"
    /\ outcome.kind = "Resumed" => item.resends < MaxResends
    /\ work' = [work EXCEPT ![Operator] = [Idle EXCEPT !.pc = "marking",
                                                       !.base = item,
                                                       !.outcome = outcome]]
    /\ UNCHANGED <<item, message, stream, dead, outbox, accepted>>

-----------------------------------------------------------------------------
\* mark_send, the one write that touches the message: state, label and SES
\* reference change together, or not at all.

MarkWrites(a) ==
    LET w == work[a] IN
    /\ MarkCasHolds(w.base)
    /\ Writes(MarkTransition(w.base, w.outcome))
    /\ message' = [label |-> LabelAfter(message.label, w.outcome),
                   sendStatus |-> item'.status,
                   sesId |-> message.sesId \/ w.outcome.kind = "Sent"]

\* A settling outcome is followed by the cleanup of the outbox.
MarkCommits(a) ==
    /\ work[a].pc = "marking"
    /\ MarkWrites(a)
    /\ Ends(a, IF Settles(work[a].outcome) THEN "clearing" ELSE "done")
    /\ UNCHANGED <<dead, outbox, accepted>>

\* The mark commits but its answer is lost: the flow, or the next of
\* mark_sent's attempts, finds the version moved on and reports Conflict.
MarkCommitsUnseen(a) ==
    /\ work[a].pc = "marking"
    /\ MarkWrites(a)
    /\ GivesUp(a)
    /\ UNCHANGED <<dead, outbox, accepted>>

\* Another writer moved the send on (Conflict), or the store failed and the
\* attempts ran out.
MarkErrs(a) ==
    /\ work[a].pc = "marking"
    /\ GivesUp(a)
    /\ UNCHANGED <<item, message, stream, dead, outbox, accepted>>

\* clear_outbox: the spec is read, because it names the parts, then deleted,
\* then the parts.  Every failure is swallowed; a spec that cannot be read
\* keeps everything.
ClearSpec(a) ==
    /\ work[a].pc = "clearing"
    /\ \/ Ends(a, "done") /\ UNCHANGED outbox
       \/ /\ Ends(a, IF "spec" \in outbox THEN "clearingParts" ELSE "done")
          /\ outbox' \in {outbox, outbox \ {"spec"}}
    /\ UNCHANGED <<item, message, stream, dead, accepted>>

ClearParts(a) ==
    /\ work[a].pc = "clearingParts"
    /\ Ends(a, "done")
    /\ outbox' \in {outbox, outbox \ {"parts"}}
    /\ UNCHANGED <<item, message, stream, dead, accepted>>

-----------------------------------------------------------------------------
\* The end of an invocation, and what the event source does about it.

\* The invocation reports success: the record is checkpointed.
Succeeds(s) ==
    /\ work[s].pc = "done"
    /\ stream' = stream \ {work[s].rec}
    /\ GivesUp(s)
    /\ UNCHANGED <<item, message, dead, outbox, accepted>>

\* A sweep or an operator command simply returns.
Returns(a) ==
    /\ work[a].pc = "done"
    /\ GivesUp(a)
    /\ UNCHANGED <<item, message, stream, dead, outbox, accepted>>

\* Killed between two steps: a sender's record is delivered again.
Killed(a) ==
    /\ work[a].pc # "idle"
    /\ GivesUp(a)
    /\ UNCHANGED <<item, message, stream, dead, outbox, accepted>>

\* MaximumRetryAttempts is used up: the record goes to the sender's DLQ.
DeadLetter(r) ==
    /\ r \in stream
    /\ Cardinality(dead) < MaxDeadLetters
    /\ \A s \in Senders : work[s].pc # "idle" => work[s].rec # r
    /\ stream' = stream \ {r}
    /\ dead' = dead \cup {r}
    /\ UNCHANGED <<item, message, outbox, work, accepted>>

-----------------------------------------------------------------------------
SenderStep(s) ==
    \/ \E r \in stream : TakeRecord(s, r)
    \/ ClaimCommits(s)
    \/ ClaimCommitsUnseen(s)
    \/ ClaimConflicts(s)
    \/ ClaimErrs(s)
    \/ LoadSucceeds(s)
    \/ LoadFindsNothing(s)
    \/ LoadRefused(s)
    \/ LoadUnavailable(s)
    \/ NoteCommits(s)
    \/ NoteCommitsUnseen(s)
    \/ NoteConflicts(s)
    \/ NoteErrs(s)
    \/ \E ans \in SendOutcome : CallsSes(s, ans)
    \/ KilledInCall(s)
    \/ Succeeds(s)

MarkStep(a) ==
    \/ MarkCommits(a)
    \/ MarkCommitsUnseen(a)
    \/ MarkErrs(a)
    \/ ClearSpec(a)
    \/ ClearParts(a)
    \/ Killed(a)

Next ==
    \/ \E s \in Senders : SenderStep(s)
    \/ \E a \in Actors : MarkStep(a)
    \/ \E a \in {Sweep, Operator} : Returns(a)
    \/ SweepFinds
    \/ \E outcome \in Resolution : OperatorResolves(outcome)
    \/ \E r \in stream : DeadLetter(r)

Spec == Init /\ [][Next]_vars

-----------------------------------------------------------------------------
\* Fairness.  The event source keeps delivering records, an invocation that
\* runs takes its next step, the sweep is on a schedule.  A claim that is
\* retried for ever, and a sweep's mark that is, succeed in the end: the store
\* is not unavailable for ever.  Nothing is assumed of the operator or of SES's
\* answers.
Fairness ==
    /\ \A s \in Senders :
          /\ WF_vars(SenderStep(s) \/ MarkStep(s))
          /\ SF_vars(ClaimCommits(s))
    /\ WF_vars(SweepFinds)
    /\ SF_vars(MarkCommits(Sweep))
    /\ \A a \in {Sweep, Operator} : WF_vars(MarkStep(a) \/ Returns(a))

FairSpec == Spec /\ Fairness

-----------------------------------------------------------------------------
\* The variables have their types, and the hand-back budget is never overdrawn:
\* of the MAX_TRANSIENT_FAILURES attempts a send has, the last never releases.
TypeOK ==
    /\ item \in SendStateItem
    /\ item.transientFailures < MaxTransientFailures
    /\ item.resends <= MaxResends
    /\ message \in [label : SendLabel, sendStatus : SendStatus, sesId : BOOLEAN]
    /\ stream \subseteq Nat
    /\ dead \subseteq Nat
    /\ outbox \subseteq Objects
    /\ work \in [Actors -> [pc : PC, base : SendStateItem,
                            outcome : MarkOutcome, rec : Nat]]
    /\ accepted \in [0..MaxResends -> Nat]

\* At most once (the module comment of sender.rs): SES accepts the message at
\* most once under the enqueue and once more per resend an operator ordered,
\* whatever is redelivered, swept, retried, lost or killed.
AtMostOncePerAuthorisation == \A e \in 0..MaxResends : accepted[e] <= 1

\* hand_back and sweep release, and the service fails, only a send that SES
\* does not hold under the current authorisation and is not being offered by
\* any sender still running.
OfferedUnder(e) ==
    \E s \in Senders : work[s].pc = "calling" /\ work[s].base.resends = e

FailedByService == item.status = "failed" /\ item.failure # "closed_by_operator"

NotHeldWhenOpenOrFailed ==
    (item.status = "queued" \/ FailedByService)
       => accepted[item.resends] = 0 /\ ~OfferedUnder(item.resends)

\* mark_sent records an SES id only for a message SES accepted under the
\* authorisation the send was settled for.
SesIdMeansAccepted ==
    message.sesId => item.status = "sent" /\ accepted[item.resends] = 1

\* clear_outbox runs only for settled sends: until then every retry or resend
\* can rebuild the whole message.
OutboxKeptUntilSettled == ~IsSettled(item) => outbox = Objects

\* Every queued image has a stream record that will start a sender, unless the
\* mapping dead-lettered it: a release or a resend always shows requeued_at
\* appearing (queued_send_id), and no sender acknowledges a record early.
NoLostWakeup == item.status = "queued" => item.version \in stream \cup dead

\* plan_mark writes the message with the state: its label and mirrored status
\* never lag behind a send that has finished, and the label moves only when the
\* send settles, so the relay publishes one event per send, not per attempt.
MessageFollowsState ==
    /\ item.status # "sending" => message.sendStatus = item.status
    /\ message.label = CASE item.status = "sent"   -> "sent"
                         [] item.status = "failed" -> "rejected"
                         [] OTHER                  -> "queued"

\* Only resolve_unknown moves a send out of unknown: neither a sender that
\* wakes up late nor the sweep does.
UnknownWaitsForOperator ==
    [][item.status = "unknown" /\ item' # item
          => work[Operator].pc = "marking" /\ work'[Operator] # work[Operator]]_vars

\* A settled send is settled for good.
SettledIsFinal == [][IsSettled(item) => item' = item]_vars

\* A send does not stay queued or sending: it settles or waits for the
\* operator, unless the mapping gave up on a record.
EventuallyResolved ==
    item.status \in {"queued", "sending"}
       ~> IsSettled(item) \/ item.status = "unknown" \/ dead # {}

-----------------------------------------------------------------------------
\* The contract this module implements.

ContractPhase ==
    CASE item.status \in {"queued", "sending"} -> "open"
      [] item.status = "unknown"               -> "unknown"
      [] item.status = "sent" /\ message.sesId -> "sent"
      [] FailedByService                       -> "failed"
      [] OTHER                                 -> "closed"

Contract == INSTANCE SendContract
            WITH phase <- ContractPhase, resends <- item.resends

\* Every behaviour of senders, sweep, operator and failures is one of the
\* contract: what the service reports about a send is true of SES.
ImplementsContract == Contract!Spec

-----------------------------------------------------------------------------
\* The inductive invariant behind the safety properties, in named parts.

Holding == {"claiming", "loading", "noting", "calling", "marking"}

\* An image an actor holds is an earlier one, or the item itself; so a
\* conditional write that succeeds writes over exactly what was read.
Fenced(st) ==
    /\ st.version <= item.version
    /\ st.version = item.version => st = item
    /\ st.resends <= item.resends

\* SES does not hold the message under authorisation e, and nobody offers it.
Untried(e) == accepted[e] = 0 /\ ~OfferedUnder(e)

\* What kind of image each step of an actor works on.
ImageFits(a, w) ==
    /\ w.pc \in Holding => Fenced(w.base)
    /\ w.pc \in Holding \ {"marking"} => a \in Senders
    /\ w.pc = "claiming" => w.base.status = "queued"
    /\ w.pc \in {"loading", "noting"} =>
          w.base.status = "sending" /\ ~w.base.sesCallAt
    /\ w.pc = "calling" => w.base.status = "sending"
    /\ w.pc = "marking" =>
          w.base.status = IF a = Operator THEN "unknown" ELSE "sending"

\* What an actor may be about to record.
ServiceFailure(outcome) ==
    outcome.kind = "Failed" /\ outcome.failure # "closed_by_operator"

OutcomeFits(a, w) ==
    w.pc = "marking" =>
       /\ w.outcome.kind \in {"Resumed", "ClosedSent"} => a = Operator
       /\ w.outcome.kind \in {"Sent", "Released", "Unknown"} => a # Operator
       /\ w.outcome.kind = "Failed" => (ServiceFailure(w.outcome) <=> a # Operator)
       /\ w.outcome.kind = "Resumed" => w.base.resends < MaxResends
       /\ w.outcome.kind = "Released"
             => w.base.transientFailures + 1 < MaxTransientFailures

\* A release or a failure that can still be recorded is right, and so is sent.
MarkIsTrue(w) ==
    w.pc = "marking" /\ w.base.version = item.version =>
       /\ w.outcome.kind = "Released" \/ ServiceFailure(w.outcome)
             => Untried(item.resends)
       /\ w.outcome.kind = "Sent" => accepted[item.resends] = 1

\* A record a sender is done with asks for nothing any more.
RecordIsSpent(a, w) ==
    a \in Senders /\ w.pc # "idle" =>
       /\ w.rec <= item.version
       /\ w.pc # "claiming" /\ w.rec = item.version => item.status # "queued"

WorkFits(a, w) ==
    /\ ImageFits(a, w)
    /\ OutcomeFits(a, w)
    /\ MarkIsTrue(w)
    /\ RecordIsSpent(a, w)
    /\ w.pc \in {"clearing", "clearingParts"} => IsSettled(item)

\* A sender in its call is the only one of its authorisation.
CallersAreAlone ==
    \A s \in Senders : work[s].pc = "calling" =>
       /\ accepted[work[s].base.resends] = 0
       /\ \A t \in Senders : work[t].pc = "calling"
             /\ work[t].base.resends = work[s].base.resends => t = s

\* Until the note is written, nobody has offered the message.
Unoffered ==
    \/ item.status = "queued"
    \/ item.status = "sending" /\ ~item.sesCallAt
    \/ FailedByService

ItemFits ==
    /\ Unoffered => Untried(item.resends)
    /\ \A e \in 0..MaxResends : e > item.resends => accepted[e] = 0
    /\ item.status \in {"sending", "unknown"} => ~item.requeuedAt
    /\ \A r \in stream \cup dead : r <= item.version

SafetyInv ==
    /\ TypeOK
    /\ \A a \in Actors : WorkFits(a, work[a])
    /\ CallersAreAlone
    /\ ItemFits
    /\ AtMostOncePerAuthorisation
    /\ SesIdMeansAccepted
    /\ OutboxKeptUntilSettled
    /\ NoLostWakeup
    /\ MessageFollowsState
=============================================================================
