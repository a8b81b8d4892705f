----------------------------- MODULE EventRelay ------------------------------
(***************************************************************************)
(* The relay of the events table's stream to the event bus, next to the    *)
(* request path that fills it (handle_stream, publish_record and           *)
(* publish_status_changed in crates/webhook/src/stream.rs).                *)
(*                                                                         *)
(* The event-source mapping hands the relay batches in stream order, one   *)
(* invocation at a time.  A reported failure ends the invocation: the      *)
(* mapping goes on from that record.  An invocation that dies is repeated  *)
(* from the batch's first record.  When its retries are used up, what is   *)
(* left of the batch goes to the dead-letter queue.                        *)
(***************************************************************************)
EXTENDS EventIntake

CONSTANTS
    MaxBatch,   \* records in one invocation
    MaxTries,   \* failed invocations before the mapping gives up on a batch
    MaxFaults   \* bound on the failures that can repeat a publish

ASSUME RelayAssumption ==
    MaxBatch \in Nat \ {0} /\ MaxTries \in Nat \ {0} /\ MaxFaults \in Nat

VARIABLES
    checkpoint, \* the mapping is past this many records
    relay,      \* the invocation: its batch, the record it is at, its mailbox event
    tries,      \* invocations that failed at this checkpoint
    bus,        \* what EventBridge has accepted, oldest first
    dead,       \* the records given to the dead-letter queue
    faults,     \* invocations that may have failed with a publish in effect
    knownFrom,  \* the stream's length when the SES id was recorded
    refusedLookups  \* records whose mailbox lookup failed for good

relayVars == <<checkpoint, relay, tries, bus, dead, faults, knownFrom, refusedLookups>>
allVars == <<vars, relayVars>>

Idle == [at |-> 0, end |-> 0, step |-> "idle", mailbox |-> FALSE]

RelayInit ==
    /\ Init
    /\ checkpoint = 0 /\ relay = Idle /\ tries = 0 /\ bus = <<>> /\ dead = {}
    /\ faults = 0 /\ knownFrom = 0 /\ refusedLookups = {}

Record == stream[relay.at]

\* What the bus accepts for record i of the stream.
Published(i, what) == [rec |-> i, what |-> what]

-----------------------------------------------------------------------------
\* Plausible slips.

AnnouncesFirstStatusOnly(r) == r.old = NoStatus /\ r.new # NoStatus

\* Remembers the newest record it has told of, and is silent when that comes again.
SilentOnTheNewest(r) ==
    LET told == {bus[k].rec : k \in {j \in 1..Len(bus) : bus[j].what = "status"}}
    IN r.new # NoStatus /\ r.new # r.old /\ ~\E i \in told : stream[i] = r /\ \A j \in told : j <= i

RepeatsWholeBatch == relay' = Idle /\ checkpoint' = checkpoint /\ tries' = tries + 1

SettlesOnFailure == relay' = Idle /\ checkpoint' = relay.at /\ tries' = 0

NeverGivesUp(end) == FALSE

-----------------------------------------------------------------------------
\* publish_status_changed: a status that is set and differs from the old image.
IsTransition(r) == r.new # NoStatus /\ r.new # r.old

Invoke ==
    /\ relay = Idle
    /\ tries < MaxTries
    /\ \E end \in (checkpoint + 1)..Len(stream) :
          /\ end <= checkpoint + MaxBatch
          /\ relay' = [Idle EXCEPT !.at = checkpoint + 1, !.end = end, !.step = "classify"]
    /\ UNCHANGED <<checkpoint, tries, bus, dead, faults, knownFrom, refusedLookups>>

\* A settled record: on to the next, or the whole batch is done.
Settles ==
    IF relay.at < relay.end
    THEN relay' = [relay EXCEPT !.at = @ + 1, !.step = "classify", !.mailbox = FALSE]
         /\ UNCHANGED <<checkpoint, tries>>
    ELSE relay' = Idle /\ checkpoint' = relay.end /\ tries' = 0

\* RelayOutcome::Retry: the failure is reported and the batch stops.
Retries ==
    /\ relay' = Idle
    /\ checkpoint' = relay.at - 1
    /\ tries' = IF relay.at - 1 = checkpoint THEN tries + 1 ELSE 1

\* StreamItem::classify: where the handling of the record starts.
Classify ==
    /\ relay.step = "classify"
    /\ IF Record.item = "agg"
       THEN IF IsTransition(Record)
            THEN relay' = [relay EXCEPT !.step = "status"] /\ UNCHANGED <<checkpoint, tries>>
            ELSE Settles
       ELSE /\ relay' = [relay EXCEPT !.step =
                            IF Kind[Record.note] \in DOMAIN MailboxLabel THEN "lookup" ELSE "event"]
            /\ UNCHANGED <<checkpoint, tries>>
    /\ UNCHANGED <<bus, dead, faults, knownFrom, refusedLookups>>

\* mailbox_ses_event, before anything is published: found only once the sender
\* has recorded the SES id.
LooksUp ==
    /\ relay.step = "lookup"
    /\ relay' = [relay EXCEPT !.step = "event", !.mailbox = marked]
    /\ UNCHANGED <<checkpoint, tries, bus, dead, faults, knownFrom, refusedLookups>>

\* A permanent failure: the event is published without its mailbox event.
LookupRefused ==
    /\ relay.step = "lookup"
    /\ relay' = [relay EXCEPT !.step = "event"]
    /\ refusedLookups' = refusedLookups \cup {relay.at}
    /\ UNCHANGED <<checkpoint, tries, bus, dead, faults, knownFrom>>

\* What a publish of each step announces, and whether the record is then done.
PublishSteps == {"event", "mailbox", "status"}

Publishes ==
    /\ relay.step \in PublishSteps
    /\ bus' = Append(bus, Published(relay.at, relay.step))
    /\ IF relay.step = "event" /\ relay.mailbox
       THEN relay' = [relay EXCEPT !.step = "mailbox"] /\ UNCHANGED <<checkpoint, tries>>
       ELSE Settles
    /\ UNCHANGED <<dead, faults, knownFrom, refusedLookups>>

\* A transient lookup failure, or a publish that fails.
RecordFails ==
    /\ relay.step \in {"lookup"} \cup PublishSteps
    /\ relay.step = "mailbox" => faults < MaxFaults
    /\ Retries
    /\ faults' = faults + IF relay.step = "mailbox" THEN 1 ELSE 0
    /\ UNCHANGED <<bus, dead, knownFrom, refusedLookups>>

\* The publish is accepted, its answer lost: it looks like a failure.
PublishAnswerLost ==
    /\ relay.step \in PublishSteps
    /\ faults < MaxFaults
    /\ bus' = Append(bus, Published(relay.at, relay.step))
    /\ Retries
    /\ faults' = faults + 1
    /\ UNCHANGED <<dead, knownFrom, refusedLookups>>

\* The invocation dies and the mapping repeats the whole batch.
RelayDies ==
    /\ relay # Idle
    /\ faults < MaxFaults
    /\ relay' = Idle
    /\ tries' = tries + 1
    /\ faults' = faults + 1
    /\ UNCHANGED <<checkpoint, bus, dead, knownFrom, refusedLookups>>

\* It dies when its publish is accepted, of the batch's last record perhaps.
DiesHavingPublished ==
    /\ relay.step \in PublishSteps
    /\ faults < MaxFaults
    /\ bus' = Append(bus, Published(relay.at, relay.step))
    /\ relay' = Idle
    /\ tries' = tries + 1
    /\ faults' = faults + 1
    /\ UNCHANGED <<checkpoint, dead, knownFrom, refusedLookups>>

\* Retries used up: the batch, or what bisecting left of it, is dead-lettered.
GivesUpOn(end) == tries >= MaxTries /\ end \in (checkpoint + 1)..Len(stream)

DeadLetters ==
    /\ relay = Idle
    /\ \E end \in 1..Len(stream) :
          /\ GivesUpOn(end)
          /\ end <= checkpoint + MaxBatch
          /\ dead' = dead \cup (checkpoint + 1)..end
          /\ checkpoint' = end
    /\ tries' = 0
    /\ UNCHANGED <<relay, bus, faults, knownFrom, refusedLookups>>

RelayStep ==
    \/ Invoke \/ Classify \/ LooksUp \/ LookupRefused \/ Publishes
    \/ RecordFails \/ PublishAnswerLost \/ RelayDies \/ DiesHavingPublished \/ DeadLetters

\* The request path runs beside it.
IntakeStep ==
    /\ IntakeNext
    /\ knownFrom' = IF marked' # marked THEN Len(stream) ELSE knownFrom
    /\ UNCHANGED <<checkpoint, relay, tries, bus, dead, faults, refusedLookups>>

RelayNext == IntakeStep \/ (RelayStep /\ UNCHANGED vars)

RelaySpec == RelayInit /\ [][RelayNext]_allVars

\* Lambda keeps invoking the relay while the stream has records; that an
\* invocation fails is not fair, that it takes its next step is.
FairRelaySpec == RelaySpec /\ WF_allVars(RelayStep /\ UNCHANGED vars)

-----------------------------------------------------------------------------
Announcements(i) ==
    LET r == stream[i] IN
    IF r.item = "agg" THEN IF r.new \notin {r.old, NoStatus} THEN {"status"} ELSE {}
    ELSE {"event"} \cup (IF /\ Kind[r.note] \in DOMAIN MailboxLabel
                            /\ marked /\ i > knownFrom
                            /\ i \notin refusedLookups
                         THEN {"mailbox"} ELSE {})

Announced(i, what) == \E k \in 1..Len(bus) : bus[k] = Published(i, what)

\* stream.rs, "a publish that outlives SNS's redelivery budget can no longer be
\* lost": whatever fails or dies, a record the mapping is past has announced all
\* it had to, its mailbox event included when the send was known as it was
\* written, or is in the dead-letter queue.
NoSilentLoss ==
    \A i \in 1..checkpoint :
       i \in dead \/ \A what \in Announcements(i) : Announced(i, what)

\* "publishing those now would publish them twice": a record is announced again
\* only after an invocation that failed with a publish in effect.
RepeatsOnlyAfterFaults ==
    \A k \in 1..Len(bus) :
       Cardinality({j \in 1..Len(bus) : bus[j] = bus[k]}) <= 1 + faults

\* A record is announced, and no more often than faults explain.
RelayedFaithfully == NoSilentLoss /\ RepeatsOnlyAfterFaults

\* The status that the bus was last told of is s.
ToldIs(s) ==
    \/ \E k \in 1..Len(bus) :
          /\ bus[k].what = "status" /\ stream[bus[k].rec].new = s
          /\ \A j \in (k + 1)..Len(bus) : bus[j].what # "status"
    \/ s = NoStatus /\ \A j \in 1..Len(bus) : bus[j].what # "status"

\* publish_status_changed, "consumers get the authoritative status": though a
\* repeated batch announces old statuses again, once the relay is at rest with
\* the stream read and nothing dead-lettered, the last one announced is current.
ConsumersSettleOnStatus ==
    relay = Idle /\ checkpoint = Len(stream) /\ dead = {} => ToldIs(status)

\* "Delivery is guaranteed by the event-source mapping's retries and on-failure
\* destination": every persisted event is published or dead-lettered in the end.
EventuallyAnnounced ==
    \A n \in Notes :
       n \in events ~> \E i \in 1..Len(stream) :
                          /\ stream[i] = EventRecord(n)
                          /\ Announced(i, "event") \/ i \in dead
==============================================================================
