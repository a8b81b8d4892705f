--------------------------- MODULE SendOutboxProofs ---------------------------
(***************************************************************************)
(* Machine-checked proofs about SendOutbox, for any set of senders, any    *)
(* hand-back budget and any number of resends.                             *)
(***************************************************************************)
EXTENDS SendOutbox, TLAPS

\* What an actor's entry in work is.
WorkItem == [pc : PC, base : SendStateItem, outcome : MarkOutcome, rec : Nat]

-----------------------------------------------------------------------------
(***************************************************************************)
(* The transitions of SendState.                                           *)
(***************************************************************************)

\* Replacing one field of an item by a value of its type gives an item.
LEMMA ItemUpdates ==
    ASSUME NEW t \in SendStateItem
    PROVE  /\ \A v \in SendStatus : [t EXCEPT !.status = v] \in SendStateItem
           /\ \A v \in Nat :
                 /\ [t EXCEPT !.version = v] \in SendStateItem
                 /\ [t EXCEPT !.sendingAt = v] \in SendStateItem
                 /\ [t EXCEPT !.transientFailures = v] \in SendStateItem
                 /\ [t EXCEPT !.resends = v] \in SendStateItem
           /\ \A v \in BOOLEAN :
                 /\ [t EXCEPT !.sesCallAt = v] \in SendStateItem
                 /\ [t EXCEPT !.requeuedAt = v] \in SendStateItem
           /\ \A v \in SendFailure \cup {NoFailure} :
                 [t EXCEPT !.failure = v] \in SendStateItem
<1>1. \A v \in SendStatus : [t EXCEPT !.status = v] \in SendStateItem
  BY DEF SendStateItem
<1>2. \A v \in Nat :
         /\ [t EXCEPT !.version = v] \in SendStateItem
         /\ [t EXCEPT !.sendingAt = v] \in SendStateItem
         /\ [t EXCEPT !.transientFailures = v] \in SendStateItem
         /\ [t EXCEPT !.resends = v] \in SendStateItem
  BY DEF SendStateItem
<1>3. \A v \in BOOLEAN :
         /\ [t EXCEPT !.sesCallAt = v] \in SendStateItem
         /\ [t EXCEPT !.requeuedAt = v] \in SendStateItem
  BY DEF SendStateItem
<1>4. \A v \in SendFailure \cup {NoFailure} : [t EXCEPT !.failure = v] \in SendStateItem
  BY DEF SendStateItem
<1> QED BY <1>1, <1>2, <1>3, <1>4

\* What claim_send writes.
LEMMA ClaimedType ==
    ASSUME NEW st \in SendStateItem
    PROVE  /\ Claimed(st) \in SendStateItem
           /\ Claimed(st).version = st.version + 1
           /\ Claimed(st).resends = st.resends
           /\ Claimed(st).transientFailures = st.transientFailures
           /\ Claimed(st).status = "sending"
           /\ ~Claimed(st).sesCallAt
           /\ ~Claimed(st).requeuedAt
           /\ Claimed(st).failure = st.failure
<1>1. st.version + 1 \in Nat /\ "sending" \in SendStatus
  BY DEF SendStateItem, SendStatus
<1>2. Claimed(st) \in SendStateItem
  BY <1>1, ItemUpdates DEF Claimed
<1> QED BY <1>2 DEF Claimed, SendStateItem

\* What note_ses_call writes.
LEMMA CallingSesType ==
    ASSUME NEW st \in SendStateItem
    PROVE  /\ CallingSes(st) \in SendStateItem
           /\ CallingSes(st).version = st.version + 1
           /\ CallingSes(st).resends = st.resends
           /\ CallingSes(st).transientFailures = st.transientFailures
           /\ CallingSes(st).status = st.status
           /\ CallingSes(st).sesCallAt
           /\ CallingSes(st).requeuedAt = st.requeuedAt
           /\ CallingSes(st).failure = st.failure
<1>1. st.version + 1 \in Nat
  BY DEF SendStateItem
<1>2. CallingSes(st) \in SendStateItem
  BY <1>1, ItemUpdates DEF CallingSes
<1> QED BY <1>2 DEF CallingSes, SendStateItem

\* What mark_send writes, by the kind of the outcome.
LEMMA SettledType ==
    ASSUME NEW st \in SendStateItem
    PROVE  /\ Sent(st) \in SendStateItem
           /\ \A f \in SendFailure \cup {NoFailure} : Failed(st, f) \in SendStateItem
           /\ Unknown(st) \in SendStateItem
           /\ Released(st) \in SendStateItem
           /\ Resumed(st) \in SendStateItem
<1>1. /\ st.version + 1 \in Nat
      /\ st.transientFailures + 1 \in Nat
      /\ st.resends + 1 \in Nat
      /\ SendStatus = {"queued", "sending", "sent", "failed", "unknown"}
  BY DEF SendStateItem, SendStatus
<1>2. Sent(st) \in SendStateItem /\ Unknown(st) \in SendStateItem
  BY <1>1, ItemUpdates DEF Sent, Unknown
<1>3. \A f \in SendFailure \cup {NoFailure} : Failed(st, f) \in SendStateItem
  BY <1>1, ItemUpdates DEF Failed
<1>4. Released(st) \in SendStateItem
  BY <1>1, ItemUpdates DEF Released
<1>5. Resumed(st) \in SendStateItem
  BY <1>1, ItemUpdates DEF Resumed
<1> QED BY <1>2, <1>3, <1>4, <1>5

LEMMA MarkTransitionType ==
    ASSUME NEW st \in SendStateItem, NEW o \in MarkOutcome
    PROVE  LET after == MarkTransition(st, o) IN
           /\ after \in SendStateItem
           /\ after.version = st.version + 1
           /\ o.kind \in {"Sent", "ClosedSent"} => after.status = "sent"
           /\ o.kind = "Failed" => /\ after.status = "failed"
                                   /\ after.failure = o.failure
           /\ o.kind = "Unknown" => after.status = "unknown"
           /\ o.kind \in {"Released", "Resumed"} =>
                 after.status = "queued" /\ after.requeuedAt
           /\ o.kind \notin {"Released", "Resumed"} =>
                 after.requeuedAt = st.requeuedAt
           /\ o.kind = "Resumed" =>
                 after.resends = st.resends + 1 /\ after.transientFailures = 0
           /\ o.kind # "Resumed" => after.resends = st.resends
           /\ o.kind = "Released" =>
                 after.transientFailures = st.transientFailures + 1
           /\ o.kind \notin {"Released", "Resumed"} =>
                 after.transientFailures = st.transientFailures
<1>0. o.failure \in SendFailure \cup {NoFailure} /\ o.kind \in MarkKind
  BY DEF MarkOutcome
<1>1. CASE o.kind \in {"Sent", "ClosedSent"}
  <2>1. MarkTransition(st, o) = Sent(st)
    BY <1>1 DEF MarkTransition
  <2>2. Sent(st) \in SendStateItem
    BY SettledType
  <2>3. /\ Sent(st).version = st.version + 1
        /\ Sent(st).status = "sent"
        /\ Sent(st).requeuedAt = st.requeuedAt
        /\ Sent(st).resends = st.resends
        /\ Sent(st).transientFailures = st.transientFailures
    BY DEF Sent, SendStateItem
  <2> QED BY <1>1, <2>1, <2>2, <2>3
<1>2. CASE o.kind = "Failed"
  <2>1. MarkTransition(st, o) = Failed(st, o.failure)
    BY <1>2 DEF MarkTransition
  <2> QED BY <1>2, <2>1, <1>0, SettledType DEF Failed, SendStateItem
<1>3. CASE o.kind = "Unknown"
  <2>1. MarkTransition(st, o) = Unknown(st)
    BY <1>3 DEF MarkTransition
  <2>2. Unknown(st) \in SendStateItem
    BY SettledType
  <2>3. /\ Unknown(st).version = st.version + 1
        /\ Unknown(st).status = "unknown"
        /\ Unknown(st).requeuedAt = st.requeuedAt
        /\ Unknown(st).resends = st.resends
        /\ Unknown(st).transientFailures = st.transientFailures
    BY DEF Unknown, SendStateItem
  <2> QED BY <1>3, <2>1, <2>2, <2>3
<1>4. CASE o.kind = "Released"
  <2>1. MarkTransition(st, o) = Released(st)
    BY <1>4 DEF MarkTransition
  <2> QED BY <1>4, <2>1, <1>0, SettledType DEF Released, SendStateItem
<1>5. CASE o.kind = "Resumed"
  <2>1. MarkTransition(st, o) = Resumed(st)
    BY <1>5 DEF MarkTransition
  <2> QED BY <1>5, <2>1, <1>0, SettledType DEF Resumed, SendStateItem
<1> QED BY <1>0, <1>1, <1>2, <1>3, <1>4, <1>5 DEF MarkKind

\* HandBack releases only while the budget allows it, and otherwise fails.
LEMMA HandBackType ==
    ASSUME NEW st \in SendStateItem,
           NEW f \in {"unavailable", "sender_abandoned"}
    PROVE  /\ HandBack(st, f) \in MarkOutcome
           /\ HandBack(st, f).kind \in {"Released", "Failed"}
           /\ HandBack(st, f).kind = "Failed" => HandBack(st, f).failure = f
           /\ HandBack(st, f).kind = "Released" =>
                 st.transientFailures + 1 < MaxTransientFailures
BY MaxTransientFailuresAssumption
   DEF HandBack, Mark, MarkFailed, MarkOutcome, MarkKind, SendFailure,
       NoFailure, SendStateItem

LEMMA IdleType == Idle \in WorkItem /\ Idle.pc = "idle"
<1>1. Queued \in SendStateItem
  BY DEF Queued, SendStateItem, SendStatus, NoFailure
<1>2. Mark("Unknown") \in MarkOutcome
  BY DEF Mark, MarkOutcome, MarkKind, NoFailure
<1> QED BY <1>1, <1>2 DEF Idle, WorkItem, PC

-----------------------------------------------------------------------------
(***************************************************************************)
(* Two shapes of step: one that leaves the item alone, and one that writes *)
(* it.                                                                     *)
(***************************************************************************)

\* What replacing one actor's entry does to work.
LEMMA WorkUpdate ==
    ASSUME TypeOK, NEW a \in Actors, NEW w \in WorkItem,
           work' = [work EXCEPT ![a] = w]
    PROVE  /\ work' \in [Actors -> WorkItem]
           /\ work'[a] = w
           /\ \A b \in Actors : b # a => work'[b] = work[b]
           /\ \A b \in Actors : work[b] \in WorkItem
BY DEF TypeOK, WorkItem

\* An actor may move to any entry that fits the item, as long as it is not one
\* that calls SES.
LEMMA QuietStep ==
    ASSUME SafetyInv,
           NEW a \in Actors, NEW w \in WorkItem,
           work' = [work EXCEPT ![a] = w],
           WorkFits(a, w), w.pc # "calling",
           UNCHANGED <<item, message, accepted>>,
           stream' \cup dead' \subseteq stream \cup dead,
           NoLostWakeup',
           outbox' \subseteq Objects,
           OutboxKeptUntilSettled'
    PROVE  SafetyInv'
<1>1. /\ work' \in [Actors -> WorkItem]
      /\ work'[a] = w
      /\ \A b \in Actors : b # a => work'[b] = work[b]
  BY WorkUpdate DEF SafetyInv
<1>2. TypeOK'
  <2>1. stream' \subseteq Nat /\ dead' \subseteq Nat
    BY DEF SafetyInv, TypeOK
  <2> QED BY <1>1, <2>1 DEF SafetyInv, TypeOK, WorkItem
<1>3. \A s \in Senders : work'[s].pc = "calling" => work'[s] = work[s]
  BY <1>1 DEF Actors
<1>4. \A e : Untried(e) => Untried(e)'
  BY <1>3 DEF Untried, OfferedUnder
<1>5. \A b \in Actors : WorkFits(b, work'[b])
  BY <1>1 DEF SafetyInv
<1>6. \A b \in Actors : WorkFits(b, work[b])'
  <2> SUFFICES ASSUME NEW b \in Actors PROVE WorkFits(b, work[b])'
    OBVIOUS
  <2>1. WorkFits(b, work'[b])
    BY <1>5
  <2>2. ImageFits(b, work[b])' /\ OutcomeFits(b, work[b])' /\ RecordIsSpent(b, work[b])'
    BY <2>1 DEF WorkFits, ImageFits, OutcomeFits, RecordIsSpent, Fenced, ServiceFailure
  <2>3. MarkIsTrue(work[b])'
    BY <2>1, <1>4 DEF WorkFits, MarkIsTrue, ServiceFailure
  <2> QED BY <2>1, <2>2, <2>3 DEF WorkFits, IsSettled
<1>7. CallersAreAlone'
  BY <1>3 DEF SafetyInv, CallersAreAlone
<1>8. ItemFits'
  BY <1>4 DEF SafetyInv, ItemFits, Unoffered, FailedByService
<1>9. (AtMostOncePerAuthorisation /\ SesIdMeansAccepted /\ MessageFollowsState)'
  BY DEF SafetyInv, AtMostOncePerAuthorisation, SesIdMeansAccepted, MessageFollowsState
<1> QED BY <1>2, <1>6, <1>7, <1>8, <1>9 DEF SafetyInv

\* A writer whose condition holds wrote over the image it held: every other
\* image is outdated by the step.
LEMMA WritingStep ==
    ASSUME SafetyInv,
           NEW a \in Actors, NEW w \in WorkItem,
           work' = [work EXCEPT ![a] = w],
           item' \in SendStateItem,
           item'.version = item.version + 1,
           item'.resends \in item.resends..MaxResends,
           item'.transientFailures < MaxTransientFailures,
           ~IsSettled(item),
           stream' = IF TriggersSender(item, item')
                     THEN stream \cup {item'.version} ELSE stream,
           UNCHANGED <<dead, outbox, accepted>>,
           message' \in [label : SendLabel, sendStatus : SendStatus, sesId : BOOLEAN],
           WorkFits(a, w)',
           CallersAreAlone',
           (Unoffered => Untried(item.resends))',
           item'.status \in {"sending", "unknown"} => ~item'.requeuedAt,
           item'.status = "queued" => TriggersSender(item, item'),
           SesIdMeansAccepted', MessageFollowsState'
    PROVE  SafetyInv'
<1>1. /\ work' \in [Actors -> WorkItem]
      /\ work'[a] = w
      /\ \A b \in Actors : b # a => work'[b] = work[b]
      /\ \A b \in Actors : work[b] \in WorkItem
  BY WorkUpdate DEF SafetyInv
<1>2. item \in SendStateItem /\ item.version \in Nat /\ item.resends \in Nat
      /\ MaxResends \in Nat
  BY BoundsAssumption DEF SafetyInv, TypeOK, SendStateItem
<1>3. stream' \subseteq Nat /\ \A r \in stream' \cup dead' : r <= item'.version
  <2>1. /\ stream \subseteq Nat /\ dead \subseteq Nat
        /\ \A r \in stream \cup dead : r <= item.version
    BY DEF SafetyInv, TypeOK, ItemFits
  <2>2. /\ stream' \subseteq stream \cup {item'.version} /\ dead' = dead
        /\ item'.version \in Nat /\ item'.version <= item'.version
    BY <1>2
  <2>3. \A r \in stream \cup dead : r <= item'.version
    BY <1>2, <2>1
  <2> QED BY ONLY <2>1, <2>2, <2>3
<1>4. TypeOK'
  <2>1. item'.resends <= MaxResends
    BY <1>2
  <2> QED BY <1>1, <1>3, <2>1 DEF SafetyInv, TypeOK, WorkItem
<1>5. \A b \in Actors : WorkFits(b, work[b])'
  <2> SUFFICES ASSUME NEW b \in Actors, b # a PROVE WorkFits(b, work[b])'
    BY <1>1
  <2>1. work'[b] = work[b] /\ work[b] \in WorkItem /\ WorkFits(b, work[b])
    BY <1>1 DEF SafetyInv
  <2>2. work[b].pc \in Holding => work[b].base.version < item'.version
    BY <1>2, <2>1 DEF WorkFits, ImageFits, Fenced, WorkItem, SendStateItem
  <2>3. ImageFits(b, work[b])'
    BY <1>2, <2>1, <2>2 DEF WorkFits, ImageFits, Fenced, WorkItem, SendStateItem
  <2>4. OutcomeFits(b, work[b])'
    BY <2>1 DEF WorkFits, OutcomeFits, ServiceFailure
  <2>5. MarkIsTrue(work[b])'
    BY <2>1, <2>2, <1>2 DEF MarkIsTrue, Holding, WorkItem, SendStateItem
  <2>6. RecordIsSpent(b, work[b])'
    BY <2>1, <1>2 DEF WorkFits, RecordIsSpent, WorkItem
  <2> QED BY <2>1, <2>3, <2>4, <2>5, <2>6 DEF WorkFits
<1>6. ItemFits'
  <2>1. \A e \in 0..MaxResends : e > item'.resends => accepted'[e] = 0
    BY <1>2 DEF SafetyInv, ItemFits
  <2> QED BY <1>3, <2>1 DEF ItemFits
<1>7. (AtMostOncePerAuthorisation /\ OutboxKeptUntilSettled)'
  BY DEF SafetyInv, AtMostOncePerAuthorisation, OutboxKeptUntilSettled
<1>8. NoLostWakeup'
  BY DEF NoLostWakeup
<1> QED BY <1>4, <1>5, <1>6, <1>7, <1>8 DEF SafetyInv

-----------------------------------------------------------------------------
(***************************************************************************)
(* The entries an actor moves to.                                          *)
(***************************************************************************)

Ended(pc, r) == [Idle EXCEPT !.pc = pc, !.rec = r]

Marking(a, outcome) == [work[a] EXCEPT !.pc = "marking", !.outcome = outcome]

Read(st, r) == [Idle EXCEPT !.pc = "claiming", !.base = st, !.rec = r]

LEMMA EndedType ==
    ASSUME NEW pc \in PC, NEW r \in Nat
    PROVE  /\ Ended(pc, r) \in WorkItem
           /\ Ended(pc, r).pc = pc /\ Ended(pc, r).rec = r
<1>1. Idle \in WorkItem
  BY IdleType
<1>2. [Idle EXCEPT !.pc = pc] \in WorkItem
  BY <1>1 DEF WorkItem
<1>3. Ended(pc, r) \in WorkItem
  BY <1>2 DEF WorkItem, Ended
<1> QED BY <1>1, <1>3 DEF WorkItem, Ended

\* GivesUp: an idle actor fits any item.
LEMMA IdleFits == ASSUME NEW a PROVE WorkFits(a, Idle) /\ WorkFits(a, Idle)'
BY IdleType DEF WorkFits, ImageFits, OutcomeFits, MarkIsTrue, RecordIsSpent, Holding

\* Ends: an actor that holds no image any more fits when its record is spent.
LEMMA EndedFits ==
    ASSUME NEW a \in Actors, NEW r \in Nat,
           NEW pc \in {"clearing", "clearingParts", "done"}
    PROVE  /\ /\ pc # "done" => IsSettled(item)
              /\ RecordIsSpent(a, Ended(pc, r))
              => WorkFits(a, Ended(pc, r))
           /\ /\ pc # "done" => IsSettled(item)'
              /\ RecordIsSpent(a, Ended(pc, r))'
              => WorkFits(a, Ended(pc, r))'
<1>1. Ended(pc, r).pc = pc
  BY EndedType DEF PC
<1> QED BY <1>1 DEF WorkFits, ImageFits, OutcomeFits, MarkIsTrue, Holding

LEMMA MarkingType ==
    ASSUME TypeOK, NEW a \in Actors, NEW outcome \in MarkOutcome
    PROVE  /\ Marking(a, outcome) \in WorkItem
           /\ Marking(a, outcome).pc = "marking"
           /\ Marking(a, outcome).base = work[a].base
           /\ Marking(a, outcome).outcome = outcome
           /\ Marking(a, outcome).rec = work[a].rec
<1>1. work[a] \in WorkItem
  BY DEF TypeOK, WorkItem
<1>2. [work[a] EXCEPT !.pc = "marking"] \in WorkItem
  BY <1>1 DEF WorkItem, PC
<1>3. Marking(a, outcome) \in WorkItem
  BY <1>2 DEF WorkItem, Marking
<1> QED BY <1>1, <1>3 DEF WorkItem, Marking

LEMMA ReadType ==
    ASSUME NEW st \in SendStateItem, NEW r \in Nat
    PROVE  /\ Read(st, r) \in WorkItem
           /\ Read(st, r).pc = "claiming"
           /\ Read(st, r).base = st
           /\ Read(st, r).rec = r
<1>1. Idle \in WorkItem
  BY IdleType
<1>2. [Idle EXCEPT !.pc = "claiming"] \in WorkItem
  BY <1>1 DEF WorkItem, PC
<1>3. [Idle EXCEPT !.pc = "claiming", !.base = st] \in WorkItem
  BY <1>2 DEF WorkItem
<1>4. Read(st, r) \in WorkItem
  BY <1>3 DEF WorkItem, Read
<1> QED BY <1>1, <1>4 DEF WorkItem, Read

\* The common case of QuietStep: only the actor's entry changes.
LEMMA WorkStep ==
    ASSUME SafetyInv, NEW a \in Actors, NEW w \in WorkItem,
           work' = [work EXCEPT ![a] = w],
           WorkFits(a, w), w.pc # "calling",
           UNCHANGED <<item, message, stream, dead, outbox, accepted>>
    PROVE  SafetyInv'
<1>1. /\ stream' \cup dead' \subseteq stream \cup dead
      /\ outbox' \subseteq Objects
  BY DEF SafetyInv, TypeOK
<1>2. NoLostWakeup' /\ OutboxKeptUntilSettled'
  BY DEF SafetyInv, NoLostWakeup, OutboxKeptUntilSettled, IsSettled
<1> QED BY <1>1, <1>2, QuietStep

-----------------------------------------------------------------------------
(***************************************************************************)
(* One lemma per group of actions.                                         *)
(***************************************************************************)

\* An invocation that fails, conflicts, returns or is killed without a write.
LEMMA GivingUp ==
    ASSUME SafetyInv, NEW a \in Actors, GivesUp(a),
           UNCHANGED <<item, message, stream, dead, outbox, accepted>>
    PROVE  SafetyInv'
<1>1. work' = [work EXCEPT ![a] = Idle]
  BY DEF GivesUp
<1> QED BY <1>1, IdleType, IdleFits, WorkStep

\* claim_send's read, at the start and after a conflict.
LEMMA Reading ==
    ASSUME SafetyInv, NEW s \in Senders, NEW r \in Nat, r <= item.version,
           work' = [work EXCEPT ![s] = ReadsState(r)],
           UNCHANGED <<item, message, stream, dead, outbox, accepted>>
    PROVE  SafetyInv'
<1>0. s \in Actors /\ item \in SendStateItem /\ item.version \in Nat /\ item.resends \in Nat
  BY DEF Actors, SafetyInv, TypeOK, SendStateItem
<1>1. CASE item.status = "queued"
  <2>1. ReadsState(r) = Read(item, r)
    BY <1>1 DEF ReadsState, Read
  <2>2. /\ Read(item, r) \in WorkItem /\ Read(item, r).pc = "claiming"
        /\ Read(item, r).base = item /\ Read(item, r).rec = r
    BY <1>0, ReadType
  <2>3. WorkFits(s, Read(item, r))
    BY <1>0, <1>1, <2>2 DEF WorkFits, ImageFits, OutcomeFits, MarkIsTrue,
       RecordIsSpent, Fenced, Holding
  <2> QED BY <1>0, <2>1, <2>2, <2>3, WorkStep
<1>2. CASE item.status # "queued"
  <2>1. ReadsState(r) = Ended("done", r)
    BY <1>2 DEF ReadsState, Ended
  <2>2. /\ Ended("done", r) \in WorkItem
        /\ Ended("done", r).pc = "done" /\ Ended("done", r).rec = r
    BY EndedType DEF PC
  <2>3. WorkFits(s, Ended("done", r))
    BY <1>0, <1>2, <2>2, EndedFits DEF RecordIsSpent
  <2> QED BY <1>0, <2>1, <2>2, <2>3, WorkStep
<1> QED BY <1>1, <1>2

\* An actor that decides what to record: the entry fits when the image does
\* and the outcome is right.
LEMMA Deciding ==
    ASSUME SafetyInv, NEW a \in Actors, NEW outcome \in MarkOutcome,
           Records(a, outcome),
           WorkFits(a, Marking(a, outcome)),
           UNCHANGED <<item, message, stream, dead, outbox, accepted>>
    PROVE  SafetyInv'
<1>1. work' = [work EXCEPT ![a] = Marking(a, outcome)]
  BY DEF Records, Marking, SafetyInv, TypeOK
<1>2. Marking(a, outcome) \in WorkItem /\ Marking(a, outcome).pc = "marking"
  BY MarkingType DEF SafetyInv
<1> QED BY <1>1, <1>2, WorkStep

\* What holds of a sender that has its claim and has not noted a call.
LEMMA LoadingFits ==
    ASSUME SafetyInv, NEW s \in Senders, work[s].pc = "loading",
           NEW outcome \in MarkOutcome,
           outcome.kind \in {"Released", "Failed"},
           outcome.failure # "closed_by_operator",
           outcome.kind = "Released" =>
              work[s].base.transientFailures + 1 < MaxTransientFailures
    PROVE  s \in Actors /\ WorkFits(s, Marking(s, outcome))
<1>1. s \in Actors /\ s # Operator
  BY ActorsAssumption DEF Actors
<1>2. WorkFits(s, work[s])
  BY <1>1 DEF SafetyInv
<1>3. /\ Marking(s, outcome).pc = "marking"
      /\ Marking(s, outcome).base = work[s].base
      /\ Marking(s, outcome).outcome = outcome
      /\ Marking(s, outcome).rec = work[s].rec
  BY <1>1, MarkingType DEF SafetyInv
<1>4. /\ Fenced(work[s].base)
      /\ work[s].base.status = "sending" /\ ~work[s].base.sesCallAt
  BY <1>2 DEF WorkFits, ImageFits, Holding
<1>5. ImageFits(s, Marking(s, outcome)) /\ OutcomeFits(s, Marking(s, outcome))
  BY <1>1, <1>3, <1>4 DEF ImageFits, OutcomeFits, ServiceFailure, Holding
<1>6. work[s].base.version = item.version => Untried(item.resends)
  BY <1>4 DEF Fenced, SafetyInv, ItemFits, Unoffered
<1>7. MarkIsTrue(Marking(s, outcome))
  BY <1>3, <1>6 DEF MarkIsTrue
<1>8. RecordIsSpent(s, Marking(s, outcome))
  BY <1>2, <1>3 DEF WorkFits, RecordIsSpent
<1> QED BY <1>1, <1>3, <1>5, <1>7, <1>8 DEF WorkFits

\* The outcomes of load and build.
LEMMA Loading ==
    ASSUME SafetyInv, NEW s \in Senders,
           \/ LoadSucceeds(s) \/ LoadFindsNothing(s)
           \/ LoadRefused(s) \/ LoadUnavailable(s)
    PROVE  SafetyInv'
<1>0. s \in Actors /\ work[s] \in WorkItem /\ work[s].base \in SendStateItem
  BY DEF Actors, SafetyInv, TypeOK, WorkItem
<1>1. CASE LoadSucceeds(s)
  <2> DEFINE w == [work[s] EXCEPT !.pc = "noting"]
  <2>1. w \in WorkItem /\ w.pc = "noting" /\ w.base = work[s].base /\ w.rec = work[s].rec
    BY <1>0 DEF WorkItem, PC
  <2>2. work' = [work EXCEPT ![s] = w]
    BY <1>0, <1>1 DEF LoadSucceeds, SafetyInv, TypeOK
  <2>3. work[s].pc = "loading" /\ WorkFits(s, work[s])
    BY <1>0, <1>1 DEF LoadSucceeds, SafetyInv
  <2> HIDE DEF w
  <2>4. WorkFits(s, w)
    BY <2>1, <2>3 DEF WorkFits, ImageFits, OutcomeFits, MarkIsTrue, RecordIsSpent, Holding
  <2> QED BY <1>0, <1>1, <2>1, <2>2, <2>4, WorkStep DEF LoadSucceeds
<1>2. CASE LoadFindsNothing(s) \/ LoadRefused(s)
  <2>1. PICK f \in {"part_missing", "send_spec_missing", "cannot_build"} :
           Records(s, MarkFailed(f))
    BY <1>2 DEF LoadFindsNothing, LoadRefused
  <2>2. /\ MarkFailed(f) \in MarkOutcome /\ MarkFailed(f).kind = "Failed"
        /\ MarkFailed(f).failure # "closed_by_operator"
    BY DEF MarkFailed, MarkOutcome, MarkKind, SendFailure
  <2>3. work[s].pc = "loading" /\ UNCHANGED <<item, message, stream, dead, outbox, accepted>>
    BY <1>2 DEF LoadFindsNothing, LoadRefused
  <2>4. WorkFits(s, Marking(s, MarkFailed(f)))
    BY <2>2, <2>3, LoadingFits
  <2> QED BY <1>0, <2>1, <2>2, <2>3, <2>4, Deciding
<1>3. CASE LoadUnavailable(s)
  <2> DEFINE o == HandBack(work[s].base, "unavailable")
  <2>1. /\ o \in MarkOutcome /\ o.kind \in {"Released", "Failed"}
        /\ o.kind = "Failed" => o.failure = "unavailable"
        /\ o.kind = "Released" =>
              work[s].base.transientFailures + 1 < MaxTransientFailures
    BY <1>0, HandBackType
  <2>2. o.failure # "closed_by_operator"
    BY DEF HandBack, MarkFailed, Mark, NoFailure
  <2> HIDE DEF o
  <2>3. /\ work[s].pc = "loading" /\ Records(s, o)
        /\ UNCHANGED <<item, message, stream, dead, outbox, accepted>>
    BY <1>3 DEF LoadUnavailable, o
  <2>4. WorkFits(s, Marking(s, o))
    BY <2>1, <2>2, <2>3, LoadingFits
  <2> QED BY <1>0, <2>1, <2>3, <2>4, Deciding
<1> QED BY <1>1, <1>2, <1>3

\* note_ses_call finds the claim gone: the record is skipped.
LEMMA SkippingNote ==
    ASSUME SafetyInv, NEW s \in Senders, NoteConflicts(s)
    PROVE  SafetyInv'
<1>0. s \in Actors /\ work[s] \in WorkItem /\ work[s].rec \in Nat
  BY DEF Actors, SafetyInv, TypeOK, WorkItem
<1>1. work' = [work EXCEPT ![s] = Ended("done", work[s].rec)]
  BY DEF NoteConflicts, Ends, Ended
<1>2. /\ Ended("done", work[s].rec) \in WorkItem
      /\ Ended("done", work[s].rec).pc = "done"
      /\ Ended("done", work[s].rec).rec = work[s].rec
  BY <1>0, EndedType DEF PC
<1>3. work[s].pc = "noting" /\ RecordIsSpent(s, work[s])
  BY <1>0 DEF NoteConflicts, SafetyInv, WorkFits
<1>4. WorkFits(s, Ended("done", work[s].rec))
  BY <1>0, <1>2, <1>3, EndedFits DEF RecordIsSpent
<1> QED BY <1>0, <1>1, <1>2, <1>4, WorkStep DEF NoteConflicts

\* The sweep and the operator read an item and decide.
LEMMA Finding ==
    ASSUME SafetyInv, NEW a \in {Sweep, Operator}, NEW outcome \in MarkOutcome,
           work' = [work EXCEPT ![a] = [Idle EXCEPT !.pc = "marking", !.base = item,
                                                    !.outcome = outcome]],
           UNCHANGED <<item, message, stream, dead, outbox, accepted>>,
           item.status = IF a = Operator THEN "unknown" ELSE "sending",
           outcome.kind \in {"Resumed", "ClosedSent"} => a = Operator,
           outcome.kind \in {"Sent", "Released", "Unknown"} => a # Operator,
           outcome.kind = "Failed" => (ServiceFailure(outcome) <=> a # Operator),
           outcome.kind = "Resumed" => item.resends < MaxResends,
           outcome.kind = "Released" => item.transientFailures + 1 < MaxTransientFailures,
           outcome.kind = "Released" \/ ServiceFailure(outcome) => Untried(item.resends),
           outcome.kind # "Sent"
    PROVE  SafetyInv'
<1> DEFINE w == [Idle EXCEPT !.pc = "marking", !.base = item, !.outcome = outcome]
<1>0. a \in Actors /\ a \notin Senders /\ item \in SendStateItem
      /\ item.version \in Nat /\ item.resends \in Nat
  BY ActorsAssumption DEF Actors, SafetyInv, TypeOK, SendStateItem
<1>1. w \in WorkItem /\ w.pc = "marking" /\ w.base = item /\ w.outcome = outcome
  <2>1. Idle \in WorkItem
    BY IdleType
  <2>2. [Idle EXCEPT !.pc = "marking"] \in WorkItem
    BY <2>1 DEF WorkItem, PC
  <2>3. [Idle EXCEPT !.pc = "marking", !.base = item] \in WorkItem
    BY <1>0, <2>2 DEF WorkItem
  <2>4. w \in WorkItem
    BY <2>3 DEF WorkItem
  <2> QED BY <2>1, <2>4 DEF WorkItem
<1> HIDE DEF w
<1>2. WorkFits(a, w)
  BY <1>0, <1>1 DEF WorkFits, ImageFits, OutcomeFits, MarkIsTrue, RecordIsSpent,
     Fenced, Holding
<1>3. work' = [work EXCEPT ![a] = w]
  BY DEF w
<1> QED BY <1>0, <1>1, <1>2, <1>3, WorkStep

LEMMA Sweeping == ASSUME SafetyInv, SweepFinds PROVE SafetyInv'
<1>0. item \in SendStateItem /\ item.status = "sending" /\ Sweep # Operator
  BY ActorsAssumption DEF SafetyInv, TypeOK, SweepFinds, SweptStatus
<1>1. CASE item.sesCallAt
  <2>1. SweepOutcome(item) = Mark("Unknown")
    BY <1>1 DEF SweepOutcome
  <2>2. Mark("Unknown") \in MarkOutcome /\ Mark("Unknown").kind = "Unknown"
    BY DEF Mark, MarkOutcome, MarkKind, NoFailure
  <2> QED BY <1>0, <2>1, <2>2, Finding DEF SweepFinds, ServiceFailure
<1>2. CASE ~item.sesCallAt
  <2> DEFINE o == HandBack(item, "sender_abandoned")
  <2>1. SweepOutcome(item) = o
    BY <1>2 DEF SweepOutcome
  <2>2. /\ o \in MarkOutcome /\ o.kind \in {"Released", "Failed"}
        /\ o.kind = "Failed" => o.failure = "sender_abandoned"
        /\ o.kind = "Released" => item.transientFailures + 1 < MaxTransientFailures
    BY <1>0, HandBackType
  <2>3. Untried(item.resends)
    BY <1>0, <1>2 DEF SafetyInv, ItemFits, Unoffered
  <2> HIDE DEF o
  <2> QED BY <1>0, <2>1, <2>2, <2>3, Finding DEF SweepFinds, ServiceFailure
<1> QED BY <1>1, <1>2

LEMMA Resolving ==
    ASSUME SafetyInv, NEW outcome \in Resolution, OperatorResolves(outcome)
    PROVE  SafetyInv'
<1>1. /\ outcome \in MarkOutcome
      /\ outcome.kind \in {"Resumed", "ClosedSent", "Failed"}
      /\ outcome.kind = "Failed" => outcome.failure = "closed_by_operator"
  BY DEF Resolution, Mark, MarkFailed, MarkOutcome, MarkKind, SendFailure, NoFailure
<1> QED BY <1>1, Finding DEF OperatorResolves, ServiceFailure

\* clear_outbox: only of a settled send.
LEMMA Clearing ==
    ASSUME SafetyInv, NEW a \in Actors, ClearSpec(a) \/ ClearParts(a)
    PROVE  SafetyInv'
<1>0. work[a] \in WorkItem /\ work[a].rec \in Nat
  BY DEF SafetyInv, TypeOK, WorkItem
<1>1. PICK pc \in {"clearingParts", "done"} :
         work' = [work EXCEPT ![a] = Ended(pc, work[a].rec)]
  BY DEF ClearSpec, ClearParts, Ends, Ended
<1>2. /\ Ended(pc, work[a].rec) \in WorkItem
      /\ Ended(pc, work[a].rec).pc = pc
      /\ Ended(pc, work[a].rec).rec = work[a].rec
  BY <1>0, EndedType DEF PC
<1>3. /\ work[a].pc \in {"clearing", "clearingParts"}
      /\ RecordIsSpent(a, work[a]) /\ IsSettled(item)
  BY DEF ClearSpec, ClearParts, SafetyInv, WorkFits
<1>4. WorkFits(a, Ended(pc, work[a].rec))
  BY <1>0, <1>2, <1>3, EndedFits DEF RecordIsSpent
<1>5. /\ UNCHANGED <<item, message, stream, dead, accepted>>
      /\ outbox' \subseteq Objects
  BY DEF ClearSpec, ClearParts, SafetyInv, TypeOK
<1>6. stream' \cup dead' \subseteq stream \cup dead /\ NoLostWakeup'
      /\ OutboxKeptUntilSettled'
  BY <1>3, <1>5 DEF SafetyInv, NoLostWakeup, OutboxKeptUntilSettled, IsSettled
<1> QED BY <1>1, <1>2, <1>4, <1>5, <1>6, QuietStep

\* A record is acknowledged only when it asks for nothing any more.
LEMMA Acknowledging ==
    ASSUME SafetyInv, NEW s \in Senders, Succeeds(s)
    PROVE  SafetyInv'
<1>0. s \in Actors
  BY DEF Actors
<1>1. work' = [work EXCEPT ![s] = Idle] /\ stream' = stream \ {work[s].rec}
      /\ UNCHANGED <<item, message, dead, outbox, accepted>>
  BY DEF Succeeds, GivesUp
<1>2. work[s].rec = item.version => item.status # "queued"
  BY <1>0 DEF Succeeds, SafetyInv, WorkFits, RecordIsSpent
<1>3. NoLostWakeup'
  BY <1>1, <1>2 DEF SafetyInv, NoLostWakeup
<1>4. stream' \cup dead' \subseteq stream \cup dead /\ outbox' \subseteq Objects
      /\ OutboxKeptUntilSettled'
  BY <1>1 DEF SafetyInv, TypeOK, OutboxKeptUntilSettled, IsSettled
<1> QED BY <1>0, <1>1, <1>3, <1>4, IdleType, IdleFits, QuietStep

\* The mapping gives up on a record: it waits in the DLQ instead.
LEMMA DeadLettering ==
    ASSUME SafetyInv, NEW r \in stream, DeadLetter(r)
    PROVE  SafetyInv'
<1>0. Sweep \in Actors /\ Sweep \notin Senders /\ work[Sweep] \in WorkItem
  BY ActorsAssumption DEF Actors, SafetyInv, TypeOK, WorkItem
<1>1. WorkFits(Sweep, work[Sweep]) /\ work[Sweep].pc # "calling"
  BY <1>0 DEF SafetyInv, WorkFits, ImageFits, Holding
<1>2. work' = [work EXCEPT ![Sweep] = work[Sweep]]
  BY <1>0 DEF DeadLetter, SafetyInv, TypeOK
<1>3. /\ stream' \cup dead' = stream \cup dead
      /\ UNCHANGED <<item, message, outbox, accepted>>
  BY DEF DeadLetter
<1>4. NoLostWakeup' /\ OutboxKeptUntilSettled' /\ outbox' \subseteq Objects
  BY <1>3 DEF SafetyInv, TypeOK, NoLostWakeup, OutboxKeptUntilSettled, IsSettled
<1> QED BY <1>0, <1>1, <1>2, <1>3, <1>4, QuietStep

-----------------------------------------------------------------------------
\* A writer that has finished, or lost its answer, keeps nothing that the write
\* could outdate.
LEMMA EndingEntry ==
    ASSUME SafetyInv, NEW a \in Actors, NEW pc \in {"clearing", "done"},
           work[a].pc # "idle",
           GivesUp(a) \/ Ends(a, pc),
           item'.version = item.version + 1,
           pc = "clearing" => IsSettled(item')
    PROVE  \E w \in WorkItem :
              /\ work' = [work EXCEPT ![a] = w]
              /\ w.pc # "calling"
              /\ WorkFits(a, w)'
<1>1. CASE GivesUp(a)
  BY <1>1, IdleType, IdleFits DEF GivesUp
<1>2. CASE Ends(a, pc)
  <2>1. /\ work[a].rec \in Nat /\ item.version \in Nat
        /\ a \in Senders => work[a].rec <= item.version
    BY DEF SafetyInv, TypeOK, SendStateItem, WorkFits, RecordIsSpent
  <2>2. PICK r \in Nat : r = work[a].rec
    BY <2>1
  <2>3. /\ Ended(pc, r) \in WorkItem
        /\ Ended(pc, r).pc = pc /\ Ended(pc, r).rec = r
    BY EndedType DEF PC
  <2>4. work' = [work EXCEPT ![a] = Ended(pc, r)]
    BY <1>2, <2>2 DEF Ends, Ended
  <2>5. PICK w \in WorkItem : w = Ended(pc, r)
    BY <2>3
  <2>6. WorkFits(a, w)'
    BY <2>1, <2>2, <2>3, <2>5 DEF WorkFits, ImageFits, OutcomeFits,
       MarkIsTrue, RecordIsSpent, Holding
  <2> QED BY <2>3, <2>4, <2>5, <2>6
<1> QED BY <1>1, <1>2

\* claim_send commits, seen (the sender goes on to load) or unseen.
LEMMA Claiming ==
    ASSUME SafetyInv, NEW s \in Senders,
           ClaimCommits(s) \/ ClaimCommitsUnseen(s)
    PROVE  SafetyInv'
<1>0. /\ s \in Actors /\ work[s] \in WorkItem /\ work[s].rec \in Nat
      /\ item \in SendStateItem /\ item.version \in Nat /\ item.resends \in Nat
      /\ item.resends <= MaxResends /\ MaxResends \in Nat
  BY BoundsAssumption DEF Actors, SafetyInv, TypeOK, WorkItem, SendStateItem
<1>1. /\ work[s].pc = "claiming" /\ work[s].base = item
      /\ item.status = "queued" /\ work[s].rec <= item.version
  BY <1>0 DEF ClaimCommits, ClaimCommitsUnseen, StateCasHolds, SafetyInv,
     WorkFits, ImageFits, Fenced, RecordIsSpent, Holding
<1>2. /\ item' = Claimed(item)
      /\ stream' = IF TriggersSender(item, item')
                   THEN stream \cup {item'.version} ELSE stream
      /\ UNCHANGED <<message, dead, outbox, accepted>>
  BY <1>1 DEF ClaimCommits, ClaimCommitsUnseen, Writes
<1>3. /\ item' \in SendStateItem /\ item'.version = item.version + 1
      /\ item'.resends = item.resends
      /\ item'.transientFailures = item.transientFailures
      /\ item'.status = "sending" /\ ~item'.sesCallAt /\ ~item'.requeuedAt
  BY <1>0, <1>2, ClaimedType
<1>4. Untried(item.resends)
  BY <1>1 DEF SafetyInv, ItemFits, Unoffered
<1> DEFINE Held == [work[s] EXCEPT !.pc = "loading", !.base = item']
<1>5. \E w \in WorkItem :
         /\ work' = [work EXCEPT ![s] = w]
         /\ w.pc # "calling"
         /\ WorkFits(s, w)'
  <2>1. CASE ClaimCommits(s)
    <3>1. [work[s] EXCEPT !.pc = "loading"] \in WorkItem
      BY <1>0 DEF WorkItem, PC
    <3>2. Held \in WorkItem
      BY <1>3, <3>1 DEF WorkItem
    <3>3. Held.pc = "loading" /\ Held.base = item' /\ Held.rec = work[s].rec
      BY <1>0 DEF WorkItem
    <3>4. work' = [work EXCEPT ![s] = Held]
      BY <1>0, <1>1, <1>2, <2>1 DEF ClaimCommits, SafetyInv, TypeOK
    <3>5. PICK w \in WorkItem : w = Held
      BY <3>2
    <3> HIDE DEF Held
    <3>6. WorkFits(s, w)'
      BY <1>0, <1>1, <1>3, <3>3, <3>5 DEF WorkFits, ImageFits, OutcomeFits, MarkIsTrue,
         RecordIsSpent, Fenced, Holding
    <3> QED BY <3>3, <3>4, <3>5, <3>6
  <2>2. CASE GivesUp(s) \/ Ends(s, "done")
    BY <1>0, <1>1, <1>3, <2>2, EndingEntry
  <2> QED BY <2>1, <2>2 DEF ClaimCommitsUnseen
<1>6. PICK w \in WorkItem :
         /\ work' = [work EXCEPT ![s] = w]
         /\ w.pc # "calling"
         /\ WorkFits(s, w)'
  BY <1>5
<1>7. \A t \in Senders : work'[t].pc = "calling" => work'[t] = work[t]
  BY <1>0, <1>6, WorkUpdate DEF SafetyInv, Actors
<1>8. CallersAreAlone'
  BY <1>2, <1>7 DEF SafetyInv, CallersAreAlone
<1>9. (Unoffered => Untried(item.resends))'
  BY <1>2, <1>3, <1>4, <1>7 DEF Untried, OfferedUnder
<1>10. SesIdMeansAccepted' /\ MessageFollowsState'
  BY <1>1, <1>2, <1>3 DEF SafetyInv, SesIdMeansAccepted, MessageFollowsState
<1>11. /\ item'.resends \in item.resends..MaxResends
       /\ item'.transientFailures < MaxTransientFailures
       /\ message' \in [label : SendLabel, sendStatus : SendStatus, sesId : BOOLEAN]
       /\ ~IsSettled(item)
  BY <1>0, <1>1, <1>2, <1>3 DEF SafetyInv, TypeOK, IsSettled
<1> QED BY <1>0, <1>2, <1>3, <1>6, <1>8, <1>9, <1>10, <1>11, WritingStep

\* note_ses_call commits, seen (the sender goes on to call SES) or unseen.
LEMMA Noting ==
    ASSUME SafetyInv, NEW s \in Senders,
           NoteCommits(s) \/ NoteCommitsUnseen(s)
    PROVE  SafetyInv'
<1>0. /\ s \in Actors /\ work[s] \in WorkItem /\ work[s].rec \in Nat
      /\ item \in SendStateItem /\ item.version \in Nat /\ item.resends \in Nat
      /\ item.resends <= MaxResends /\ MaxResends \in Nat
  BY BoundsAssumption DEF Actors, SafetyInv, TypeOK, WorkItem, SendStateItem
<1>1. /\ work[s].pc = "noting" /\ work[s].base = item
      /\ item.status = "sending" /\ ~item.sesCallAt
      /\ work[s].rec <= item.version
  BY <1>0 DEF NoteCommits, NoteCommitsUnseen, StateCasHolds, SafetyInv,
     WorkFits, ImageFits, Fenced, RecordIsSpent, Holding
<1>2. /\ item' = CallingSes(item)
      /\ stream' = IF TriggersSender(item, item')
                   THEN stream \cup {item'.version} ELSE stream
      /\ UNCHANGED <<message, dead, outbox, accepted>>
  BY <1>1 DEF NoteCommits, NoteCommitsUnseen, Writes
<1>3. /\ item' \in SendStateItem /\ item'.version = item.version + 1
      /\ item'.resends = item.resends
      /\ item'.transientFailures = item.transientFailures
      /\ item'.status = "sending" /\ item'.sesCallAt
      /\ item'.requeuedAt = item.requeuedAt
  BY <1>0, <1>1, <1>2, CallingSesType
<1>4. Untried(item.resends) /\ ~item.requeuedAt
  BY <1>1 DEF SafetyInv, ItemFits, Unoffered
<1> DEFINE Held == [work[s] EXCEPT !.pc = "calling", !.base = item']
<1>5. \E w \in WorkItem :
         /\ work' = [work EXCEPT ![s] = w]
         /\ w.pc = "calling" => w.base.resends = item.resends
         /\ WorkFits(s, w)'
  <2>1. CASE NoteCommits(s)
    <3>1. [work[s] EXCEPT !.pc = "calling"] \in WorkItem
      BY <1>0 DEF WorkItem, PC
    <3>2. Held \in WorkItem
      BY <1>3, <3>1 DEF WorkItem
    <3>3. Held.pc = "calling" /\ Held.base = item' /\ Held.rec = work[s].rec
      BY <1>0 DEF WorkItem
    <3>4. work' = [work EXCEPT ![s] = Held]
      BY <1>0, <1>1, <1>2, <2>1 DEF NoteCommits, SafetyInv, TypeOK
    <3>5. PICK w \in WorkItem : w = Held
      BY <3>2
    <3> HIDE DEF Held
    <3>6. WorkFits(s, w)'
      BY <1>0, <1>1, <1>3, <3>3, <3>5 DEF WorkFits, ImageFits, OutcomeFits, MarkIsTrue,
         RecordIsSpent, Fenced, Holding
    <3> QED BY <1>3, <3>3, <3>4, <3>5, <3>6
  <2>2. CASE GivesUp(s) \/ Ends(s, "done")
    BY <1>0, <1>1, <1>3, <2>2, EndingEntry
  <2> QED BY <2>1, <2>2 DEF NoteCommitsUnseen
<1>6. PICK w \in WorkItem :
         /\ work' = [work EXCEPT ![s] = w]
         /\ w.pc = "calling" => w.base.resends = item.resends
         /\ WorkFits(s, w)'
  BY <1>5
<1>7. work'[s] = w /\ \A t \in Senders : t # s => work'[t] = work[t]
  BY <1>0, <1>6, WorkUpdate DEF SafetyInv, Actors
<1>8. CallersAreAlone'
  BY <1>2, <1>4, <1>6, <1>7 DEF SafetyInv, CallersAreAlone, Untried, OfferedUnder
<1>9. ~Unoffered'
  BY <1>3 DEF Unoffered, FailedByService
<1>10. SesIdMeansAccepted' /\ MessageFollowsState'
  BY <1>1, <1>2, <1>3 DEF SafetyInv, SesIdMeansAccepted, MessageFollowsState
<1>11. /\ item'.resends \in item.resends..MaxResends
       /\ item'.transientFailures < MaxTransientFailures
       /\ message' \in [label : SendLabel, sendStatus : SendStatus, sesId : BOOLEAN]
       /\ ~IsSettled(item)
  BY <1>0, <1>1, <1>2, <1>3 DEF SafetyInv, TypeOK, IsSettled
<1>12. ~item'.requeuedAt
  BY <1>3, <1>4
<1> QED BY <1>0, <1>2, <1>3, <1>6, <1>8, <1>9, <1>10, <1>11, <1>12, WritingStep

-----------------------------------------------------------------------------
\* A sender leaves its SES call, the message accepted or not: it was the only
\* one of its authorisation, and nobody who could still record a release or a
\* failure relies on that authorisation being untried.
LEMMA LeavingCall ==
    ASSUME SafetyInv, NEW s \in Senders, NEW w \in WorkItem,
           work[s].pc = "calling",
           work' = [work EXCEPT ![s] = w],
           w.pc \notin {"calling", "clearing", "clearingParts"},
           ImageFits(s, w), OutcomeFits(s, w), RecordIsSpent(s, w),
           MarkIsTrue(w)',
           \/ accepted' = accepted
           \/ accepted' = [accepted EXCEPT ![work[s].base.resends] = @ + 1],
           UNCHANGED <<item, message, stream, dead, outbox>>
    PROVE  SafetyInv'
<1> DEFINE e == work[s].base.resends
<1>0. /\ s \in Actors /\ MaxResends \in Nat
      /\ e \in Nat /\ item.resends \in Nat
      /\ e <= item.resends /\ item.resends <= MaxResends
  BY BoundsAssumption DEF Actors, SafetyInv, TypeOK, SendStateItem, WorkFits,
     ImageFits, Fenced, Holding
<1>1. /\ work' \in [Actors -> WorkItem]
      /\ work'[s] = w
      /\ \A b \in Actors : b # s => work'[b] = work[b]
  BY <1>0, WorkUpdate DEF SafetyInv
<1>2. accepted[e] = 0 /\ \A t \in Senders : work[t].pc = "calling"
                             /\ work[t].base.resends = e => t = s
  BY DEF SafetyInv, CallersAreAlone
<1>3. /\ accepted' \in [0..MaxResends -> Nat]
      /\ accepted'[e] \in {0, 1}
      /\ \A f \in 0..MaxResends : f # e => accepted'[f] = accepted[f]
  BY <1>0, <1>2 DEF SafetyInv, TypeOK
<1>4. OfferedUnder(e)
  BY DEF OfferedUnder
<1> HIDE DEF e
<1>5. \A f \in 0..MaxResends : Untried(f) => Untried(f)' /\ f # e
  BY <1>0, <1>1, <1>3, <1>4 DEF Untried, OfferedUnder, Actors
<1>6. TypeOK'
  BY <1>1, <1>3 DEF SafetyInv, TypeOK, WorkItem
<1>7. \A b \in Actors : WorkFits(b, work[b])'
  <2> SUFFICES ASSUME NEW b \in Actors PROVE WorkFits(b, work[b])'
    OBVIOUS
  <2>1. CASE b = s
    <3>1. ImageFits(s, work[s])' /\ OutcomeFits(s, work[s])' /\ RecordIsSpent(s, work[s])'
      BY <1>1 DEF ImageFits, OutcomeFits, RecordIsSpent, Fenced, ServiceFailure
    <3>2. MarkIsTrue(work[s])'
      BY <1>1 DEF MarkIsTrue
    <3> QED BY <1>1, <2>1, <3>1, <3>2 DEF WorkFits
  <2>2. CASE b # s
    <3>1. work'[b] = work[b] /\ WorkFits(b, work[b])
      BY <1>1, <2>2 DEF SafetyInv
    <3>2. ImageFits(b, work[b])' /\ OutcomeFits(b, work[b])' /\ RecordIsSpent(b, work[b])'
      BY <3>1 DEF WorkFits, ImageFits, OutcomeFits, RecordIsSpent, Fenced, ServiceFailure
    <3>3. item.resends \in 0..MaxResends
      BY <1>0
    <3>4. accepted[item.resends] = 1 => accepted'[item.resends] = 1
      BY <1>2, <1>3, <3>3 DEF e
    <3>5. MarkIsTrue(work[b])'
      BY <3>1, <1>5, <3>3, <3>4 DEF WorkFits, MarkIsTrue, ServiceFailure
    <3> QED BY <3>1, <3>2, <3>5 DEF WorkFits, IsSettled
  <2> QED BY <2>1, <2>2
<1>8. CallersAreAlone'
  <2> SUFFICES ASSUME NEW t \in Senders, work'[t].pc = "calling"
               PROVE  /\ accepted'[work'[t].base.resends] = 0
                      /\ \A u \in Senders : work'[u].pc = "calling"
                            /\ work'[u].base.resends = work'[t].base.resends => u = t
    BY DEF CallersAreAlone
  <2>1. t # s /\ work'[t] = work[t]
    BY <1>1 DEF Actors
  <2>2. work[t].base.resends # e
    BY <1>2, <2>1
  <2>3. work[t].base.resends \in 0..MaxResends
    BY <1>0, <2>1 DEF Actors, SafetyInv, TypeOK, SendStateItem, WorkFits,
       ImageFits, Fenced, Holding
  <2>4. accepted'[work[t].base.resends] = 0
    BY <1>3, <2>1, <2>2, <2>3 DEF SafetyInv, CallersAreAlone
  <2>5. \A u \in Senders : work'[u].pc = "calling" => work'[u] = work[u]
    BY <1>1 DEF Actors
  <2> QED BY <2>1, <2>4, <2>5 DEF SafetyInv, CallersAreAlone
<1>9. ItemFits'
  <2>1. item.resends \in 0..MaxResends
    BY <1>0
  <2>2. (Unoffered => Untried(item.resends))'
    BY <1>5, <2>1 DEF SafetyInv, ItemFits, Unoffered, FailedByService
  <2>3. \A f \in 0..MaxResends : f > item'.resends => accepted'[f] = 0
    BY <1>0, <1>3 DEF SafetyInv, ItemFits
  <2> QED BY <2>2, <2>3 DEF SafetyInv, ItemFits
<1>10. AtMostOncePerAuthorisation'
  BY <1>3 DEF SafetyInv, AtMostOncePerAuthorisation
<1>11. SesIdMeansAccepted'
  <2>1. item.resends \in 0..MaxResends
    BY <1>0
  <2>2. accepted[item.resends] = 1 => item.resends # e
    BY <1>2 DEF e
  <2> QED BY <1>3, <2>1, <2>2 DEF SafetyInv, SesIdMeansAccepted
<1>12. (OutboxKeptUntilSettled /\ NoLostWakeup /\ MessageFollowsState)'
  BY DEF SafetyInv, OutboxKeptUntilSettled, NoLostWakeup, MessageFollowsState, IsSettled
<1> QED BY <1>6, <1>7, <1>8, <1>9, <1>10, <1>11, <1>12 DEF SafetyInv

\* Killed in the call: nobody will record its outcome.
LEMMA DyingInCall ==
    ASSUME SafetyInv, NEW s \in Senders, KilledInCall(s)
    PROVE  SafetyInv'
<1>1. /\ work[s].pc = "calling" /\ work' = [work EXCEPT ![s] = Idle]
      /\ accepted' = [accepted EXCEPT ![work[s].base.resends] = @ + 1]
      /\ UNCHANGED <<item, message, stream, dead, outbox>>
  BY DEF KilledInCall, GivesUp
<1>2. WorkFits(s, Idle) /\ WorkFits(s, Idle)'
  BY IdleFits
<1> QED BY <1>1, <1>2, IdleType, LeavingCall DEF WorkFits

\* What record_outcome is told, and what it decides.
LEMMA OutcomeOfType ==
    ASSUME NEW st \in SendStateItem, NEW ans \in SendOutcome
    PROVE  LET o == OutcomeOf(st, ans) IN
           /\ o \in MarkOutcome
           /\ o.kind \in {"Sent", "Failed", "Released", "Unknown"}
           /\ o.kind = "Failed" => o.failure # "closed_by_operator"
           /\ o.kind \in {"Failed", "Released"} => SesAccepts(ans) = {FALSE}
           /\ o.kind = "Sent" => SesAccepts(ans) = {TRUE}
           /\ o.kind = "Released" => st.transientFailures + 1 < MaxTransientFailures
<1>1. CASE ans = "Sent"
  BY <1>1 DEF OutcomeOf, SesAccepts, Mark, MarkOutcome, MarkKind, NoFailure
<1>2. CASE ans = "Failed"
  BY <1>2 DEF OutcomeOf, SesAccepts, MarkFailed, MarkOutcome, MarkKind, SendFailure
<1>3. CASE ans = "Retryable"
  <2>1. OutcomeOf(st, ans) = HandBack(st, "unavailable")
    BY <1>3 DEF OutcomeOf
  <2>2. SesAccepts(ans) = {FALSE}
    BY <1>3 DEF SesAccepts
  <2> QED BY <2>1, <2>2, HandBackType
<1>4. CASE ans = "Unknown"
  BY <1>4 DEF OutcomeOf, SesAccepts, Mark, MarkOutcome, MarkKind, NoFailure
<1> QED BY <1>1, <1>2, <1>3, <1>4 DEF SendOutcome

\* The SES call and what the sender makes of its answer.
LEMMA Calling ==
    ASSUME SafetyInv, NEW s \in Senders, NEW ans \in SendOutcome, CallsSes(s, ans)
    PROVE  SafetyInv'
<1> DEFINE o == OutcomeOf(work[s].base, ans)
           e == work[s].base.resends
<1>0. /\ s \in Actors /\ s # Operator /\ work[s] \in WorkItem
      /\ work[s].base \in SendStateItem
      /\ work[s].pc = "calling" /\ WorkFits(s, work[s])
  BY ActorsAssumption DEF Actors, SafetyInv, TypeOK, WorkItem, CallsSes
<1>1. /\ o \in MarkOutcome
      /\ o.kind \in {"Sent", "Failed", "Released", "Unknown"}
      /\ o.kind = "Failed" => o.failure # "closed_by_operator"
      /\ o.kind \in {"Failed", "Released"} => SesAccepts(ans) = {FALSE}
      /\ o.kind = "Sent" => SesAccepts(ans) = {TRUE}
      /\ o.kind = "Released" =>
            work[s].base.transientFailures + 1 < MaxTransientFailures
  BY <1>0, OutcomeOfType
<1>2. PICK took \in SesAccepts(ans) :
         accepted' = IF took THEN [accepted EXCEPT ![e] = @ + 1] ELSE accepted
  BY DEF CallsSes
<1>3. Records(s, o) /\ UNCHANGED <<item, message, stream, dead, outbox>>
  BY DEF CallsSes
<1> HIDE DEF o
<1>4. work' = [work EXCEPT ![s] = Marking(s, o)]
  BY <1>0, <1>3 DEF Records, Marking, SafetyInv, TypeOK
<1>5. /\ Marking(s, o) \in WorkItem /\ Marking(s, o).pc = "marking"
      /\ Marking(s, o).base = work[s].base
      /\ Marking(s, o).outcome = o /\ Marking(s, o).rec = work[s].rec
  BY <1>0, <1>1, MarkingType DEF SafetyInv
<1>6. PICK w \in WorkItem : w = Marking(s, o)
  BY <1>5
<1>7. /\ ImageFits(s, w) /\ OutcomeFits(s, w) /\ RecordIsSpent(s, w)
  BY <1>0, <1>1, <1>5, <1>6 DEF WorkFits, ImageFits, OutcomeFits, RecordIsSpent,
     ServiceFailure, Holding
<1>8. w.base.version = item.version => item.resends = e
  BY <1>0, <1>5, <1>6 DEF WorkFits, ImageFits, Fenced, Holding
<1>9. accepted[e] = 0 /\ \A t \in Senders : work[t].pc = "calling"
                             /\ work[t].base.resends = e => t = s
  BY <1>0 DEF SafetyInv, CallersAreAlone
<1>10. work'[s] = w /\ \A t \in Senders : t # s => work'[t] = work[t]
  BY <1>0, <1>4, <1>6, WorkUpdate DEF SafetyInv, Actors
<1>11. ~ \E t \in Senders : work'[t].pc = "calling" /\ work'[t].base.resends = e
  BY <1>5, <1>6, <1>9, <1>10
<1>12. e \in 0..MaxResends
  BY <1>0, BoundsAssumption DEF SafetyInv, TypeOK, SendStateItem, WorkFits,
     ImageFits, Fenced, Holding
<1>13. MarkIsTrue(w)'
  <2> SUFFICES ASSUME w.base.version = item'.version
               PROVE  /\ w.outcome.kind = "Released" \/ ServiceFailure(w.outcome)
                            => Untried(item.resends)'
                      /\ w.outcome.kind = "Sent" => accepted'[item'.resends] = 1
    BY DEF MarkIsTrue, ServiceFailure
  <2>1. item'.resends = e
    BY <1>3, <1>8
  <2>2. CASE o.kind \in {"Released", "Failed"}
    <3>1. accepted' = accepted
      BY <1>1, <1>2, <2>2
    <3>2. Untried(item.resends)'
      BY <1>9, <1>11, <2>1, <3>1 DEF Untried, OfferedUnder
    <3> QED BY <1>5, <1>6, <2>2, <3>2
  <2>3. CASE o.kind = "Sent"
    <3>1. took \in {TRUE}
      BY <1>1, <1>2, <2>3
    <3>2. accepted' = [accepted EXCEPT ![e] = @ + 1]
      BY <1>2, <3>1, Zenon
    <3>3. accepted'[e] = 1
      BY <1>9, <1>12, <3>2 DEF SafetyInv, TypeOK
    <3> QED BY <1>5, <1>6, <2>1, <2>3, <3>3 DEF ServiceFailure
  <2>4. CASE o.kind = "Unknown"
    BY <1>5, <1>6, <2>4 DEF ServiceFailure
  <2> QED BY <1>1, <2>2, <2>3, <2>4
<1> QED BY <1>0, <1>2, <1>3, <1>4, <1>5, <1>6, <1>7, <1>13, LeavingCall

-----------------------------------------------------------------------------
\* mark_send commits, seen or unseen.
LEMMA Marks ==
    ASSUME SafetyInv, NEW a \in Actors, MarkCommits(a) \/ MarkCommitsUnseen(a)
    PROVE  SafetyInv'
<1> DEFINE o == work[a].outcome
<1>0. /\ work[a] \in WorkItem /\ o \in MarkOutcome /\ o.kind \in MarkKind
      /\ item \in SendStateItem /\ item.version \in Nat /\ item.resends \in Nat
      /\ item.resends <= MaxResends /\ MaxResends \in Nat
      /\ item.transientFailures \in Nat
  BY BoundsAssumption DEF SafetyInv, TypeOK, WorkItem, SendStateItem, MarkOutcome
<1>1. work[a].pc = "marking" /\ WorkFits(a, work[a]) /\ MarkWrites(a)
  BY DEF MarkCommits, MarkCommitsUnseen, SafetyInv
<1>2. work[a].base = item /\ item.status \in {"sending", "unknown"}
  BY <1>1 DEF WorkFits, ImageFits, Fenced, Holding, MarkWrites, MarkCasHolds
<1>3. /\ o.kind = "Resumed" => item.resends < MaxResends
      /\ o.kind = "Released" => item.transientFailures + 1 < MaxTransientFailures
      /\ o.kind = "Released" \/ ServiceFailure(o) => Untried(item.resends)
      /\ o.kind = "Sent" => accepted[item.resends] = 1
  BY <1>1, <1>2 DEF WorkFits, OutcomeFits, MarkIsTrue
<1>4. /\ item' = MarkTransition(item, o)
      /\ stream' = IF TriggersSender(item, item')
                   THEN stream \cup {item'.version} ELSE stream
      /\ message' = [label |-> LabelAfter(message.label, o),
                     sendStatus |-> item'.status,
                     sesId |-> message.sesId \/ o.kind = "Sent"]
      /\ UNCHANGED <<dead, outbox, accepted>>
  BY <1>1, <1>2 DEF MarkWrites, Writes, MarkCommits, MarkCommitsUnseen
<1> HIDE DEF o
<1>5. /\ item' \in SendStateItem
      /\ item'.version = item.version + 1
      /\ o.kind \in {"Sent", "ClosedSent"} => item'.status = "sent"
      /\ o.kind = "Failed" => item'.status = "failed" /\ item'.failure = o.failure
      /\ o.kind = "Unknown" => item'.status = "unknown"
      /\ o.kind \in {"Released", "Resumed"} =>
            item'.status = "queued" /\ item'.requeuedAt
      /\ o.kind \notin {"Released", "Resumed"} => item'.requeuedAt = item.requeuedAt
      /\ o.kind = "Resumed" =>
            item'.resends = item.resends + 1 /\ item'.transientFailures = 0
      /\ o.kind # "Resumed" => item'.resends = item.resends
      /\ o.kind = "Released" =>
            item'.transientFailures = item.transientFailures + 1
      /\ o.kind \notin {"Released", "Resumed"} =>
            item'.transientFailures = item.transientFailures
  BY <1>0, <1>4, MarkTransitionType
<1>6. ~item.requeuedAt /\ ~IsSettled(item) /\ ~message.sesId /\ message.label = "queued"
  BY <1>2 DEF SafetyInv, ItemFits, IsSettled, SesIdMeansAccepted, MessageFollowsState
<1>7. /\ item'.resends \in item.resends..MaxResends
      /\ item'.transientFailures < MaxTransientFailures
  BY <1>0, <1>3, <1>5, MaxTransientFailuresAssumption DEF SafetyInv, TypeOK, MarkKind
<1>8. Settles(o) => IsSettled(item')
  BY <1>5 DEF Settles, IsSettled
<1>9. \E w \in WorkItem :
         /\ work' = [work EXCEPT ![a] = w]
         /\ w.pc # "calling"
         /\ WorkFits(a, w)'
  <2>1. CASE GivesUp(a) \/ Ends(a, "done")
    BY <1>1, <1>5, <2>1, EndingEntry
  <2>2. CASE Settles(o) /\ Ends(a, "clearing")
    BY <1>1, <1>5, <1>8, <2>2, EndingEntry
  <2> QED BY <2>1, <2>2 DEF MarkCommits, MarkCommitsUnseen, o
<1>10. PICK w \in WorkItem :
          /\ work' = [work EXCEPT ![a] = w]
          /\ w.pc # "calling"
          /\ WorkFits(a, w)'
  BY <1>9
<1>11. \A t \in Senders : work'[t].pc = "calling" => work'[t] = work[t]
  BY <1>10, WorkUpdate DEF SafetyInv, Actors
<1>12. CallersAreAlone'
  BY <1>4, <1>11 DEF SafetyInv, CallersAreAlone
<1>13. (Unoffered => Untried(item.resends))'
  <2>1. \A e : Untried(e) => Untried(e)'
    BY <1>4, <1>11 DEF Untried, OfferedUnder
  <2>2. CASE o.kind = "Resumed"
    <3>1. item.resends + 1 \in 0..MaxResends /\ item.resends + 1 > item.resends
      BY <1>0, <1>3, <2>2
    <3>2. accepted[item.resends + 1] = 0
      BY <3>1 DEF SafetyInv, ItemFits
    <3>3. \A t \in Senders : work[t].pc = "calling" => work[t].base.resends # item.resends + 1
      BY <1>0 DEF SafetyInv, TypeOK, SendStateItem, WorkFits, ImageFits, Fenced,
         Holding, Actors
    <3>4. Untried(item.resends + 1)
      BY <3>2, <3>3 DEF Untried, OfferedUnder
    <3>5. Untried(item.resends)'
      BY <1>5, <2>1, <2>2, <3>4 DEF Untried, OfferedUnder
    <3> QED BY <3>5
  <2>3. CASE o.kind = "Released" \/ ServiceFailure(o)
    BY <1>3, <1>5, <2>1, <2>3 DEF ServiceFailure, Untried, OfferedUnder
  <2>4. CASE o.kind \in {"Sent", "ClosedSent", "Unknown"} \/ (o.kind = "Failed" /\ ~ServiceFailure(o))
    BY <1>5, <2>4 DEF Unoffered, FailedByService, ServiceFailure
  <2> QED BY <1>0, <2>2, <2>3, <2>4 DEF MarkKind
<1>14. /\ item'.status \in {"sending", "unknown"} => ~item'.requeuedAt
       /\ item'.status = "queued" => TriggersSender(item, item')
  BY <1>0, <1>5, <1>6 DEF TriggersSender, MarkKind
<1>15. SesIdMeansAccepted'
  BY <1>3, <1>4, <1>5, <1>6 DEF SesIdMeansAccepted
<1>16. MessageFollowsState'
  <2>1. message'.sendStatus = item'.status
    BY <1>4
  <2>2. message'.label = LabelAfter("queued", o)
    BY <1>4, <1>6
  <2>3. message'.label = CASE item'.status = "sent"   -> "sent"
                           [] item'.status = "failed" -> "rejected"
                           [] OTHER                   -> "queued"
    BY <1>0, <1>5, <2>2 DEF LabelAfter, MarkKind
  <2> QED BY <2>1, <2>3 DEF MessageFollowsState
<1>17. message' \in [label : SendLabel, sendStatus : SendStatus, sesId : BOOLEAN]
  BY <1>0, <1>4, <1>5, <1>6 DEF LabelAfter, MarkKind, SendLabel, SendStateItem
<1> QED BY <1>4, <1>5, <1>6, <1>7, <1>10, <1>12, <1>13, <1>14, <1>15, <1>16, <1>17,
           WritingStep

-----------------------------------------------------------------------------
(***************************************************************************)
(* The invariant.                                                          *)
(***************************************************************************)

LEMMA InitSafe == Init => SafetyInv
<1> SUFFICES ASSUME Init PROVE SafetyInv
  OBVIOUS
<1>0. MaxResends \in Nat /\ 0 \in 0..MaxResends
  BY BoundsAssumption
<1>1. Queued \in SendStateItem /\ Idle \in WorkItem /\ Idle.pc = "idle"
  BY IdleType DEF Queued, SendStateItem, SendStatus, NoFailure
<1>2. /\ item = Queued
      /\ message = [label |-> "queued", sendStatus |-> "queued", sesId |-> FALSE]
      /\ stream = {0} /\ dead = {} /\ outbox = Objects
      /\ \A a \in Actors : work[a] = Idle
      /\ work \in [Actors -> WorkItem]
      /\ accepted \in [0..MaxResends -> Nat]
      /\ \A e \in 0..MaxResends : accepted[e] = 0
  BY <1>1 DEF Init
<1>3. /\ item.status = "queued" /\ item.version = 0 /\ item.resends = 0
      /\ item.transientFailures = 0
  BY <1>2 DEF Queued
<1>4. TypeOK
  BY <1>0, <1>1, <1>2, <1>3, MaxTransientFailuresAssumption
     DEF TypeOK, WorkItem, SendLabel, SendStatus
<1>5. \A a \in Actors : WorkFits(a, work[a])
  BY <1>2, IdleFits
<1>6. \A s \in Senders : work[s].pc # "calling"
  BY <1>1, <1>2 DEF Actors
<1>7. CallersAreAlone /\ ItemFits
  BY <1>0, <1>2, <1>3, <1>6 DEF CallersAreAlone, ItemFits, Untried, OfferedUnder
<1>8. AtMostOncePerAuthorisation /\ SesIdMeansAccepted
  BY <1>2 DEF AtMostOncePerAuthorisation, SesIdMeansAccepted
<1>9. OutboxKeptUntilSettled /\ NoLostWakeup /\ MessageFollowsState
  BY <1>2, <1>3 DEF OutboxKeptUntilSettled, NoLostWakeup, MessageFollowsState
<1> QED BY <1>4, <1>5, <1>7, <1>8, <1>9 DEF SafetyInv

LEMMA NextSafe == SafetyInv /\ [Next]_vars => SafetyInv'
<1> SUFFICES ASSUME SafetyInv, [Next]_vars PROVE SafetyInv'
  OBVIOUS
<1>1. ASSUME NEW s \in Senders, SenderStep(s) PROVE SafetyInv'
  <2>0. s \in Actors
    BY DEF Actors
  <2>1. ASSUME NEW r \in stream, TakeRecord(s, r) PROVE SafetyInv'
    <3>1. r \in Nat /\ r <= item.version
      BY DEF SafetyInv, TypeOK, ItemFits
    <3> QED BY <2>1, <3>1, Reading DEF TakeRecord
  <2>2. CASE ClaimCommits(s) \/ ClaimCommitsUnseen(s)
    BY <2>2, Claiming
  <2>3. CASE ClaimConflicts(s)
    <3>1. work[s].rec \in Nat /\ work[s].rec <= item.version
      BY <2>0, <2>3 DEF ClaimConflicts, SafetyInv, TypeOK, WorkFits, RecordIsSpent
    <3> QED BY <2>3, <3>1, Reading DEF ClaimConflicts
  <2>4. CASE ClaimErrs(s) \/ NoteErrs(s)
    BY <2>0, <2>4, GivingUp DEF ClaimErrs, NoteErrs
  <2>5. CASE LoadSucceeds(s) \/ LoadFindsNothing(s) \/ LoadRefused(s) \/ LoadUnavailable(s)
    BY <2>5, Loading
  <2>6. CASE NoteCommits(s) \/ NoteCommitsUnseen(s)
    BY <2>6, Noting
  <2>7. CASE NoteConflicts(s)
    BY <2>7, SkippingNote
  <2>8. ASSUME NEW ans \in SendOutcome, CallsSes(s, ans) PROVE SafetyInv'
    BY <2>8, Calling
  <2>9. CASE KilledInCall(s)
    BY <2>9, DyingInCall
  <2>10. CASE Succeeds(s)
    BY <2>10, Acknowledging
  <2> QED BY <1>1, <2>1, <2>2, <2>3, <2>4, <2>5, <2>6, <2>7, <2>8, <2>9, <2>10
          DEF SenderStep
<1>2. ASSUME NEW a \in Actors, MarkStep(a) PROVE SafetyInv'
  <2>1. CASE MarkCommits(a) \/ MarkCommitsUnseen(a)
    BY <2>1, Marks
  <2>2. CASE MarkErrs(a) \/ Killed(a)
    BY <2>2, GivingUp DEF MarkErrs, Killed
  <2>3. CASE ClearSpec(a) \/ ClearParts(a)
    BY <2>3, Clearing
  <2> QED BY <1>2, <2>1, <2>2, <2>3 DEF MarkStep
<1>3. ASSUME NEW a \in {Sweep, Operator}, Returns(a) PROVE SafetyInv'
  BY <1>3, GivingUp DEF Returns, Actors
<1>4. CASE SweepFinds
  BY <1>4, Sweeping
<1>5. ASSUME NEW outcome \in Resolution, OperatorResolves(outcome) PROVE SafetyInv'
  BY <1>5, Resolving
<1>6. ASSUME NEW r \in stream, DeadLetter(r) PROVE SafetyInv'
  BY <1>6, DeadLettering
<1>7. CASE UNCHANGED vars
  <2>1. /\ Sweep \in Actors /\ Sweep \notin Senders /\ work[Sweep] \in WorkItem
        /\ WorkFits(Sweep, work[Sweep])
    BY ActorsAssumption DEF Actors, SafetyInv, TypeOK, WorkItem
  <2>2. work' = [work EXCEPT ![Sweep] = work[Sweep]] /\ work[Sweep].pc # "calling"
    BY <1>7, <2>1 DEF vars, SafetyInv, TypeOK, WorkFits, ImageFits, Holding
  <2> QED BY <1>7, <2>1, <2>2, WorkStep DEF vars
<1> QED BY <1>1, <1>2, <1>3, <1>4, <1>5, <1>6, <1>7 DEF Next

\* The inductive invariant holds in every reachable state.
THEOREM Safety == Spec => []SafetyInv
BY InitSafe, NextSafe, PTL DEF Spec

\* Types and budgets (TypeOK): the item, the message and every actor's image
\* are well formed, the hand-back budget of hand_back and the sweep is never
\* overdrawn, and no more resends happen than were ordered.
THEOREM TypeCorrect == Spec => []TypeOK
<1>1. SafetyInv => TypeOK
  BY DEF SafetyInv
<1> QED BY <1>1, Safety, PTL

\* At most once: for any number of senders, redeliveries, sweeps, kills and lost
\* answers, SES accepts the message at most once per authorisation.
THEOREM AtMostOnce == Spec => []AtMostOncePerAuthorisation
<1>1. SafetyInv => AtMostOncePerAuthorisation
  BY DEF SafetyInv
<1> QED BY <1>1, Safety, PTL

\* A send that is open for another attempt, or that the service failed, is not
\* at SES and is not on its way there.
THEOREM OpenOrFailedIsNotHeld == Spec => []NotHeldWhenOpenOrFailed
<1>1. SafetyInv => NotHeldWhenOpenOrFailed
  BY DEF SafetyInv, ItemFits, Unoffered, Untried, NotHeldWhenOpenOrFailed
<1> QED BY <1>1, Safety, PTL

\* An SES id on the message proves an acceptance under the settled authorisation.
THEOREM SesIdIsTrue == Spec => []SesIdMeansAccepted
<1>1. SafetyInv => SesIdMeansAccepted
  BY DEF SafetyInv
<1> QED BY <1>1, Safety, PTL

\* The outbox objects outlive every attempt.
THEOREM OutboxKept == Spec => []OutboxKeptUntilSettled
<1>1. SafetyInv => OutboxKeptUntilSettled
  BY DEF SafetyInv
<1> QED BY <1>1, Safety, PTL

\* A queued send always has a stream record that will wake a sender, or one in
\* the dead-letter queue.
THEOREM WakeupKept == Spec => []NoLostWakeup
<1>1. SafetyInv => NoLostWakeup
  BY DEF SafetyInv
<1> QED BY <1>1, Safety, PTL

\* The message follows the send state.
THEOREM MessageFollows == Spec => []MessageFollowsState
<1>1. SafetyInv => MessageFollowsState
  BY DEF SafetyInv
<1> QED BY <1>1, Safety, PTL

-----------------------------------------------------------------------------
(***************************************************************************)
(* Action properties and refinement.                                       *)
(***************************************************************************)

\* What a step does to the observable state: nothing, a claim, a note, a mark
\* of the actor entitled to it, or an SES acceptance.
ClaimOrNote ==
    /\ item.status \in {"queued", "sending"} /\ item'.status = "sending"
    /\ item'.resends = item.resends
    /\ UNCHANGED <<message, accepted>>

MarkBy(a) ==
    /\ work[a].pc = "marking" /\ MarkWrites(a) /\ work[a].base = item
    /\ item.status = (IF a = Operator THEN "unknown" ELSE "sending")
    /\ work'[a].pc # "marking"
    /\ UNCHANGED accepted

Acceptance(s) ==
    /\ work[s].pc = "calling"
    /\ accepted' = [accepted EXCEPT ![work[s].base.resends] = @ + 1]
    /\ UNCHANGED <<item, message>>

LEMMA StepEffects ==
    ASSUME SafetyInv, [Next]_vars
    PROVE  \/ UNCHANGED <<item, message, accepted>>
           \/ ClaimOrNote
           \/ \E a \in Actors : MarkBy(a)
           \/ \E s \in Senders : Acceptance(s)
<1>1. ASSUME NEW s \in Senders, SenderStep(s), ~UNCHANGED <<item, message, accepted>>
      PROVE  ClaimOrNote \/ Acceptance(s)
  <2>0. s \in Actors /\ item \in SendStateItem /\ WorkFits(s, work[s])
    BY DEF Actors, SafetyInv, TypeOK
  <2>1. CASE ClaimCommits(s) \/ ClaimCommitsUnseen(s)
    <3>1. work[s].base = item /\ item.status = "queued"
      BY <2>0, <2>1 DEF ClaimCommits, ClaimCommitsUnseen, StateCasHolds,
         WorkFits, ImageFits, Fenced, Holding
    <3>2. item' = Claimed(item) /\ UNCHANGED <<message, accepted>>
      BY <2>1, <3>1 DEF ClaimCommits, ClaimCommitsUnseen, Writes
    <3> QED BY <2>0, <3>1, <3>2, ClaimedType DEF ClaimOrNote
  <2>2. CASE NoteCommits(s) \/ NoteCommitsUnseen(s)
    <3>1. work[s].base = item /\ item.status = "sending"
      BY <2>0, <2>2 DEF NoteCommits, NoteCommitsUnseen, StateCasHolds,
         WorkFits, ImageFits, Fenced, Holding
    <3>2. item' = CallingSes(item) /\ UNCHANGED <<message, accepted>>
      BY <2>2, <3>1 DEF NoteCommits, NoteCommitsUnseen, Writes
    <3> QED BY <2>0, <3>1, <3>2, CallingSesType DEF ClaimOrNote
  <2>3. ASSUME NEW ans \in SendOutcome, CallsSes(s, ans) PROVE Acceptance(s)
    BY <1>1, <2>3 DEF CallsSes, Acceptance
  <2>4. CASE KilledInCall(s)
    BY <2>4 DEF KilledInCall, Acceptance
  <2> QED BY <1>1, <2>1, <2>2, <2>3, <2>4
          DEF SenderStep, TakeRecord, ClaimConflicts, ClaimErrs, LoadSucceeds,
              LoadFindsNothing, LoadRefused, LoadUnavailable, NoteConflicts,
              NoteErrs, Succeeds
<1>2. ASSUME NEW a \in Actors, MarkStep(a), ~UNCHANGED <<item, message, accepted>>
      PROVE  MarkBy(a)
  <2>1. MarkCommits(a) \/ MarkCommitsUnseen(a)
    BY <1>2 DEF MarkStep, MarkErrs, ClearSpec, ClearParts, Killed
  <2>2. WorkFits(a, work[a]) /\ work[a].pc = "marking" /\ MarkWrites(a)
    BY <2>1 DEF MarkCommits, MarkCommitsUnseen, SafetyInv
  <2>3. /\ work[a].base = item
        /\ item.status = (IF a = Operator THEN "unknown" ELSE "sending")
    BY <2>2 DEF WorkFits, ImageFits, Fenced, Holding, MarkWrites, MarkCasHolds
  <2>4. work'[a].pc # "marking" /\ UNCHANGED accepted
    <3>1. work[a].rec \in Nat /\ work \in [Actors -> WorkItem]
      BY DEF SafetyInv, TypeOK, WorkItem
    <3>2. PICK w \in {Idle, Ended("clearing", work[a].rec), Ended("done", work[a].rec)} :
             work' = [work EXCEPT ![a] = w]
      BY <2>1 DEF MarkCommits, MarkCommitsUnseen, GivesUp, Ends, Ended
    <3>3. w.pc # "marking"
      BY <3>1, <3>2, IdleType, EndedType DEF PC
    <3> QED BY <2>1, <3>1, <3>2, <3>3 DEF MarkCommits, MarkCommitsUnseen
  <2> QED BY <2>2, <2>3, <2>4 DEF MarkBy
<1> QED BY <1>1, <1>2
        DEF Next, Returns, SweepFinds, OperatorResolves, DeadLetter, vars

\* A settled send is final: no late sender, sweep or operator rewrites it.
THEOREM SettledForGood == Spec => SettledIsFinal
<1>1. SafetyInv /\ [Next]_vars => [IsSettled(item) => item' = item]_vars
  <2> SUFFICES ASSUME SafetyInv, [Next]_vars, IsSettled(item) PROVE item' = item
    OBVIOUS
  <2> QED BY StepEffects DEF ClaimOrNote, MarkBy, Acceptance, IsSettled
<1> QED BY <1>1, Safety, PTL DEF Spec, SettledIsFinal

\* Only the operator's command takes a send out of unknown.
THEOREM UnknownIsTheOperators == Spec => UnknownWaitsForOperator
<1> DEFINE A == item.status = "unknown" /\ item' # item
                   => work[Operator].pc = "marking" /\ work'[Operator] # work[Operator]
<1>1. SafetyInv /\ [Next]_vars => [A]_vars
  <2> SUFFICES ASSUME SafetyInv, [Next]_vars, item.status = "unknown", item' # item
               PROVE  work[Operator].pc = "marking" /\ work'[Operator] # work[Operator]
    OBVIOUS
  <2>1. PICK a \in Actors : MarkBy(a)
    BY StepEffects DEF ClaimOrNote, Acceptance
  <2>2. a = Operator
    BY <2>1 DEF MarkBy
  <2> QED BY <2>1, <2>2 DEF MarkBy
<1> QED BY <1>1, Safety, PTL DEF Spec, UnknownWaitsForOperator

-----------------------------------------------------------------------------
\* The refinement mapping, case by case.
LEMMA PhaseOf ==
    /\ item.status \in {"queued", "sending"} => ContractPhase = "open"
    /\ item.status = "unknown" => ContractPhase = "unknown"
    /\ item.status = "sent" => ContractPhase = IF message.sesId THEN "sent" ELSE "closed"
    /\ item.status = "failed" =>
          ContractPhase = IF item.failure # "closed_by_operator" THEN "failed" ELSE "closed"
BY DEF ContractPhase, FailedByService

LEMMA PhaseOfNext ==
    /\ item'.status \in {"queued", "sending"} => ContractPhase' = "open"
    /\ item'.status = "unknown" => ContractPhase' = "unknown"
    /\ item'.status = "sent" => ContractPhase' = IF message'.sesId THEN "sent" ELSE "closed"
    /\ item'.status = "failed" =>
          ContractPhase' = IF item'.failure # "closed_by_operator" THEN "failed" ELSE "closed"
BY DEF ContractPhase, FailedByService

LEMMA MarkImplements ==
    ASSUME SafetyInv, NEW a \in Actors, MarkBy(a)
    PROVE  [Contract!Next]_(Contract!contractVars)
<1> DEFINE o == work[a].outcome
<1>0. /\ o \in MarkOutcome /\ o.kind \in MarkKind
      /\ item \in SendStateItem /\ item.resends \in Nat
      /\ WorkFits(a, work[a])
  BY DEF SafetyInv, TypeOK, SendStateItem, MarkOutcome
<1>1. /\ o.kind \in {"Resumed", "ClosedSent"} => a = Operator
      /\ o.kind \in {"Sent", "Released", "Unknown"} => a # Operator
      /\ o.kind = "Failed" => (ServiceFailure(o) <=> a # Operator)
      /\ o.kind = "Resumed" => item.resends < MaxResends
      /\ ServiceFailure(o) => accepted[item.resends] = 0
      /\ o.kind = "Sent" => accepted[item.resends] = 1
  BY <1>0 DEF MarkBy, WorkFits, OutcomeFits, MarkIsTrue, Untried
<1>2. /\ item' = MarkTransition(item, o)
      /\ message'.sesId = (message.sesId \/ o.kind = "Sent")
      /\ accepted' = accepted
      /\ item.status = (IF a = Operator THEN "unknown" ELSE "sending")
  BY DEF MarkBy, MarkWrites, Writes
<1>3. ~message.sesId
  BY <1>2 DEF SafetyInv, SesIdMeansAccepted
<1>4. ContractPhase = IF a = Operator THEN "unknown" ELSE "open"
  BY <1>2, PhaseOf
<1> HIDE DEF o
<1>5. /\ o.kind \in {"Sent", "ClosedSent"} => item'.status = "sent"
      /\ o.kind = "Failed" => item'.status = "failed" /\ item'.failure = o.failure
      /\ o.kind = "Unknown" => item'.status = "unknown"
      /\ o.kind \in {"Released", "Resumed"} => item'.status = "queued"
      /\ o.kind = "Resumed" => item'.resends = item.resends + 1
      /\ o.kind # "Resumed" => item'.resends = item.resends
  BY <1>0, <1>2, MarkTransitionType
<1>6. CASE o.kind = "Sent"
  <2>1. ContractPhase' = "sent"
    BY <1>2, <1>5, <1>6, PhaseOfNext
  <2> QED BY <1>1, <1>2, <1>4, <1>5, <1>6, <2>1 DEF Contract!Next, Contract!ReportSent
<1>7. CASE o.kind = "ClosedSent"
  <2>1. ContractPhase' = "closed"
    BY <1>2, <1>3, <1>5, <1>7, PhaseOfNext
  <2> QED BY <1>1, <1>2, <1>4, <1>5, <1>7, <2>1 DEF Contract!Next, Contract!OperatorClose
<1>8. CASE o.kind = "Failed" /\ ServiceFailure(o)
  <2>1. ContractPhase' = "failed"
    BY <1>5, <1>8, PhaseOfNext DEF ServiceFailure
  <2> QED BY <1>1, <1>2, <1>4, <1>5, <1>8, <2>1 DEF Contract!Next, Contract!ReportFailed
<1>9. CASE o.kind = "Failed" /\ ~ServiceFailure(o)
  <2>1. ContractPhase' = "closed"
    BY <1>5, <1>9, PhaseOfNext DEF ServiceFailure
  <2> QED BY <1>1, <1>2, <1>4, <1>5, <1>9, <2>1 DEF Contract!Next, Contract!OperatorClose
<1>10. CASE o.kind = "Unknown"
  <2>1. ContractPhase' = "unknown"
    BY <1>5, <1>10, PhaseOfNext
  <2> QED BY <1>1, <1>2, <1>4, <1>5, <1>10, <2>1 DEF Contract!Next, Contract!ReportUnknown
<1>11. CASE o.kind = "Released"
  <2>1. ContractPhase' = "open"
    BY <1>5, <1>11, PhaseOfNext
  <2> QED BY <1>1, <1>2, <1>4, <1>5, <1>11, <2>1 DEF Contract!contractVars
<1>12. CASE o.kind = "Resumed"
  <2>1. ContractPhase' = "open"
    BY <1>5, <1>12, PhaseOfNext
  <2> QED BY <1>1, <1>2, <1>4, <1>5, <1>12, <2>1 DEF Contract!Next, Contract!OperatorResend
<1> QED BY <1>0, <1>6, <1>7, <1>8, <1>9, <1>10, <1>11, <1>12 DEF MarkKind

LEMMA AcceptanceImplements ==
    ASSUME SafetyInv, NEW s \in Senders, Acceptance(s)
    PROVE  Contract!Next
<1> DEFINE e == work[s].base.resends
<1>1. /\ e \in 0..MaxResends /\ e <= item.resends
      /\ item.status \in SendStatus
  BY BoundsAssumption DEF Acceptance, SafetyInv, TypeOK, SendStateItem, WorkFits,
     ImageFits, Fenced, Holding, Actors
<1>2. accepted[e] = 0 /\ OfferedUnder(e)
  BY DEF Acceptance, SafetyInv, CallersAreAlone, OfferedUnder
<1>3. accepted' = [accepted EXCEPT ![e] = 1]
  BY <1>1, <1>2 DEF Acceptance, SafetyInv, TypeOK
<1>4. ContractPhase' = ContractPhase /\ item'.resends = item.resends
  BY DEF Acceptance, ContractPhase, FailedByService
<1>5. e = item.resends => ContractPhase \in {"open", "unknown", "closed"}
  <2> SUFFICES ASSUME e = item.resends PROVE ContractPhase \in {"open", "unknown", "closed"}
    OBVIOUS
  <2>1. ~FailedByService /\ ~message.sesId
    BY <1>2 DEF SafetyInv, ItemFits, Unoffered, Untried, SesIdMeansAccepted
  <2> QED BY <1>1, <2>1, PhaseOf DEF FailedByService, SendStatus
<1> HIDE DEF e
<1> QED BY <1>1, <1>2, <1>3, <1>4, <1>5 DEF Contract!Next, Contract!Accept

\* Senders, sweep, operator, crashes and lost answers together implement the
\* contract of SendContract: each of their steps is one of its steps or changes
\* nothing it speaks of.
THEOREM Refinement == Spec => ImplementsContract
<1>1. Init => Contract!Init
  BY PhaseOf DEF Init, Contract!Init, Queued
<1>2. SafetyInv /\ [Next]_vars => [Contract!Next]_(Contract!contractVars)
  <2> SUFFICES ASSUME SafetyInv, [Next]_vars
               PROVE  [Contract!Next]_(Contract!contractVars)
    OBVIOUS
  <2>1. CASE UNCHANGED <<item, message, accepted>>
    BY <2>1 DEF Contract!contractVars, ContractPhase, FailedByService
  <2>2. CASE ClaimOrNote
    BY <2>2, PhaseOf, PhaseOfNext DEF ClaimOrNote, Contract!contractVars
  <2>3. ASSUME NEW a \in Actors, MarkBy(a) PROVE [Contract!Next]_(Contract!contractVars)
    BY <2>3, MarkImplements
  <2>4. ASSUME NEW s \in Senders, Acceptance(s) PROVE [Contract!Next]_(Contract!contractVars)
    BY <2>4, AcceptanceImplements
  <2> QED BY <2>1, <2>2, <2>3, <2>4, StepEffects
<1> QED BY <1>1, <1>2, Safety, PTL DEF Spec, ImplementsContract, Contract!Spec
===============================================================================
