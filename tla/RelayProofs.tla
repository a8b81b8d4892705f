---------------------------- MODULE RelayProofs -----------------------------
(***************************************************************************)
(* Machine-checked proofs about what the bus is told: about EventIntake,   *)
(* for any notifications of one message, any number of concurrent          *)
(* invocations and any deliveries; about EventRelay beside it, for any     *)
(* batches, retries and faults, beside any interleaving of the request     *)
(* path; and about MailRelay, for any letters, any scripts of writes the   *)
(* tables admit, any sizes, caps, retries and faults.                      *)
(***************************************************************************)
EXTENDS EventRelay, MailRelay, FiniteSetTheorems, TLAPS

(***************************************************************************)
(* EventIntake.                                                            *)
(***************************************************************************)

PC == {"rest", "persist", "transition", "label", "suppress"}

Addresses == UNION {Recipients[n] : n \in Notes}

Invocation == [pc : PC, note : SUBSET Notes, deferred : BOOLEAN, todo : SUBSET Addresses]

TypeOK ==
    /\ events \in SUBSET Notes /\ IsFiniteSet(events)
    /\ status \in Statuses
    /\ opens \in Nat
    /\ inv \in [Workers -> Invocation]
    /\ due \in [Notes -> Nat]
    /\ acked \in SUBSET Notes
    /\ marked \in BOOLEAN
    /\ suppressed \in SUBSET Addresses /\ refused \in SUBSET Addresses

\* The status says no less than notification n.
Covers(n) == Rank[StatusOf[Kind[n]]] <= Rank[status]

\* Every address that n asks to suppress is listed, refused, or in `left'.
Handled(n, left) == Suppresses(n) => Recipients[n] \subseteq left \cup suppressed \cup refused

\* What an invocation may rely on where it is: its notification is persisted once
\* the persist is past, covered by the status once the transition is past, and
\* what is left to suppress is on its list.
Knows(w) ==
    LET s == inv[w] IN
    /\ s.pc # "rest" => \E n \in Notes : s.note = {n}
    /\ s.pc # "persist" /\ s.pc # "rest" => s.note \subseteq events
    /\ s.pc \in {"label", "suppress"} => \A n \in s.note : Covers(n)
    /\ s.pc = "suppress" => \A n \in s.note : Handled(n, s.todo)

\* A persisted event that needs no transition is covered at once, in the
\* transaction that persists it.
CoveredAtOnce == \A n \in events : ~HasTransition(n) => Covers(n)

\* The inductive invariant.
IntakeInv ==
    /\ TypeOK
    /\ CoveredAtOnce
    /\ \A w \in Workers : Knows(w)
    /\ StatusConverges
    /\ AnsweredMeansSuppressed

-----------------------------------------------------------------------------
(***************************************************************************)
(* The ladder of statuses.                                                 *)
(***************************************************************************)

LEMMA RankValues ==
    /\ Rank["none"] = 0 /\ Rank["sent"] = 1 /\ Rank["delivered"] = 2
    /\ Rank["complained"] = 3 /\ Rank["bounced"] = 4
    /\ \A s \in Statuses : Rank[s] \in 0..4
BY DEF Rank, Statuses, NoStatus

LEMMA StatusOfKind ==
    ASSUME NEW n \in Notes
    PROVE  /\ Kind[n] \in Kinds
           /\ StatusOf[Kind[n]] \in Statuses
           /\ Kind[n] = "Send" => StatusOf[Kind[n]] = "sent"
           /\ Kind[n] = "Delivery" => StatusOf[Kind[n]] = "delivered"
           /\ Kind[n] = "Complaint" => StatusOf[Kind[n]] = "complained"
           /\ Kind[n] = "Bounce" => StatusOf[Kind[n]] = "bounced"
           /\ Kind[n] \notin {"Send", "Delivery", "Complaint", "Bounce"} =>
                 StatusOf[Kind[n]] = "none"
<1>1. Kind[n] \in Kinds
  BY IntakeAssumption
<1>2. StatusOf[Kind[n]] = CASE Kind[n] = "Send" -> "sent"
                            [] Kind[n] = "Delivery" -> "delivered"
                            [] Kind[n] = "Complaint" -> "complained"
                            [] Kind[n] = "Bounce" -> "bounced"
                            [] OTHER -> NoStatus
  BY <1>1 DEF StatusOf
<1> QED BY <1>1, <1>2 DEF NoStatus, Statuses, Kinds

\* aggregate_update: the transaction moves the status up, to that of an event,
\* and covers what needs no transition.
LEMMA TransactionClimbs ==
    ASSUME NEW n \in Notes, status \in Statuses
    PROVE  LET new == StatusInTransaction(n) IN
           /\ new \in Statuses
           /\ Rank[status] <= Rank[new]
           /\ new = status \/ new = StatusOf[Kind[n]]
           /\ ~HasTransition(n) => Rank[StatusOf[Kind[n]]] <= Rank[new]
BY StatusOfKind, RankValues DEF StatusInTransaction, HasTransition, Statuses, NoStatus

\* apply_status_transition: the same of the write after it, which covers its
\* event whether its condition holds or is lost.
LEMMA TransitionClimbs ==
    ASSUME NEW n \in Notes, status \in Statuses, HasTransition(n)
    PROVE  LET new == TransitionTo(n) IN
           /\ new \in Statuses
           /\ new = StatusOf[Kind[n]]
           /\ IF status \in AllowedPriors(new) THEN Rank[status] <= Rank[new]
              ELSE Rank[new] <= Rank[status]
<1>1. CASE Kind[n] = "Delivery"
  BY <1>1, StatusOfKind, RankValues DEF TransitionTo, AllowedPriors, Statuses, NoStatus
<1>2. CASE Kind[n] = "Complaint"
  BY <1>2, StatusOfKind, RankValues DEF TransitionTo, AllowedPriors, Statuses, NoStatus
<1> QED BY <1>1, <1>2 DEF HasTransition

-----------------------------------------------------------------------------
(***************************************************************************)
(* Types.                                                                  *)
(***************************************************************************)

LEMMA RestingType == Resting \in Invocation
BY DEF Resting, Invocation, PC

LEMMA InvocationUpdates ==
    ASSUME NEW s \in Invocation
    PROVE  /\ \A pc \in PC : /\ [s EXCEPT !.pc = pc] \in Invocation
                             /\ [s EXCEPT !.pc = pc].pc = pc
                             /\ [s EXCEPT !.pc = pc].note = s.note
           /\ \A owed \in SUBSET Addresses :
                 /\ [s EXCEPT !.todo = owed] \in Invocation
                 /\ [s EXCEPT !.todo = owed].pc = s.pc
                 /\ [s EXCEPT !.todo = owed].note = s.note
                 /\ [s EXCEPT !.todo = owed].todo = owed
           /\ \A owed \in SUBSET Addresses :
                 LET r == [s EXCEPT !.pc = "suppress", !.todo = owed] IN
                 r \in Invocation /\ r.pc = "suppress" /\ r.note = s.note /\ r.todo = owed
<1>1. \A pc \in PC : /\ [s EXCEPT !.pc = pc] \in Invocation
                     /\ [s EXCEPT !.pc = pc].pc = pc
                     /\ [s EXCEPT !.pc = pc].note = s.note
  BY DEF Invocation
<1>2. \A owed \in SUBSET Addresses :
         /\ [s EXCEPT !.todo = owed] \in Invocation
         /\ [s EXCEPT !.todo = owed].pc = s.pc
         /\ [s EXCEPT !.todo = owed].note = s.note
         /\ [s EXCEPT !.todo = owed].todo = owed
  BY DEF Invocation
<1>3. \A owed \in SUBSET Addresses :
         LET r == [s EXCEPT !.pc = "suppress", !.todo = owed] IN
         r \in Invocation /\ r.pc = "suppress" /\ r.note = s.note /\ r.todo = owed
  BY DEF Invocation, PC
<1> QED BY <1>1, <1>2, <1>3

\* What a notification asks to suppress are addresses.
LEMMA TodoType ==
    ASSUME NEW n \in Notes
    PROVE  (IF Suppresses(n) THEN Recipients[n] ELSE {}) \in SUBSET Addresses
BY DEF Addresses

-----------------------------------------------------------------------------
(***************************************************************************)
(* What a step of one invocation leaves alone.                             *)
(***************************************************************************)

\* The status climbs, and what is persisted, listed or refused stays so.
Grows ==
    /\ Rank[status] <= Rank[status']
    /\ events \subseteq events'
    /\ suppressed \subseteq suppressed'
    /\ refused \subseteq refused'

LEMMA StillCovers ==
    ASSUME TypeOK, TypeOK', Grows, NEW n \in Notes, Covers(n)
    PROVE  Covers(n)'
BY StatusOfKind, RankValues DEF Covers, Grows, TypeOK

\* So what the others know outlives the step.
LEMMA OthersKnow ==
    ASSUME TypeOK, TypeOK', Grows, NEW b \in Workers, Knows(b), inv'[b] = inv[b]
    PROVE  Knows(b)'
<1>1. inv[b].note \subseteq Notes
  BY DEF TypeOK, Invocation
<1>2. inv[b].pc \in {"label", "suppress"} => \A n \in inv[b].note : Covers(n)'
  BY <1>1, StillCovers DEF Knows
<1>3. inv[b].pc = "suppress" => \A n \in inv[b].note : Handled(n, inv[b].todo)'
  BY DEF Knows, Handled, Grows
<1> QED BY <1>2, <1>3 DEF Knows, Grows

\* A step that neither persists, moves the status nor answers.
Quiet == UNCHANGED <<events, status, opens, acked>>

LEMMA QuietKeeps ==
    ASSUME IntakeInv, Quiet, suppressed \subseteq suppressed', refused \subseteq refused'
    PROVE  /\ Grows
           /\ CoveredAtOnce'
           /\ StatusConverges'
           /\ AnsweredMeansSuppressed'
<1>1. Rank[status] \in Nat
  BY RankValues DEF IntakeInv, TypeOK
<1>2. Grows
  BY <1>1 DEF Grows, Quiet
<1>3. CoveredAtOnce'
  BY DEF IntakeInv, CoveredAtOnce, Covers, Quiet
<1>4. StatusConverges'
  BY DEF IntakeInv, StatusConverges, Quiet
<1>5. AnsweredMeansSuppressed'
  BY DEF IntakeInv, AnsweredMeansSuppressed, Quiet
<1> QED BY <1>2, <1>3, <1>4, <1>5

\* Putting the parts together for the invocation w that takes the step.
LEMMA StepKeeps ==
    ASSUME IntakeInv, NEW w \in Workers, TypeOK', Grows,
           \A b \in Workers \ {w} : inv'[b] = inv[b],
           Knows(w)', CoveredAtOnce', StatusConverges', AnsweredMeansSuppressed'
    PROVE  IntakeInv'
<1>1. \A b \in Workers \ {w} : Knows(b)'
  BY OthersKnow DEF IntakeInv
<1> QED BY <1>1 DEF IntakeInv

-----------------------------------------------------------------------------
(***************************************************************************)
(* The steps.                                                              *)
(***************************************************************************)

LEMMA DeliversKeeps ==
    ASSUME IntakeInv, NEW w \in Workers, NEW n \in Notes, Delivers(w, n)
    PROVE  IntakeInv'
<1> DEFINE r == [Resting EXCEPT !.pc = "persist", !.note = {n}]
<1>1. r \in Invocation /\ r.pc = "persist" /\ r.note = {n}
  BY DEF Resting, Invocation, PC
<1>2. inv' = [inv EXCEPT ![w] = r]
  BY DEF Delivers
<1> HIDE DEF r
<1>3. TypeOK'
  BY <1>1, <1>2 DEF IntakeInv, TypeOK, Delivers
<1>4. Grows /\ CoveredAtOnce' /\ StatusConverges' /\ AnsweredMeansSuppressed'
  BY QuietKeeps DEF Delivers, Quiet
<1>5. Knows(w)'
  BY <1>1, <1>2 DEF Knows, IntakeInv, TypeOK
<1> QED BY <1>2, <1>3, <1>4, <1>5, StepKeeps DEF IntakeInv, TypeOK

\* The invocation ends without an answer.
LEMMA FailsKeeps ==
    ASSUME IntakeInv, NEW w \in Workers, Fails(w), Quiet,
           UNCHANGED <<due, marked, suppressed, refused>>
    PROVE  IntakeInv'
<1>1. inv' = [inv EXCEPT ![w] = Resting] /\ Resting.pc = "rest"
  BY DEF Fails, Resting
<1>2. TypeOK'
  BY <1>1, RestingType DEF IntakeInv, TypeOK, Quiet
<1>3. Grows /\ CoveredAtOnce' /\ StatusConverges' /\ AnsweredMeansSuppressed'
  BY QuietKeeps
<1>4. Knows(w)'
  BY <1>1 DEF Knows, IntakeInv, TypeOK
<1> QED BY <1>1, <1>2, <1>3, <1>4, StepKeeps DEF IntakeInv, TypeOK

\* The invocation goes on to step pc.
LEMMA GoesType ==
    ASSUME TypeOK, NEW w \in Workers, NEW pc \in PC, Goes(w, pc)
    PROVE  /\ inv' \in [Workers -> Invocation]
           /\ inv'[w].pc = pc /\ inv'[w].note = inv[w].note
           /\ \A b \in Workers \ {w} : inv'[b] = inv[b]
<1> DEFINE r == [inv[w] EXCEPT !.pc = pc]
<1>1. r \in Invocation /\ r.pc = pc /\ r.note = inv[w].note
  <2>1. inv[w] \in Invocation
    BY DEF TypeOK
  <2> QED BY <2>1, InvocationUpdates
<1>2. inv' = [inv EXCEPT ![w] = r]
  BY DEF Goes
<1> HIDE DEF r
<1> QED BY <1>1, <1>2 DEF TypeOK

\* An invocation under way has one notification in hand.
LEMMA NoteInHand ==
    ASSUME IntakeInv, NEW w \in Workers, inv[w].pc # "rest", NEW n \in inv[w].note
    PROVE  n \in Notes /\ inv[w].note = {n}
BY DEF IntakeInv, Knows

\* persist_new goes on with the transition if there is one, and without if the
\* event is covered.
LEMMA PersistedKnows ==
    ASSUME TypeOK, TypeOK', NEW w \in Workers, NEW n \in Notes, n \in events',
           inv[w].note = {n}, NEW fresh \in BOOLEAN, Goes(w, AfterPersist(n, fresh)),
           CoveredAtOnce'
    PROVE  Knows(w)'
<1>1. AfterPersist(n, fresh) \in {"transition", "label"} /\ AfterPersist(n, fresh) \in PC
  BY DEF AfterPersist, PC
<1>2. /\ inv'[w].pc = AfterPersist(n, fresh)
      /\ inv'[w].note = {n}
  BY <1>1, GoesType
<1>3. inv'[w].pc = "label" => ~HasTransition(n)
  BY <1>2 DEF AfterPersist
<1>4. ~HasTransition(n) => Covers(n)'
  BY DEF CoveredAtOnce, HasTransition
<1> QED BY <1>1, <1>2, <1>3, <1>4 DEF Knows

LEMMA FindsDuplicateKeeps ==
    ASSUME IntakeInv, NEW w \in Workers, FindsDuplicate(w)
    PROVE  IntakeInv'
<1>1. PICK n \in inv[w].note :
         inv[w].pc = "persist" /\ n \in events /\ Goes(w, AfterPersist(n, FALSE))
  BY DEF FindsDuplicate, IsNew
<1>2. n \in Notes /\ inv[w].note = {n}
  BY <1>1, NoteInHand
<1>3. AfterPersist(n, FALSE) \in PC
  BY DEF AfterPersist, PC
<1>4. TypeOK' /\ \A b \in Workers \ {w} : inv'[b] = inv[b]
  BY <1>1, <1>3, GoesType DEF IntakeInv, TypeOK, FindsDuplicate
<1>5. Grows /\ CoveredAtOnce' /\ StatusConverges' /\ AnsweredMeansSuppressed'
  BY QuietKeeps DEF FindsDuplicate, Quiet
<1>6. n \in events'
  BY <1>1 DEF FindsDuplicate
<1>7. Knows(w)'
  BY <1>1, <1>2, <1>4, <1>5, <1>6, PersistedKnows DEF IntakeInv
<1> QED BY <1>4, <1>5, <1>7, StepKeeps

\* The open that is persisted now is counted now: it was not among the events.
LEMMA OpensCounted ==
    ASSUME TypeOK, NEW n \in Notes, n \notin events,
           opens = Cardinality({m \in events : Kind[m] = "Open"})
    PROVE  /\ IsFiniteSet(events \cup {n})
           /\ opens + (IF Kind[n] = "Open" THEN 1 ELSE 0)
                = Cardinality({m \in events \cup {n} : Kind[m] = "Open"})
<1> DEFINE S == {m \in events : Kind[m] = "Open"}
           T == {m \in events \cup {n} : Kind[m] = "Open"}
<1>1. IsFiniteSet(events \cup {n})
  BY FS_AddElement DEF TypeOK
<1>2. IsFiniteSet(S)
  BY FS_Subset DEF TypeOK
<1>3. CASE Kind[n] = "Open"
  <2>1. T = S \cup {n} /\ n \notin S
    BY <1>3
  <2>2. Cardinality(T) = Cardinality(S) + 1
    <3> HIDE DEF S, T
    <3> QED BY <1>2, <2>1, FS_AddElement
  <2> QED BY <1>1, <1>3, <2>2
<1>4. CASE Kind[n] # "Open"
  <2>1. T = S
    BY <1>4
  <2>2. opens + 0 = Cardinality(T)
    <3>1. opens = Cardinality(S)
      OBVIOUS
    <3> HIDE DEF S, T
    <3> QED BY <2>1, <3>1 DEF TypeOK
  <2> QED BY <1>1, <1>4, <2>2
<1> QED BY <1>3, <1>4

LEMMA PersistsKeeps ==
    ASSUME IntakeInv, NEW w \in Workers, Persists(w)
    PROVE  IntakeInv'
<1>1. PICK n \in inv[w].note :
         /\ inv[w].pc = "persist"
         /\ n \notin events
         /\ events' = events \cup {n}
         /\ status' = StatusInTransaction(n)
         /\ opens' = opens + IF Kind[n] = "Open" THEN 1 ELSE 0
         /\ UNCHANGED <<due, acked, marked, suppressed, refused>>
         /\ Goes(w, AfterPersist(n, TRUE)) \/ Fails(w)
  BY DEF Persists, IsNew, Fails
<1>2. n \in Notes /\ inv[w].note = {n} /\ TypeOK
  BY <1>1, NoteInHand DEF IntakeInv
<1>3. AfterPersist(n, TRUE) \in PC
  BY DEF AfterPersist, PC
<1>4. inv' \in [Workers -> Invocation] /\ \A b \in Workers \ {w} : inv'[b] = inv[b]
  <2>1. CASE Goes(w, AfterPersist(n, TRUE))
    BY <1>2, <1>3, <2>1, GoesType
  <2>2. CASE Fails(w)
    BY <1>2, <2>2, RestingType DEF Fails, TypeOK
  <2> QED BY <1>1, <2>1, <2>2
<1>5. /\ StatusInTransaction(n) \in Statuses
      /\ Rank[status] <= Rank[status']
      /\ status' = status \/ status' = StatusOf[Kind[n]]
      /\ ~HasTransition(n) => Rank[StatusOf[Kind[n]]] <= Rank[status']
  BY <1>1, <1>2, TransactionClimbs DEF TypeOK
<1>6. /\ IsFiniteSet(events')
      /\ opens' = Cardinality({m \in events' : Kind[m] = "Open"})
  BY <1>1, <1>2, OpensCounted DEF IntakeInv, StatusConverges
<1>7. TypeOK'
  BY <1>1, <1>2, <1>4, <1>5, <1>6 DEF TypeOK
<1>8. Grows
  BY <1>1, <1>5 DEF Grows
<1>9. CoveredAtOnce'
  <2> SUFFICES ASSUME NEW m \in events', ~HasTransition(m) PROVE Covers(m)'
    BY DEF CoveredAtOnce, HasTransition
  <2>1. CASE m = n  BY <1>5, <2>1 DEF Covers
  <2>2. CASE m \in events  BY <1>2, <1>7, <1>8, <2>2, StillCovers DEF IntakeInv, CoveredAtOnce, TypeOK
  <2> QED BY <1>1, <2>1, <2>2
<1>10. StatusConverges'
  <2>1. status' # NoStatus => \E m \in events' : StatusOf[Kind[m]] = status'
    BY <1>1, <1>5 DEF IntakeInv, StatusConverges
  <2>2. \A m \in acked' : Covers(m)'
    BY <1>1, <1>2, <1>7, <1>8, StillCovers DEF IntakeInv, StatusConverges, Covers, TypeOK
  <2> QED BY <1>6, <2>1, <2>2 DEF StatusConverges, Covers
<1>11. AnsweredMeansSuppressed'
  BY <1>1 DEF IntakeInv, AnsweredMeansSuppressed
<1>12. Knows(w)'
  <2>1. CASE Goes(w, AfterPersist(n, TRUE))
    BY <1>1, <1>2, <1>7, <1>9, <2>1, PersistedKnows
  <2>2. CASE Fails(w)
    BY <1>2, <2>2 DEF Fails, TypeOK, Knows, Resting
  <2> QED BY <1>1, <2>1, <2>2
<1> QED BY <1>4, <1>7, <1>8, <1>9, <1>10, <1>11, <1>12, StepKeeps

LEMMA TransitionsKeeps ==
    ASSUME IntakeInv, NEW w \in Workers, Transitions(w)
    PROVE  IntakeInv'
<1>1. PICK n \in inv[w].note :
         /\ inv[w].pc = "transition"
         /\ IF HasTransition(n) /\ status \in AllowedPriors(TransitionTo(n))
            THEN status' = TransitionTo(n) /\ (Goes(w, "label") \/ Fails(w))
            ELSE Goes(w, "label") /\ UNCHANGED status
         /\ UNCHANGED <<events, opens, due, acked, marked, suppressed, refused>>
  BY DEF Transitions, Fails
<1>2. n \in Notes /\ inv[w].note = {n} /\ TypeOK
  BY <1>1, NoteInHand DEF IntakeInv
<1>3. n \in events
  BY <1>1, <1>2 DEF IntakeInv, Knows
<1>4. inv' \in [Workers -> Invocation] /\ \A b \in Workers \ {w} : inv'[b] = inv[b]
  <2>1. CASE Goes(w, "label")
    BY <1>2, <2>1, GoesType DEF PC
  <2>2. CASE Fails(w)
    BY <1>2, <2>2, RestingType DEF Fails, TypeOK
  <2> QED BY <1>1, <2>1, <2>2
<1>5. /\ status' \in Statuses
      /\ Rank[status] <= Rank[status']
      /\ status' = status \/ status' = StatusOf[Kind[n]]
      /\ Rank[StatusOf[Kind[n]]] <= Rank[status']
  <2>1. Rank[status] \in Nat /\ Rank[StatusOf[Kind[n]]] \in Nat
    BY <1>2, RankValues, StatusOfKind DEF TypeOK
  <2>2. CASE HasTransition(n)
    BY <1>1, <1>2, <2>1, <2>2, TransitionClimbs DEF TypeOK
  <2>3. CASE ~HasTransition(n)
    <3>1. Covers(n) /\ status' = status
      BY <1>1, <1>3, <2>3 DEF IntakeInv, CoveredAtOnce
    <3> QED BY <1>2, <2>1, <3>1 DEF Covers, TypeOK
  <2> QED BY <2>2, <2>3
<1>6. TypeOK' /\ Grows
  BY <1>1, <1>2, <1>4, <1>5 DEF TypeOK, Grows
<1>7. CoveredAtOnce'
  BY <1>1, <1>2, <1>6, StillCovers DEF IntakeInv, CoveredAtOnce, HasTransition, TypeOK
<1>8. StatusConverges'
  <2>1. status' # NoStatus => \E m \in events' : StatusOf[Kind[m]] = status'
    BY <1>1, <1>3, <1>5 DEF IntakeInv, StatusConverges
  <2>2. \A m \in acked' : Covers(m)'
    BY <1>1, <1>2, <1>6, StillCovers DEF IntakeInv, StatusConverges, Covers, TypeOK
  <2>3. opens' = Cardinality({m \in events' : Kind[m] = "Open"})
    BY <1>1 DEF IntakeInv, StatusConverges
  <2> QED BY <2>1, <2>2, <2>3 DEF StatusConverges, Covers
<1>9. AnsweredMeansSuppressed'
  BY <1>1 DEF IntakeInv, AnsweredMeansSuppressed
<1>10. Knows(w)'
  <2>1. CASE Goes(w, "label")
    <3>1. inv'[w].pc = "label" /\ inv'[w].note = {n}
      BY <1>2, <2>1, GoesType DEF PC
    <3> QED BY <1>1, <1>2, <1>3, <1>5, <3>1 DEF Knows, Covers
  <2>2. CASE Fails(w)
    BY <1>2, <2>2 DEF Fails, TypeOK, Knows, Resting
  <2> QED BY <1>1, <2>1, <2>2
<1> QED BY <1>4, <1>6, <1>7, <1>8, <1>9, <1>10, StepKeeps

\* apply_delivery_label, whatever comes of it, leaves every address on the list.
LEMMA ToSuppressKeeps ==
    ASSUME IntakeInv, NEW w \in Workers, inv[w].pc = "label", NEW n \in inv[w].note,
           NEW r \in Invocation, r.pc = "suppress", r.note = inv[w].note,
           r.todo = IF Suppresses(n) THEN Recipients[n] ELSE {},
           inv' = [inv EXCEPT ![w] = r],
           UNCHANGED <<events, status, opens, due, acked, marked, suppressed, refused>>
    PROVE  IntakeInv'
<1>1. n \in Notes /\ inv[w].note = {n} /\ TypeOK
  BY NoteInHand DEF IntakeInv
<1>2. TypeOK' /\ inv'[w] = r /\ \A b \in Workers \ {w} : inv'[b] = inv[b]
  BY <1>1 DEF TypeOK
<1>3. Grows /\ CoveredAtOnce' /\ StatusConverges' /\ AnsweredMeansSuppressed'
  BY QuietKeeps DEF Quiet
<1>4. n \in events /\ Covers(n)
  BY <1>1 DEF IntakeInv, Knows
<1>5. Covers(n)'
  BY <1>1, <1>2, <1>3, <1>4, StillCovers
<1>6. Handled(n, r.todo)'
  BY DEF Handled
<1>7. Knows(w)'
  BY <1>1, <1>2, <1>4, <1>5, <1>6 DEF Knows
<1> QED BY <1>2, <1>3, <1>7, StepKeeps

LEMMA LabelsKeeps ==
    ASSUME IntakeInv, NEW w \in Workers, Labels(w)
    PROVE  IntakeInv'
<1>1. PICK n \in inv[w].note :
         /\ inv[w].pc = "label"
         /\ inv' = [inv EXCEPT ![w].pc = "suppress",
                               ![w].todo = IF Suppresses(n) THEN Recipients[n] ELSE {}]
         /\ UNCHANGED <<events, status, opens, due, acked, marked, suppressed, refused>>
  BY DEF Labels
<1>2. n \in Notes /\ inv[w] \in Invocation
  BY <1>1, NoteInHand DEF IntakeInv, TypeOK
<1> DEFINE owed == IF Suppresses(n) THEN Recipients[n] ELSE {}
           r == [inv[w] EXCEPT !.pc = "suppress", !.todo = owed]
<1>3. owed \in SUBSET Addresses
  BY <1>2, TodoType
<1>4. inv' = [inv EXCEPT ![w] = r]
  BY <1>1
<1> HIDE DEF owed
<1>5. r \in Invocation /\ r.pc = "suppress" /\ r.note = inv[w].note /\ r.todo = owed
  BY <1>2, <1>3, InvocationUpdates
<1> HIDE DEF r
<1> QED BY <1>1, <1>4, <1>5, ToSuppressKeeps DEF owed

LEMMA LabelFailsKeeps ==
    ASSUME IntakeInv, NEW w \in Workers, LabelFails(w)
    PROVE  IntakeInv'
<1>1. PICK n \in inv[w].note, d \in BOOLEAN :
         inv' = [inv EXCEPT ![w].pc = "suppress", ![w].deferred = d,
                            ![w].todo = IF Suppresses(n) THEN Recipients[n] ELSE {}]
  BY DEF LabelFails, GoesOnUnlabelled
<1>2. /\ inv[w].pc = "label"
      /\ UNCHANGED <<events, status, opens, due, acked, marked, suppressed, refused>>
  BY DEF LabelFails, GoesOnUnlabelled
<1>3. n \in Notes /\ inv[w] \in Invocation
  BY <1>2, NoteInHand DEF IntakeInv, TypeOK
<1> DEFINE owed == IF Suppresses(n) THEN Recipients[n] ELSE {}
           r == [inv[w] EXCEPT !.pc = "suppress", !.deferred = d, !.todo = owed]
<1>4. owed \in SUBSET Addresses
  BY <1>3, TodoType
<1>5. inv' = [inv EXCEPT ![w] = r]
  BY <1>1
<1> HIDE DEF owed
<1>6. r \in Invocation /\ r.pc = "suppress" /\ r.note = inv[w].note /\ r.todo = owed
  BY <1>3, <1>4 DEF Invocation, PC
<1> HIDE DEF r
<1> QED BY <1>2, <1>5, <1>6, ToSuppressKeeps DEF owed

LEMMA SuppressKeeps ==
    ASSUME IntakeInv, NEW w \in Workers, Suppress(w)
    PROVE  IntakeInv'
<1>1. PICK a \in inv[w].todo :
         /\ inv[w].pc = "suppress"
         /\ inv' = [inv EXCEPT ![w].todo = @ \ {a}]
         /\ \/ suppressed' = suppressed \cup {a} /\ UNCHANGED refused
            \/ refused' = refused \cup {a} /\ UNCHANGED suppressed
         /\ UNCHANGED <<events, status, opens, due, acked, marked>>
  BY DEF Suppress
<1>2. inv[w] \in Invocation /\ TypeOK
  BY DEF IntakeInv, TypeOK
<1>3. a \in Addresses /\ inv[w].todo \ {a} \in SUBSET Addresses
  BY <1>2 DEF Invocation
<1> DEFINE left == inv[w].todo \ {a}
           r == [inv[w] EXCEPT !.todo = left]
<1>4. inv' = [inv EXCEPT ![w] = r]
  BY <1>1
<1>5. left \in SUBSET Addresses
  BY <1>3
<1>6. left \cup {a} = inv[w].todo
  BY <1>1
<1> HIDE DEF left
<1>7. r \in Invocation /\ r.pc = inv[w].pc /\ r.note = inv[w].note /\ r.todo = left
  BY <1>2, <1>5, InvocationUpdates, ZenonT(30)
<1> HIDE DEF r
<1>8. TypeOK' /\ inv'[w] = r /\ \A b \in Workers \ {w} : inv'[b] = inv[b]
  BY <1>1, <1>2, <1>3, <1>4, <1>7 DEF TypeOK
<1>9. Grows /\ CoveredAtOnce' /\ StatusConverges' /\ AnsweredMeansSuppressed'
  BY <1>1, QuietKeeps DEF Quiet
<1>10. Knows(w)'
  <2>1. \A n \in inv[w].note : Handled(n, inv[w].todo)'
    BY <1>1, <1>6, <1>7, <1>8 DEF IntakeInv, Knows, Handled
  <2>2. \A n \in inv[w].note : Covers(n)'
    BY <1>1, <1>2, <1>8, <1>9, StillCovers DEF IntakeInv, Knows, Invocation
  <2>3. (\E n \in Notes : r.note = {n}) /\ r.note \subseteq events'
    BY <1>1, <1>7 DEF IntakeInv, Knows
  <2> QED BY <1>7, <1>8, <2>1, <2>2, <2>3 DEF Knows
<1> QED BY <1>8, <1>9, <1>10, StepKeeps

LEMMA AnswersKeeps ==
    ASSUME IntakeInv, NEW w \in Workers, Answers(w)
    PROVE  IntakeInv'
<1>1. PICK n \in inv[w].note :
         /\ inv[w].pc = "suppress"
         /\ inv[w].todo = {}
         /\ Fails(w) \/ Acks(w, n)
         /\ UNCHANGED <<events, status, opens, due, marked, suppressed, refused>>
  BY DEF Answers
<1>2. CASE Fails(w)
  BY <1>1, <1>2, FailsKeeps DEF Quiet, Fails
<1>3. CASE Acks(w, n)
  <2>1. n \in Notes /\ TypeOK
    BY <1>1, NoteInHand DEF IntakeInv
  <2>2. inv' = [inv EXCEPT ![w] = Resting] /\ acked' = acked \cup {n} /\ Resting.pc = "rest"
    BY <1>3 DEF Acks, Resting
  <2>3. TypeOK'
    BY <1>1, <2>1, <2>2, RestingType DEF TypeOK
  <2>4. Covers(n) /\ Handled(n, {})
    BY <1>1 DEF IntakeInv, Knows
  <2>5. Rank[status] \in Nat
    BY <2>1, RankValues DEF TypeOK
  <2>6. Grows
    BY <1>1, <2>5 DEF Grows
  <2>7. CoveredAtOnce'
    BY <1>1 DEF IntakeInv, CoveredAtOnce, Covers
  <2>8. StatusConverges'
    BY <1>1, <2>2, <2>4 DEF IntakeInv, StatusConverges, Covers
  <2>9. AnsweredMeansSuppressed'
    BY <1>1, <2>2, <2>4 DEF IntakeInv, AnsweredMeansSuppressed, Handled
  <2>10. Knows(w)'
    BY <2>1, <2>2 DEF Knows, TypeOK
  <2>11. \A b \in Workers \ {w} : inv'[b] = inv[b]
    BY <2>1, <2>2 DEF TypeOK
  <2> QED BY <2>3, <2>6, <2>7, <2>8, <2>9, <2>10, <2>11, StepKeeps
<1> QED BY <1>1, <1>2, <1>3

LEMMA SenderMarksKeeps ==
    ASSUME IntakeInv, SenderMarks
    PROVE  IntakeInv'
<1>1. TypeOK'
  BY DEF IntakeInv, TypeOK, SenderMarks
<1>2. Grows /\ CoveredAtOnce' /\ StatusConverges' /\ AnsweredMeansSuppressed'
  BY QuietKeeps DEF SenderMarks, Quiet
<1>3. \A b \in Workers : Knows(b)'
  BY <1>1, <1>2, OthersKnow DEF IntakeInv, SenderMarks
<1> QED BY <1>1, <1>2, <1>3 DEF IntakeInv

\* Every step of the request path.
LEMMA IntakeStepKeeps ==
    ASSUME IntakeInv, IntakeNext
    PROVE  IntakeInv'
<1>1. ASSUME NEW w \in Workers, NEW n \in Notes, Delivers(w, n) PROVE IntakeInv'
  BY <1>1, DeliversKeeps
<1>2. ASSUME NEW w \in Workers,
             Persists(w) \/ FindsDuplicate(w) \/ Transitions(w) \/ Labels(w) \/ LabelFails(w)
                \/ Suppress(w) \/ Answers(w)
      PROVE  IntakeInv'
  BY <1>2, PersistsKeeps, FindsDuplicateKeeps, TransitionsKeeps, LabelsKeeps, LabelFailsKeeps,
     SuppressKeeps, AnswersKeeps
<1>3. ASSUME NEW w \in Workers, Dies(w) PROVE IntakeInv'
  BY <1>3, FailsKeeps DEF Dies, Fails, Quiet
<1> QED BY <1>1, <1>2, <1>3, SenderMarksKeeps DEF IntakeNext

LEMMA StutterKeeps ==
    ASSUME IntakeInv, UNCHANGED vars
    PROVE  IntakeInv'
<1>1. TypeOK'
  BY DEF IntakeInv, TypeOK, vars
<1>2. Grows /\ CoveredAtOnce' /\ StatusConverges' /\ AnsweredMeansSuppressed'
  BY QuietKeeps DEF vars, Quiet
<1>3. \A b \in Workers : Knows(b)'
  BY <1>1, <1>2, OthersKnow DEF IntakeInv, vars
<1> QED BY <1>1, <1>2, <1>3 DEF IntakeInv

LEMMA InitHolds ==
    ASSUME Init
    PROVE  IntakeInv
<1>1. IsFiniteSet({}) /\ Cardinality({}) = 0
  BY FS_EmptySet
<1>2. TypeOK
  BY <1>1, RestingType, IntakeAssumption DEF Init, TypeOK, Statuses
<1>3. \A w \in Workers : Knows(w)
  BY DEF Init, Knows, Resting
<1>4. {n \in {} : Kind[n] = "Open"} = {}
  OBVIOUS
<1>5. CoveredAtOnce /\ StatusConverges /\ AnsweredMeansSuppressed
  BY <1>1, <1>4 DEF Init, CoveredAtOnce, StatusConverges, AnsweredMeansSuppressed
<1> QED BY <1>2, <1>3, <1>5 DEF IntakeInv

-----------------------------------------------------------------------------
\* process_notification for any interleaving of deliveries, failures and deaths:
\* the inductive invariant holds throughout.
THEOREM IntakeIsSafe == IntakeSpec => []IntakeInv
<1>1. Init => IntakeInv
  BY InitHolds
<1>2. IntakeInv /\ [IntakeNext]_vars => IntakeInv'
  BY IntakeStepKeeps, StutterKeeps
<1> QED BY <1>1, <1>2, PTL DEF IntakeSpec

\* apply_status_transition, "a throttle or timeout between the two writes cannot
\* silently lose the status": the status is what some persisted event says and no
\* less than any answered event says, and each open is counted once.
THEOREM StatusAlwaysConverges == IntakeSpec => []StatusConverges
BY IntakeIsSafe, PTL DEF IntakeInv

\* actions.rs, "no label failure may skip suppression": an answered bounce or
\* complaint has every address listed or refused for good.
THEOREM AnsweredAreSuppressed == IntakeSpec => []AnsweredMeansSuppressed
BY IntakeIsSafe, PTL DEF IntakeInv

\* status_transition, "stale retries cannot regress it": no step moves the status
\* down the ladder.
THEOREM StatusNeverRegresses == IntakeSpec => [][Rank[status] <= Rank[status']]_vars
<1>1. ASSUME IntakeInv, IntakeNext PROVE Rank[status] <= Rank[status']
  <2>1. Rank[status] \in Nat
    BY <1>1, RankValues DEF IntakeInv, TypeOK
  <2>2. ASSUME NEW w \in Workers, Persists(w) PROVE Rank[status] <= Rank[status']
    <3>1. PICK n \in inv[w].note : inv[w].pc = "persist" /\ status' = StatusInTransaction(n)
      BY <2>2 DEF Persists
    <3>2. n \in Notes
      BY <1>1, <3>1, NoteInHand
    <3> QED BY <1>1, <3>1, <3>2, TransactionClimbs DEF IntakeInv, TypeOK
  <2>3. ASSUME NEW w \in Workers, Transitions(w) PROVE Rank[status] <= Rank[status']
    <3>1. PICK n \in inv[w].note :
             /\ inv[w].pc = "transition"
             /\ \/ HasTransition(n) /\ status \in AllowedPriors(TransitionTo(n)) /\ status' = TransitionTo(n)
                \/ status' = status
      BY <2>3 DEF Transitions
    <3>2. n \in Notes
      BY <1>1, <3>1, NoteInHand
    <3> QED BY <1>1, <2>1, <3>1, <3>2, TransitionClimbs DEF IntakeInv, TypeOK
  <2>4. \/ status' = status
        \/ \E w \in Workers : Persists(w) \/ Transitions(w)
    <3>1. /\ \A w \in Workers, n \in Notes : Delivers(w, n) => status' = status
          /\ \A w \in Workers : FindsDuplicate(w) \/ Labels(w) \/ LabelFails(w) \/ Suppress(w)
                                   \/ Answers(w) \/ Dies(w) => status' = status
          /\ SenderMarks => status' = status
      BY DEF Delivers, FindsDuplicate, Labels, LabelFails, Suppress, Answers, Dies, SenderMarks
    <3> QED BY <1>1, <3>1 DEF IntakeNext
  <2> QED BY <2>1, <2>2, <2>3, <2>4
<1> QED BY <1>1, IntakeIsSafe, PTL DEF IntakeSpec

-----------------------------------------------------------------------------
(***************************************************************************)
(* EventRelay.                                                             *)
(***************************************************************************)

StreamRecord ==
    [item : {"event"}, note : Notes] \cup [item : {"agg"}, old : Statuses, new : Statuses]

IsAgg(r) == r.item = "agg"

\* The status as of record p of stream str is s.
StatusAsOf(str, p, s) ==
    \/ \E k \in 1..p : IsAgg(str[k]) /\ str[k].new = s /\ \A m \in (k + 1)..p : ~IsAgg(str[m])
    \/ s = NoStatus /\ \A m \in 1..p : ~IsAgg(str[m])

\* The images of the aggregate follow one upon the other up to status s, which
\* once set is never unset.
Chained(str, s) ==
    /\ str \in Seq(StreamRecord)
    /\ \A i \in 1..Len(str) : IsAgg(str[i]) =>
          StatusAsOf(str, i - 1, str[i].old) /\ (str[i].new = NoStatus => str[i].old = NoStatus)
    /\ StatusAsOf(str, Len(str), s)

StreamOK == Chained(stream, status)

Busy ==
    [at : Nat, end : Nat, step : {"classify", "lookup", "event", "mailbox", "status"}, mailbox : BOOLEAN]

\* The records up to here are settled, for good or in the invocation under way.
Passed == IF relay = Idle THEN checkpoint ELSE relay.at - 1

Item == [rec : Nat, what : PublishSteps]

RelayOK ==
    /\ checkpoint \in Nat /\ checkpoint <= Len(stream)
    /\ \/ relay = Idle
       \/ relay \in Busy /\ checkpoint < relay.at /\ relay.at <= relay.end /\ relay.end <= Len(stream)
    /\ bus \in Seq(Item)
    /\ \A k \in 1..Len(bus) : bus[k].rec \in 1..Len(stream)
    /\ faults \in Nat
    /\ knownFrom \in Nat

\* Record i has announced what it had to, or is in the dead-letter queue.
Done(i) == i \in dead \/ \A what \in Announcements(i) : Announced(i, what)

\* What holds of the record in hand: it is of the step's kind, and the mailbox
\* event it is not going to publish is not one it has to.
InHandAt(i) ==
    /\ relay.step = "status" => IsAgg(stream[i]) /\ IsTransition(stream[i])
    /\ relay.step \in {"lookup", "event", "mailbox"} => ~IsAgg(stream[i])
    /\ relay.step = "event" => relay.mailbox \/ "mailbox" \notin Announcements(i)
    /\ relay.step = "mailbox" => Announced(i, "event")

InHandOK == relay # Idle => \A i \in Nat : i = relay.at => InHandAt(i)

\* How often an item was published, and whether that is still to come.
Count(b) == Cardinality({j \in 1..Len(bus) : bus[j] = b})

Ahead(i, what) == i > Passed /\ ~(relay.step = "mailbox" /\ i = relay.at /\ what = "event")

\* What is still to come was published once for every fault at most.
CountsOK ==
    \A i \in Nat, what \in PublishSteps :
       /\ Count(Published(i, what)) <= 1 + faults
       /\ Ahead(i, what) => Count(Published(i, what)) <= faults

\* The bus was last told of the status as of record p, or will be told of a later
\* one.
LastTold(b, str, s) ==
    \/ \E k \in 1..Len(b) :
          /\ b[k].what = "status" /\ str[b[k].rec].new = s
          /\ \A j \in (k + 1)..Len(b) : b[j].what # "status"
    \/ s = NoStatus /\ \A j \in 1..Len(b) : b[j].what # "status"

FineAt(b, str, p) ==
    \/ \E s : LastTold(b, str, s) /\ StatusAsOf(str, p, s)
    \/ \E j \in (p + 1)..Len(str) : IsAgg(str[j]) /\ IsTransition(str[j])

Fine(p) == FineAt(bus, stream, p)

\* The inductive invariant.
RelayInv ==
    /\ IntakeInv /\ StreamOK /\ RelayOK
    /\ \A i \in 1..Passed : Done(i)
    /\ InHandOK
    /\ CountsOK
    /\ dead = {} => Fine(checkpoint) /\ Fine(Passed)

-----------------------------------------------------------------------------
(***************************************************************************)
(* Sequences, and the stream as the request path writes it.                *)
(***************************************************************************)

LEMMA AppendOne ==
    ASSUME NEW S, NEW s \in Seq(S), NEW e \in S
    PROVE  /\ Append(s, e) \in Seq(S)
           /\ Len(Append(s, e)) = Len(s) + 1
           /\ \A i \in 1..Len(s) : Append(s, e)[i] = s[i]
           /\ Append(s, e)[Len(s) + 1] = e
OBVIOUS

LEMMA AppendTwo ==
    ASSUME NEW S, NEW s \in Seq(S), NEW a \in S, NEW b \in S
    PROVE  /\ s \o <<a, b>> \in Seq(S)
           /\ Len(s \o <<a, b>>) = Len(s) + 2
           /\ \A i \in 1..Len(s) : (s \o <<a, b>>)[i] = s[i]
           /\ (s \o <<a, b>>)[Len(s) + 1] = a
           /\ (s \o <<a, b>>)[Len(s) + 2] = b
OBVIOUS

LEMMA EventTypes ==
    ASSUME NEW n \in Notes
    PROVE  EventRecord(n) \in StreamRecord /\ EventRecord(n).item = "event"
BY DEF EventRecord, StreamRecord

LEMMA ImageTypes ==
    ASSUME NEW old \in Statuses, NEW new \in Statuses
    PROVE  /\ AggRecord(old, new) \in StreamRecord /\ AggRecord(old, new).item = "agg"
           /\ AggRecord(old, new).old = old /\ AggRecord(old, new).new = new
BY DEF AggRecord, StreamRecord

\* The records of str stay as they are and others come after them.
Extends(more, str) ==
    /\ more \in Seq(StreamRecord)
    /\ Len(str) <= Len(more)
    /\ \A i \in 1..Len(str) : more[i] = str[i]

\* What the request path adds to the stream: nothing, when the status stays, or
\* the images of the aggregate, after an event's record or alone.
LEMMA IntakeWrites ==
    ASSUME IntakeInv, StreamOK, IntakeNext
    PROVE  /\ status \in Statuses /\ status' \in Statuses
           /\ status' = NoStatus => status = NoStatus
           /\ \/ stream' = stream /\ status' = status
              \/ /\ \E n \in Notes : stream' = stream \o <<EventRecord(n), AggRecord(status, status')>>
                 /\ UNCHANGED marked
              \/ stream' = Append(stream, AggRecord(status, status')) /\ UNCHANGED marked
<1>1. status \in Statuses /\ TypeOK
  BY DEF IntakeInv, TypeOK
<1>2. ASSUME NEW w \in Workers, Persists(w)
      PROVE  /\ status' \in Statuses /\ (status' = NoStatus => status = NoStatus)
             /\ \E n \in Notes : stream' = stream \o <<EventRecord(n), AggRecord(status, status')>>
             /\ UNCHANGED marked
  <2>1. PICK n \in inv[w].note :
           /\ inv[w].pc = "persist" /\ status' = StatusInTransaction(n)
           /\ stream' = stream \o <<EventRecord(n), AggRecord(status, StatusInTransaction(n))>>
           /\ UNCHANGED marked
    BY <1>2 DEF Persists
  <2>2. n \in Notes
    BY <2>1, NoteInHand
  <2>3. status' \in Statuses /\ Rank[status] <= Rank[status']
    BY <1>1, <2>1, <2>2, TransactionClimbs
  <2>4. status' = NoStatus => status = NoStatus
    BY <1>1, <2>3, RankValues DEF Statuses, NoStatus
  <2> QED BY <2>1, <2>2, <2>3, <2>4
<1>3. ASSUME NEW w \in Workers, Transitions(w)
      PROVE  /\ status' \in Statuses /\ (status' = NoStatus => status = NoStatus)
             /\ \/ stream' = stream /\ status' = status
                \/ stream' = Append(stream, AggRecord(status, status'))
             /\ UNCHANGED marked
  <2>1. PICK n \in inv[w].note :
           /\ inv[w].pc = "transition"
           /\ \/ HasTransition(n) /\ status' = TransitionTo(n)
                 /\ stream' = Append(stream, AggRecord(status, TransitionTo(n)))
              \/ UNCHANGED <<status, stream>>
           /\ UNCHANGED marked
    BY <1>3 DEF Transitions
  <2>2. n \in Notes
    BY <2>1, NoteInHand
  <2>3. HasTransition(n) => TransitionTo(n) \in Statuses \ {NoStatus}
    BY <1>1, <2>2, TransitionClimbs DEF TransitionTo, NoStatus
  <2> QED BY <1>1, <2>1, <2>2, <2>3
<1>4. ASSUME NEW w \in Workers,
             \/ \E n \in Notes : Delivers(w, n)
             \/ FindsDuplicate(w) \/ Labels(w) \/ LabelFails(w) \/ Suppress(w) \/ Answers(w) \/ Dies(w)
      PROVE  UNCHANGED <<status, stream>>
  BY <1>4 DEF Delivers, FindsDuplicate, Labels, LabelFails, Suppress, Answers, Dies
<1>5. SenderMarks => UNCHANGED <<status, stream>>
  BY DEF SenderMarks
<1> QED BY <1>1, <1>2, <1>3, <1>4, <1>5 DEF IntakeNext

\* The sender's mark is set once, while the stream stands still.
LEMMA IntakeMarks ==
    ASSUME IntakeNext
    PROVE  UNCHANGED marked \/ (~marked /\ marked' /\ stream' = stream)
<1>1. ASSUME NEW w \in Workers,
             \/ \E n \in Notes : Delivers(w, n)
             \/ Persists(w) \/ FindsDuplicate(w) \/ Transitions(w) \/ Labels(w) \/ LabelFails(w)
             \/ Suppress(w) \/ Answers(w) \/ Dies(w)
      PROVE  UNCHANGED marked
  BY <1>1 DEF Delivers, Persists, FindsDuplicate, Transitions, Labels, LabelFails, Suppress, Answers, Dies
<1>2. ASSUME SenderMarks PROVE ~marked /\ marked' /\ stream' = stream
  BY <1>2, Zenon DEF SenderMarks
<1> QED BY <1>1, <1>2 DEF IntakeNext

\* The status as of a record is one, and stays what it was.
LEMMA StatusIsOne ==
    ASSUME NEW str, NEW p \in Nat, NEW s, NEW t, StatusAsOf(str, p, s), StatusAsOf(str, p, t)
    PROVE  s = t
BY DEF StatusAsOf

LEMMA StatusStays ==
    ASSUME NEW str \in Seq(StreamRecord), NEW more, Extends(more, str), NEW p \in 0..Len(str), NEW s
    PROVE  StatusAsOf(more, p, s) <=> StatusAsOf(str, p, s)
BY DEF StatusAsOf, Extends

\* A new image of the aggregate, that follows upon its status.
LEMMA ImageAdded ==
    ASSUME NEW str, NEW s, Chained(str, s), NEW t, t = NoStatus => s = NoStatus,
           NEW more, Extends(more, str), Len(str) < Len(more),
           \A m \in (Len(str) + 1)..(Len(more) - 1) : ~IsAgg(more[m]),
           LET r == more[Len(more)] IN IsAgg(r) /\ r.old = s /\ r.new = t
    PROVE  Chained(more, t)
<1> DEFINE n == Len(more)
<1>1. Len(str) \in Nat /\ n \in Nat /\ Len(str) < n /\ str \in Seq(StreamRecord)
  BY DEF Chained, Extends
<1>2. StatusAsOf(more, Len(str), s)
  BY <1>1, StatusStays DEF Chained
<1>3. \A m \in (Len(str) + 1)..(n - 1) : ~IsAgg(more[m])
  OBVIOUS
<1>4. IsAgg(more[n]) /\ more[n].old = s /\ more[n].new = t
  OBVIOUS
<1>5. ASSUME NEW i \in 1..Len(str), IsAgg(more[i])
      PROVE  StatusAsOf(more, i - 1, more[i].old) /\ (more[i].new = NoStatus => more[i].old = NoStatus)
  <2>1. more[i] = str[i] /\ i - 1 \in 0..Len(str)
    BY <1>1 DEF Extends
  <2>2. StatusAsOf(str, i - 1, str[i].old) /\ (str[i].new = NoStatus => str[i].old = NoStatus)
    BY <1>5, <2>1 DEF Chained
  <2> QED BY <1>1, <2>1, <2>2, StatusStays
<1> HIDE DEF n
<1>6. StatusAsOf(more, n - 1, s)
  BY <1>1, <1>2, <1>3 DEF StatusAsOf
<1>7. StatusAsOf(more, n, t)
  BY <1>1, <1>4 DEF StatusAsOf
<1>8. \A i \in 1..n : IsAgg(more[i]) =>
         StatusAsOf(more, i - 1, more[i].old) /\ (more[i].new = NoStatus => more[i].old = NoStatus)
  <2>1. SUFFICES ASSUME NEW i \in 1..n, IsAgg(more[i])
                 PROVE  StatusAsOf(more, i - 1, more[i].old) /\ (more[i].new = NoStatus => more[i].old = NoStatus)
    OBVIOUS
  <2>2. i \in 1..Len(str) \/ i = n
    BY <1>1, <1>3, <2>1
  <2> QED BY <1>4, <1>5, <1>6, <2>1, <2>2
<1> QED BY <1>7, <1>8 DEF Chained, Extends, n

\* The request path only ever extends the stream, by images that follow.
LEMMA StreamKeeps ==
    ASSUME IntakeInv, StreamOK, IntakeNext
    PROVE  Extends(stream', stream) /\ StreamOK'
<1>1. stream \in Seq(StreamRecord) /\ status \in Statuses /\ status' \in Statuses
         /\ (status' = NoStatus => status = NoStatus)
  BY IntakeWrites DEF StreamOK, Chained
<1>2. CASE stream' = stream /\ status' = status
  BY <1>1, <1>2 DEF StreamOK, Extends
<1>3. ASSUME NEW n \in Notes, stream' = stream \o <<EventRecord(n), AggRecord(status, status')>>
      PROVE  Extends(stream', stream) /\ StreamOK'
  <2> DEFINE a == EventRecord(n)
             b == AggRecord(status, status')
             more == stream \o <<a, b>>
  <2>1. a \in StreamRecord /\ b \in StreamRecord /\ ~IsAgg(a) /\ IsAgg(b) /\ b.old = status /\ b.new = status'
    BY <1>1, EventTypes, ImageTypes DEF IsAgg
  <2> HIDE DEF a, b
  <2>2. /\ more \in Seq(StreamRecord) /\ Len(more) = Len(stream) + 2 /\ Len(stream) \in Nat
        /\ \A i \in 1..Len(stream) : more[i] = stream[i]
        /\ more[Len(stream) + 1] = a /\ more[Len(stream) + 2] = b
    BY <1>1, <2>1, AppendTwo
  <2>3. stream' = more
    BY <1>3 DEF a, b
  <2> HIDE DEF more
  <2>4. Extends(more, stream)
    BY <2>2 DEF Extends
  <2>5. \A m \in (Len(stream) + 1)..(Len(more) - 1) : ~IsAgg(more[m])
    BY <2>1, <2>2
  <2>6. Chained(more, status')
    BY <1>1, <2>1, <2>2, <2>4, <2>5, ImageAdded DEF StreamOK
  <2> QED BY <2>3, <2>4, <2>6 DEF StreamOK
<1>4. CASE stream' = Append(stream, AggRecord(status, status'))
  <2> DEFINE b == AggRecord(status, status')
             more == Append(stream, b)
  <2>1. b \in StreamRecord /\ IsAgg(b) /\ b.old = status /\ b.new = status'
    BY <1>1, EventTypes, ImageTypes DEF IsAgg
  <2> HIDE DEF b
  <2>2. /\ more \in Seq(StreamRecord) /\ Len(more) = Len(stream) + 1 /\ Len(stream) \in Nat
        /\ \A i \in 1..Len(stream) : more[i] = stream[i]
        /\ more[Len(stream) + 1] = b
    BY <1>1, <2>1, AppendOne
  <2>3. stream' = more
    BY <1>4 DEF b
  <2> HIDE DEF more
  <2>4. Extends(more, stream)
    BY <2>2 DEF Extends
  <2>5. \A m \in (Len(stream) + 1)..(Len(more) - 1) : ~IsAgg(more[m])
    BY <2>2
  <2>6. Chained(more, status')
    BY <1>1, <2>1, <2>2, <2>4, <2>5, ImageAdded DEF StreamOK
  <2> QED BY <2>3, <2>4, <2>6 DEF StreamOK
<1> QED BY <1>2, <1>3, <1>4, IntakeWrites

-----------------------------------------------------------------------------
(***************************************************************************)
(* Where the relay is.                                                     *)
(***************************************************************************)

LEMMA NextRecord ==
    ASSUME NEW r \in Busy, NEW at \in Nat
    PROVE  LET q == [r EXCEPT !.at = at, !.step = "classify", !.mailbox = FALSE] IN
           q \in Busy /\ q.at = at /\ q.end = r.end /\ q.step = "classify"
BY DEF Busy

LEMMA SettlesMoves ==
    ASSUME StreamOK, RelayOK, relay # Idle, Settles
    PROVE  /\ checkpoint' \in {checkpoint, relay.at} /\ relay.at \in 1..Len(stream)
           /\ \/ relay' = Idle /\ checkpoint' = relay.at
              \/ /\ relay' # Idle /\ relay' \in Busy /\ relay'.step = "classify"
                 /\ checkpoint' < relay'.at /\ relay'.at <= relay'.end /\ relay'.end <= Len(stream)
                 /\ relay'.at = relay.at + 1
           /\ Passed' = relay.at
<1>1. /\ checkpoint \in Nat /\ relay \in Busy /\ Len(stream) \in Nat
      /\ checkpoint < relay.at /\ relay.at <= relay.end /\ relay.end <= Len(stream)
  BY DEF RelayOK, StreamOK, Chained
<1>2. /\ relay.at \in Nat /\ relay.end \in Nat
  BY <1>1 DEF Busy
<1>3. CASE relay.at < relay.end
  <2>0. PICK next \in Nat : next = relay.at + 1
    BY <1>2
  <2> DEFINE q == [relay EXCEPT !.at = next, !.step = "classify", !.mailbox = FALSE]
  <2>1. q \in Busy /\ q.at = next /\ q.end = relay.end /\ q.step = "classify"
    BY <1>1, NextRecord
  <2>2. relay' = q /\ checkpoint' = checkpoint
    BY <1>3, <2>0 DEF Settles
  <2> HIDE DEF q
  <2>3. q # Idle
    BY <2>1 DEF Idle
  <2> QED BY <1>1, <1>2, <1>3, <2>0, <2>1, <2>2, <2>3 DEF Passed
<1>4. CASE ~(relay.at < relay.end)
  <2>1. relay' = Idle /\ checkpoint' = relay.end /\ relay.end = relay.at
    BY <1>1, <1>2, <1>4 DEF Settles
  <2> QED BY <1>1, <1>2, <2>1 DEF Passed
<1> QED BY <1>3, <1>4

\* A failure is reported: the mapping goes on from the record in hand.
LEMMA RetriesMoves ==
    ASSUME StreamOK, RelayOK, relay # Idle, Retries
    PROVE  relay' = Idle /\ checkpoint' = Passed /\ Passed' = Passed /\ Passed \in 0..(Len(stream) - 1)
<1>1. /\ checkpoint \in Nat /\ relay \in Busy /\ Len(stream) \in Nat
      /\ checkpoint < relay.at /\ relay.at <= relay.end /\ relay.end <= Len(stream)
  BY DEF RelayOK, StreamOK, Chained
<1>2. /\ relay.at \in Nat /\ relay.end \in Nat
  BY <1>1 DEF Busy
<1>3. relay' = Idle /\ checkpoint' = relay.at - 1
  BY DEF Retries
<1> QED BY <1>1, <1>2, <1>3 DEF Passed

\* The record in hand goes to another step.
LEMMA SameRecord ==
    ASSUME NEW r \in Busy, NEW step \in {"classify", "lookup", "event", "mailbox", "status"}
    PROVE  LET q == [r EXCEPT !.step = step] IN
           q \in Busy /\ q.at = r.at /\ q.end = r.end /\ q.step = step /\ q.mailbox = r.mailbox
BY DEF Busy

LEMMA Looked ==
    ASSUME NEW r \in Busy, NEW found \in BOOLEAN
    PROVE  LET q == [r EXCEPT !.step = "event", !.mailbox = found] IN
           q \in Busy /\ q.at = r.at /\ q.end = r.end /\ q.step = "event" /\ q.mailbox = found
BY DEF Busy

Steps(step) ==
    /\ checkpoint' = checkpoint
    /\ relay' # Idle /\ relay' \in Busy
    /\ relay'.at = relay.at /\ relay'.end = relay.end /\ relay'.step = step

LEMMA GoesToStep ==
    ASSUME RelayOK, relay # Idle, UNCHANGED checkpoint,
           NEW step \in {"classify", "lookup", "event", "mailbox", "status"},
           relay' = [relay EXCEPT !.step = step]
    PROVE  Steps(step) /\ relay'.mailbox = relay.mailbox
<1>1. relay \in Busy
  BY DEF RelayOK
<1> DEFINE q == [relay EXCEPT !.step = step]
<1>2. q \in Busy /\ q.at = relay.at /\ q.end = relay.end /\ q.step = step /\ q.mailbox = relay.mailbox
  BY <1>1, SameRecord
<1>3. relay' = q
  OBVIOUS
<1> HIDE DEF q
<1>4. q # Idle
  BY <1>2 DEF Idle
<1> QED BY <1>2, <1>3, <1>4 DEF Steps

LEMMA StepsMove ==
    ASSUME RelayOK, relay # Idle, NEW step, Steps(step)
    PROVE  Passed' = Passed
BY DEF Steps, Passed

-----------------------------------------------------------------------------
(***************************************************************************)
(* What a record has to announce, and that it stays announced.             *)
(***************************************************************************)

LEMMA AnnouncementsAre ==
    ASSUME NEW i
    PROVE  /\ IsAgg(stream[i]) => Announcements(i) = IF IsTransition(stream[i]) THEN {"status"} ELSE {}
           /\ ~IsAgg(stream[i]) =>
                 /\ "event" \in Announcements(i) /\ Announcements(i) \subseteq {"event", "mailbox"}
                 /\ "mailbox" \in Announcements(i) <=>
                       /\ Kind[stream[i].note] \in DOMAIN MailboxLabel /\ marked
                       /\ i > knownFrom /\ i \notin refusedLookups
<1>1. IsAgg(stream[i]) => Announcements(i) = IF IsTransition(stream[i]) THEN {"status"} ELSE {}
  BY DEF Announcements, IsAgg, IsTransition
<1>2. CASE ~IsAgg(stream[i]) /\ Kind[stream[i].note] \in DOMAIN MailboxLabel /\ marked
              /\ i > knownFrom /\ i \notin refusedLookups
  BY <1>2 DEF Announcements, IsAgg
<1>3. CASE ~IsAgg(stream[i]) /\ ~(Kind[stream[i].note] \in DOMAIN MailboxLabel /\ marked
              /\ i > knownFrom /\ i \notin refusedLookups)
  <2>1. Announcements(i) = {"event"} \cup {}
    BY <1>3, Zenon DEF Announcements, IsAgg
  <2> QED BY <1>3, <2>1, Zenon
<1> QED BY <1>1, <1>2, <1>3

\* A record never has more to announce than it had.
LEMMA AnnouncementsShrink ==
    ASSUME NEW i \in Nat, stream'[i] = stream[i], refusedLookups \subseteq refusedLookups',
           UNCHANGED <<marked, knownFrom>> \/ (knownFrom' \in Nat /\ i <= knownFrom')
    PROVE  Announcements(i)' \subseteq Announcements(i)
<1>1. CASE IsAgg(stream[i])
  BY <1>1 DEF Announcements, IsAgg
<1>2. CASE ~IsAgg(stream[i])
  <2>1. ~IsAgg(stream'[i]) /\ stream'[i].note = stream[i].note
    BY <1>2
  <2>2. CASE "mailbox" \in Announcements(i)
    <3>1. Announcements(i)' \subseteq {"event", "mailbox"}
      BY <2>1 DEF Announcements, IsAgg
    <3> QED BY <1>2, <2>2, <3>1, AnnouncementsAre
  <2>3. CASE "mailbox" \notin Announcements(i)
    <3>1. ~(Kind[stream[i].note] \in DOMAIN MailboxLabel /\ marked
              /\ i > knownFrom /\ i \notin refusedLookups)
      BY <1>2, <2>3, AnnouncementsAre, Zenon
    <3>2. ~(i <= knownFrom' /\ i > knownFrom' /\ knownFrom' \in Nat)
      OBVIOUS
    <3>3. ~(Kind[stream'[i].note] \in DOMAIN MailboxLabel /\ marked'
              /\ i > knownFrom' /\ i \notin refusedLookups')
      BY <2>1, <3>1, <3>2, Zenon
    <3>4. Announcements(i)' = {"event"} \cup {}
      BY <2>1, <3>3, Zenon DEF Announcements, IsAgg
    <3> QED BY <1>2, <3>4, AnnouncementsAre
  <2> QED BY <2>2, <2>3
<1> QED BY <1>1, <1>2

\* What is published stays published.
BusGrows == Len(bus) <= Len(bus') /\ \A k \in 1..Len(bus) : bus'[k] = bus[k]

LEMMA AnnouncedStays ==
    ASSUME bus \in Seq(Item), bus' \in Seq(Item), BusGrows, NEW i, NEW what, Announced(i, what)
    PROVE  Announced(i, what)'
BY DEF Announced, BusGrows, Published

LEMMA DoneStays ==
    ASSUME bus \in Seq(Item), bus' \in Seq(Item), BusGrows, dead \subseteq dead',
           NEW i, Announcements(i)' \subseteq Announcements(i), Done(i)
    PROVE  Done(i)'
BY AnnouncedStays DEF Done

-----------------------------------------------------------------------------
(***************************************************************************)
(* How often an item was published.                                        *)
(***************************************************************************)

CountIn(b, e) == Cardinality({j \in 1..Len(b) : b[j] = e})

LEMMA CountIsFinite ==
    ASSUME NEW b, Len(b) \in Nat, NEW e
    PROVE  IsFiniteSet({j \in 1..Len(b) : b[j] = e}) /\ CountIn(b, e) \in Nat
<1>1. IsFiniteSet(1..Len(b))
  BY FS_Interval
<1>2. IsFiniteSet({j \in 1..Len(b) : b[j] = e})
  BY <1>1, FS_Subset
<1> QED BY <1>2, FS_CardinalityType DEF CountIn

LEMMA CountAppended ==
    ASSUME NEW b \in Seq(Item), NEW e \in Item, NEW d
    PROVE  /\ CountIn(b, d) \in Nat
           /\ d = e => CountIn(Append(b, e), d) = CountIn(b, d) + 1
           /\ d # e => CountIn(Append(b, e), d) = CountIn(b, d)
<1> DEFINE n == Len(b) + 1
           more == Append(b, e)
           S == {j \in 1..Len(b) : b[j] = d}
           T == {j \in 1..Len(more) : more[j] = d}
<1>1. Len(b) \in Nat /\ Len(more) = n /\ more[n] = e /\ \A j \in 1..Len(b) : more[j] = b[j]
  BY AppendOne
<1>2. IsFiniteSet(S) /\ CountIn(b, d) \in Nat /\ CountIn(b, d) = Cardinality(S)
  BY <1>1, CountIsFinite DEF CountIn
<1> HIDE DEF more
<1>3. n \notin S
  BY <1>1
<1>4. d = e => T = S \cup {n}
  BY <1>1
<1>5. d # e => T = S
  BY <1>1
<1> HIDE DEF S
<1>6. Cardinality(S \cup {n}) = Cardinality(S) + 1
  BY <1>2, <1>3, FS_AddElement
<1>7. CountIn(Append(b, e), d) = Cardinality(T)
  BY DEF CountIn, more
<1> HIDE DEF T, n
<1> QED BY <1>2, <1>4, <1>5, <1>6, <1>7

LEMMA PublishedItem ==
    ASSUME NEW i \in Nat, NEW what \in PublishSteps
    PROVE  Published(i, what) \in Item /\ Published(i, what).rec = i /\ Published(i, what).what = what
BY DEF Published, Item

\* Without a publish and without a fault, what is ahead is no more than it was.
LEMMA QuietCounts ==
    ASSUME CountsOK, UNCHANGED <<bus, faults>>,
           \A i \in Nat, what \in PublishSteps : Ahead(i, what)' => Ahead(i, what)
    PROVE  CountsOK'
<1>1. ASSUME NEW i \in Nat, NEW what \in PublishSteps
      PROVE  /\ Count(Published(i, what))' <= 1 + faults'
             /\ Ahead(i, what)' => Count(Published(i, what))' <= faults'
  <2>1. Count(Published(i, what))' = Count(Published(i, what))
    BY DEF Count, Published
  <2> QED BY <2>1 DEF CountsOK
<1> QED BY <1>1 DEF CountsOK

\* A fault makes room for one repetition of everything.
LEMMA FaultCounts ==
    ASSUME bus \in Seq(Item), faults \in Nat, CountsOK, UNCHANGED bus, faults' = faults + 1
    PROVE  CountsOK'
<1>1. ASSUME NEW i \in Nat, NEW what \in PublishSteps
      PROVE  Count(Published(i, what))' <= faults'
  <2>1. Count(Published(i, what))' = Count(Published(i, what))
    BY DEF Count, Published
  <2> QED BY <2>1 DEF CountsOK
<1>2. faults' \in Nat
  OBVIOUS
<1>3. ASSUME NEW i \in Nat, NEW what \in PublishSteps
      PROVE  Count(Published(i, what))' \in Nat
  <2>0. Len(bus) \in Nat
    OBVIOUS
  <2>1. CountIn(bus, Published(i, what)) \in Nat
    BY <2>0, CountIsFinite
  <2> QED BY <2>1 DEF CountIn, Count, Published
<1> QED BY <1>1, <1>2, <1>3 DEF CountsOK

\* A publish of what was ahead, that is ahead no longer or is followed by a fault.
LEMMA PublishCounts ==
    ASSUME bus \in Seq(Item), faults \in Nat, CountsOK,
           NEW at \in Nat, NEW step \in PublishSteps, Ahead(at, step),
           bus' = Append(bus, Published(at, step)),
           \/ /\ faults' = faults /\ ~Ahead(at, step)'
              /\ \A i \in Nat, what \in PublishSteps : Ahead(i, what)' => Ahead(i, what)
           \/ faults' = faults + 1
    PROVE  CountsOK'
<1> DEFINE e == Published(at, step)
<1>1. e \in Item /\ CountIn(bus, e) <= faults
  BY PublishedItem DEF CountsOK, Count, CountIn
<1>2. ASSUME NEW i \in Nat, NEW what \in PublishSteps
      PROVE  /\ Count(Published(i, what))' <= 1 + faults'
             /\ Ahead(i, what)' => Count(Published(i, what))' <= faults'
  <2> DEFINE d == Published(i, what)
  <2>0. Len(bus) \in Nat
    OBVIOUS
  <2>a. CountIn(bus, d) \in Nat
    BY <2>0, CountIsFinite
  <2>b. CountIn(bus, d) <= 1 + faults /\ (Ahead(i, what) => CountIn(bus, d) <= faults)
    BY DEF CountsOK, Count, CountIn
  <2>1. /\ CountIn(bus, d) \in Nat /\ CountIn(bus, d) <= 1 + faults
        /\ Ahead(i, what) => CountIn(bus, d) <= faults
    BY <2>a, <2>b
  <2>2. Count(Published(i, what))' = CountIn(Append(bus, e), d)
    BY DEF Count, CountIn, Published
  <2>3. /\ d = e => CountIn(Append(bus, e), d) = CountIn(bus, d) + 1
        /\ d # e => CountIn(Append(bus, e), d) = CountIn(bus, d)
    BY <1>1, CountAppended
  <2>4. d = e => i = at /\ what = step
    BY PublishedItem
  <2> HIDE DEF d, e
  <2>5. CASE d = e
    BY <1>1, <2>1, <2>2, <2>3, <2>4, <2>5
  <2>6. CASE d # e
    BY <2>1, <2>2, <2>3, <2>6
  <2> QED BY <2>5, <2>6
<1> QED BY <1>2 DEF CountsOK

-----------------------------------------------------------------------------
(***************************************************************************)
(* What the bus was last told of.                                          *)
(***************************************************************************)

BusOver(b, str) == b \in Seq(Item) /\ \A k \in 1..Len(b) : b[k].rec \in 1..Len(str)

LEMMA FineExtends ==
    ASSUME NEW b, NEW str \in Seq(StreamRecord), BusOver(b, str), NEW more, Extends(more, str),
           NEW p \in 0..Len(str), FineAt(b, str, p)
    PROVE  FineAt(b, more, p)
<1>1. CASE \E s : LastTold(b, str, s) /\ StatusAsOf(str, p, s)
  <2>1. PICK s : LastTold(b, str, s) /\ StatusAsOf(str, p, s)
    BY <1>1
  <2>2. LastTold(b, more, s)
    BY <2>1 DEF LastTold, BusOver, Extends
  <2>3. StatusAsOf(more, p, s)
    BY <2>1, StatusStays
  <2> QED BY <2>2, <2>3 DEF FineAt
<1>2. CASE \E j \in (p + 1)..Len(str) : IsAgg(str[j]) /\ IsTransition(str[j])
  BY <1>2 DEF FineAt, Extends
<1> QED BY <1>1, <1>2 DEF FineAt

\* Past a record that is no transition the status is what it was.
LEMMA FinePasses ==
    ASSUME NEW b, NEW str, NEW t, Chained(str, t), NEW p \in Nat, p + 1 <= Len(str),
           ~(IsAgg(str[p + 1]) /\ IsTransition(str[p + 1])), FineAt(b, str, p)
    PROVE  FineAt(b, str, p + 1)
<1>0. Len(str) \in Nat
  BY DEF Chained
<1>1. CASE \E s : LastTold(b, str, s) /\ StatusAsOf(str, p, s)
  <2>1. PICK s : LastTold(b, str, s) /\ StatusAsOf(str, p, s)
    BY <1>1
  <2>2. CASE ~IsAgg(str[p + 1])
    <3>1. StatusAsOf(str, p + 1, s)
      BY <1>0, <2>1, <2>2 DEF StatusAsOf
    <3> QED BY <2>1, <3>1 DEF FineAt
  <2>3. CASE IsAgg(str[p + 1])
    <3>1. StatusAsOf(str, (p + 1) - 1, str[p + 1].old)
             /\ (str[p + 1].new = NoStatus => str[p + 1].old = NoStatus)
      BY <1>0, <2>3 DEF Chained
    <3>2. str[p + 1].new = str[p + 1].old
      BY <2>3, <3>1 DEF IsTransition
    <3>3. (p + 1) - 1 = p
      OBVIOUS
    <3>4. str[p + 1].old = s
      BY <2>1, <3>1, <3>3, StatusIsOne
    <3>5. StatusAsOf(str, p + 1, s)
      BY <1>0, <2>3, <3>2, <3>4 DEF StatusAsOf
    <3> QED BY <2>1, <3>5 DEF FineAt
  <2> QED BY <2>2, <2>3
<1>2. CASE \E j \in (p + 1)..Len(str) : IsAgg(str[j]) /\ IsTransition(str[j])
  BY <1>0, <1>2 DEF FineAt
<1> QED BY <1>1, <1>2 DEF FineAt

\* A publish of another kind does not count.
LEMMA FineAside ==
    ASSUME NEW b \in Seq(Item), NEW str, NEW e \in Item, e.what # "status", NEW p, FineAt(b, str, p)
    PROVE  FineAt(Append(b, e), str, p)
<1>1. ASSUME NEW s, LastTold(b, str, s) PROVE LastTold(Append(b, e), str, s)
  <2> DEFINE more == Append(b, e)
  <2>1. /\ Len(b) \in Nat /\ Len(more) = Len(b) + 1 /\ more[Len(b) + 1] = e
        /\ \A k \in 1..Len(b) : more[k] = b[k]
    BY AppendOne
  <2> HIDE DEF more
  <2>2. CASE s = NoStatus /\ \A j \in 1..Len(b) : b[j].what # "status"
    <3>1. \A j \in 1..Len(more) : more[j].what # "status"
      BY <2>1, <2>2
    <3> QED BY <2>2, <3>1 DEF LastTold, more
  <2>3. ASSUME NEW k \in 1..Len(b), b[k].what = "status", str[b[k].rec].new = s,
               \A j \in (k + 1)..Len(b) : b[j].what # "status"
        PROVE  LastTold(Append(b, e), str, s)
    <3>1. k \in 1..Len(more) /\ more[k] = b[k] /\ \A j \in (k + 1)..Len(more) : more[j].what # "status"
      BY <2>1, <2>3
    <3> QED BY <2>3, <3>1 DEF LastTold, more
  <2> QED BY <1>1, <2>2, <2>3 DEF LastTold
<1> QED BY <1>1 DEF FineAt

\* A status that is told is the one as of its record.
LEMMA FineTold ==
    ASSUME NEW b \in Seq(Item), NEW str, NEW p \in Nat, p > 0, IsAgg(str[p])
    PROVE  FineAt(Append(b, Published(p, "status")), str, p)
<1> DEFINE e == Published(p, "status")
           more == Append(b, e)
<1>1. e \in Item /\ e.rec = p /\ e.what = "status"
  BY PublishedItem DEF PublishSteps
<1> HIDE DEF e
<1>2. Len(b) \in Nat /\ Len(more) = Len(b) + 1 /\ more[Len(b) + 1] = e
  BY <1>1, AppendOne
<1> HIDE DEF more
<1>3. LastTold(more, str, str[p].new)
  BY <1>1, <1>2 DEF LastTold
<1>4. StatusAsOf(str, p, str[p].new)
  BY DEF StatusAsOf
<1> QED BY <1>3, <1>4 DEF FineAt, more, e

\* Before a transition, everything is fine.
LEMMA FineBefore ==
    ASSUME NEW b, NEW str, NEW at \in 1..Len(str), IsAgg(str[at]), IsTransition(str[at]),
           NEW p \in Nat, p < at, Len(str) \in Nat
    PROVE  FineAt(b, str, p)
BY DEF FineAt

-----------------------------------------------------------------------------
(***************************************************************************)
(* The relay's steps preserve the invariant.                               *)
(***************************************************************************)

LEMMA InHandFacts ==
    ASSUME RelayInv, relay # Idle
    PROVE  /\ relay \in Busy /\ relay.at \in 1..Len(stream) /\ relay.at \in Nat
           /\ checkpoint \in Nat /\ checkpoint < relay.at
           /\ relay.at <= relay.end /\ relay.end <= Len(stream) /\ relay.end \in Nat
           /\ Passed = relay.at - 1 /\ Len(stream) \in Nat
           /\ bus \in Seq(Item) /\ faults \in Nat
<1>1. /\ relay \in Busy /\ Len(stream) \in Nat /\ checkpoint \in Nat
      /\ checkpoint < relay.at /\ relay.at <= relay.end /\ relay.end <= Len(stream)
      /\ bus \in Seq(Item) /\ faults \in Nat
  BY DEF RelayInv, RelayOK, StreamOK, Chained
<1>2. relay.at \in Nat /\ relay.end \in Nat
  BY <1>1 DEF Busy
<1> QED BY <1>1, <1>2 DEF Passed

LEMMA PassedType ==
    ASSUME RelayInv
    PROVE  Passed \in 0..Len(stream) /\ checkpoint \in 0..Len(stream) /\ Len(stream) \in Nat
<1>1. Len(stream) \in Nat /\ checkpoint \in 0..Len(stream)
  BY DEF RelayInv, RelayOK, StreamOK, Chained
<1> QED BY <1>1, InHandFacts DEF Passed

LEMMA BusStays ==
    ASSUME RelayInv, UNCHANGED <<stream, bus>>
    PROVE  /\ BusGrows /\ bus' \in Seq(Item) /\ \A k \in 1..Len(bus') : bus'[k].rec \in 1..Len(stream')
BY DEF RelayInv, RelayOK, BusGrows

LEMMA BusTakes ==
    ASSUME RelayInv, UNCHANGED stream, NEW i \in 1..Len(stream), NEW step \in PublishSteps,
           bus' = Append(bus, Published(i, step))
    PROVE  /\ BusGrows /\ bus' \in Seq(Item) /\ \A k \in 1..Len(bus') : bus'[k].rec \in 1..Len(stream')
           /\ Announced(i, step)'
<1> DEFINE e == Published(i, step)
<1>1. bus \in Seq(Item) /\ \A k \in 1..Len(bus) : bus[k].rec \in 1..Len(stream)
  BY DEF RelayInv, RelayOK
<1>2. i \in Nat
  BY PassedType
<1>3. e \in Item /\ e.rec = i
  BY <1>2, PublishedItem
<1>4. bus' = Append(bus, e)
  OBVIOUS
<1> HIDE DEF e
<1>5. /\ bus' \in Seq(Item) /\ Len(bus') = Len(bus) + 1 /\ Len(bus) \in Nat
      /\ \A k \in 1..Len(bus) : bus'[k] = bus[k]
      /\ bus'[Len(bus) + 1] = e
  BY <1>1, <1>3, <1>4, AppendOne
<1>6. Announced(i, step)'
  BY <1>5 DEF Announced, e, Published
<1>7. \A k \in 1..Len(bus') : bus'[k].rec \in 1..Len(stream)
  BY <1>1, <1>3, <1>5
<1> QED BY <1>5, <1>6, <1>7 DEF BusGrows

\* A step of the relay: what is settled stays settled.
LEMMA StepConcludes ==
    ASSUME RelayInv, UNCHANGED vars, knownFrom' = knownFrom, refusedLookups \subseteq refusedLookups',
           dead \subseteq dead', RelayOK', BusGrows,
           Passed' \in Int, \A i \in (Passed + 1)..Passed' : Done(i)',
           InHandOK', CountsOK', dead' = {} => Fine(checkpoint)' /\ Fine(Passed)'
    PROVE  RelayInv'
<1>1. IntakeInv'
  BY StutterKeeps DEF RelayInv
<1>2. StreamOK'
  BY DEF RelayInv, StreamOK, vars
<1>3. ASSUME NEW i \in 1..Passed' PROVE Done(i)'
  <2>1. CASE i \in 1..Passed
    <3>1. Done(i) /\ i \in Nat
      BY <2>1, PassedType DEF RelayInv
    <3>2. Announcements(i)' \subseteq Announcements(i)
      BY <3>1, AnnouncementsShrink DEF vars
    <3>3. bus \in Seq(Item) /\ bus' \in Seq(Item)
      BY DEF RelayInv, RelayOK
    <3> QED BY <3>1, <3>2, <3>3, DoneStays
  <2>2. CASE i \notin 1..Passed
    <3>1. i \in (Passed + 1)..Passed'
      BY <2>2, PassedType
    <3> QED BY <3>1
  <2> QED BY <2>1, <2>2
<1> QED BY <1>1, <1>2, <1>3 DEF RelayInv

BusFollows ==
    /\ BusGrows /\ bus' \in Seq(Item)
    /\ \A k \in 1..Len(bus') : bus'[k].rec \in 1..Len(stream')

\* The record in hand is settled.
LEMMA SettlesKeeps ==
    ASSUME RelayInv, relay # Idle, Settles, UNCHANGED vars,
           UNCHANGED <<dead, faults, knownFrom, refusedLookups>>, BusFollows,
           NEW i \in Nat, i = relay.at, Done(i)', CountsOK',
           dead = {} => FineAt(bus', stream, checkpoint) /\ FineAt(bus', stream, i)
    PROVE  RelayInv'
<1>1. StreamOK /\ RelayOK
  BY DEF RelayInv
<1>2. stream' = stream
  BY DEF vars
<1>3. /\ checkpoint' \in {checkpoint, i} /\ i \in 1..Len(stream) /\ Passed' = i
      /\ \/ relay' = Idle /\ checkpoint' = i
         \/ /\ relay' # Idle /\ relay' \in Busy /\ relay'.step = "classify"
            /\ checkpoint' < relay'.at /\ relay'.at <= relay'.end /\ relay'.end <= Len(stream)
  BY <1>1, SettlesMoves
<1>4. /\ checkpoint \in Nat /\ checkpoint < i /\ Passed = i - 1 /\ Len(stream) \in Nat
      /\ faults \in Nat /\ knownFrom \in Nat
  BY <1>1, InHandFacts DEF RelayOK
<1>5. RelayOK'
  BY <1>2, <1>3, <1>4 DEF RelayOK, BusFollows
<1>6. \A j \in (Passed + 1)..Passed' : Done(j)'
  <2>1. \A j \in (Passed + 1)..Passed' : j = i
    BY <1>3, <1>4
  <2> QED BY <2>1
<1>7. InHandOK'
  <2>1. relay' # Idle => relay'.step = "classify"
    BY <1>3
  <2>2. Idle' = Idle
    BY DEF Idle
  <2> QED BY <2>1, <2>2 DEF InHandOK, InHandAt
<1>8. dead' = {} => Fine(checkpoint)' /\ Fine(Passed)'
  BY <1>2, <1>3 DEF Fine
<1>9. Passed' \in Int /\ refusedLookups \subseteq refusedLookups' /\ dead \subseteq dead'
         /\ knownFrom' = knownFrom /\ BusGrows
  BY <1>3 DEF BusFollows
<1> QED BY <1>5, <1>6, <1>7, <1>8, <1>9, StepConcludes

\* A failure is reported and the invocation ends.
LEMMA RetriesKeeps ==
    ASSUME RelayInv, relay # Idle, Retries, UNCHANGED vars, UNCHANGED <<dead, knownFrom, refusedLookups>>,
           faults' \in Nat, BusFollows, CountsOK', dead = {} => FineAt(bus', stream, Passed)
    PROVE  RelayInv'
<1>1. StreamOK /\ RelayOK
  BY DEF RelayInv
<1>2. stream' = stream
  BY DEF vars
<1>3. relay' = Idle /\ checkpoint' = Passed /\ Passed' = Passed /\ Passed \in 0..(Len(stream) - 1)
  BY <1>1, RetriesMoves
<1>4. Len(stream) \in Nat /\ knownFrom \in Nat
  BY <1>1, PassedType DEF RelayOK
<1>5. RelayOK'
  BY <1>2, <1>3, <1>4 DEF RelayOK, BusFollows
<1>6. \A j \in (Passed + 1)..Passed' : Done(j)'
  BY <1>3
<1>7. InHandOK'
  BY <1>3 DEF InHandOK
<1>8. dead' = {} => Fine(checkpoint)' /\ Fine(Passed)'
  BY <1>2, <1>3 DEF Fine
<1>9. Passed' \in Int /\ refusedLookups \subseteq refusedLookups' /\ dead \subseteq dead'
         /\ knownFrom' = knownFrom /\ BusGrows
  BY <1>3 DEF BusFollows
<1> QED BY <1>5, <1>6, <1>7, <1>8, <1>9, StepConcludes

\* The record in hand goes on to another step.
LEMMA StepsKeep ==
    ASSUME RelayInv, relay # Idle, NEW step, Steps(step), UNCHANGED vars,
           UNCHANGED <<dead, faults, knownFrom>>, refusedLookups \subseteq refusedLookups', BusFollows,
           NEW i \in Nat, i = relay.at, InHandAt(i)', CountsOK',
           dead = {} => FineAt(bus', stream, checkpoint) /\ FineAt(bus', stream, Passed)
    PROVE  RelayInv'
<1>1. StreamOK /\ RelayOK
  BY DEF RelayInv
<1>2. stream' = stream
  BY DEF vars
<1>3. /\ checkpoint' = checkpoint /\ relay' # Idle /\ relay' \in Busy
      /\ relay'.at = i /\ relay'.end = relay.end
  BY DEF Steps
<1>4. Passed' = Passed
  BY <1>1, StepsMove
<1>5. /\ checkpoint \in Nat /\ checkpoint < i /\ i <= relay.end /\ relay.end <= Len(stream)
      /\ Len(stream) \in Nat /\ i \in 1..Len(stream) /\ faults \in Nat /\ knownFrom \in Nat
      /\ Passed = i - 1
  BY <1>1, InHandFacts DEF RelayOK
<1>6. RelayOK'
  BY <1>2, <1>3, <1>5 DEF RelayOK, BusFollows
<1>7. \A j \in (Passed + 1)..Passed' : Done(j)'
  BY <1>4, <1>5
<1>8. InHandOK'
  BY <1>3 DEF InHandOK
<1>9. dead' = {} => Fine(checkpoint)' /\ Fine(Passed)'
  BY <1>2, <1>3, <1>4 DEF Fine
<1>10. Passed' \in Int /\ dead \subseteq dead' /\ knownFrom' = knownFrom /\ BusGrows
  BY <1>4, <1>5 DEF BusFollows
<1> QED BY <1>6, <1>7, <1>8, <1>9, <1>10, StepConcludes

LEMMA AheadShrinks ==
    ASSUME RelayInv, Passed' \in Int, Passed <= Passed', relay.step # "mailbox" \/ relay.at <= Passed'
    PROVE  \A i \in Nat, what \in PublishSteps : Ahead(i, what)' => Ahead(i, what)
<1>1. Passed \in Int
  BY PassedType
<1>2. ASSUME NEW i \in Nat, NEW what \in PublishSteps, Ahead(i, what)' PROVE Ahead(i, what)
  <2>1. i > Passed'
    BY <1>2 DEF Ahead
  <2>2. i > Passed
    BY <1>1, <2>1
  <2>3. CASE relay.step # "mailbox"
    BY <2>2, <2>3 DEF Ahead
  <2>4. CASE relay.at <= Passed' /\ relay.step = "mailbox"
    <3>1. relay # Idle
      BY <2>4 DEF Idle
    <3>2. relay.at \in Nat
      BY <3>1, InHandFacts
    <3>3. i # relay.at
      BY <2>1, <2>4, <3>2
    <3> QED BY <2>2, <3>3 DEF Ahead
  <2> QED BY <2>3, <2>4
<1> QED BY <1>2

LEMMA InvokeKeeps ==
    ASSUME RelayInv, Invoke, UNCHANGED vars
    PROVE  RelayInv'
<1>1. PICK end \in (checkpoint + 1)..Len(stream) :
         relay' = [Idle EXCEPT !.at = checkpoint + 1, !.end = end, !.step = "classify"]
  BY DEF Invoke
<1>2. /\ relay = Idle /\ Passed = checkpoint
      /\ UNCHANGED <<stream, checkpoint, bus, dead, faults, knownFrom, refusedLookups>>
  BY DEF Invoke, vars, Passed
<1>3. checkpoint \in Nat /\ Len(stream) \in Nat /\ checkpoint <= Len(stream)
  BY PassedType
<1>4. PICK at \in Nat : at = checkpoint + 1
  BY <1>3
<1> DEFINE q == [Idle EXCEPT !.at = at, !.end = end, !.step = "classify"]
<1>5. q \in Busy /\ q.at = at /\ q.end = end /\ q.step = "classify"
  <2>1. end \in Nat
    BY <1>3
  <2> QED BY <2>1 DEF Busy, Idle
<1>6. relay' = q
  BY <1>1, <1>4
<1> HIDE DEF q
<1>7. q # Idle /\ relay' # Idle
  BY <1>5, <1>6 DEF Idle
<1>8. Passed' = Passed
  BY <1>2, <1>3, <1>4, <1>5, <1>6, <1>7 DEF Passed
<1>9. BusFollows
  BY <1>2, BusStays DEF BusFollows
<1>10. RelayOK'
  <2>1. RelayOK
    BY DEF RelayInv
  <2> QED BY <1>2, <1>3, <1>4, <1>5, <1>6, <1>9, <2>1 DEF RelayOK, BusFollows
<1>11. InHandOK'
  BY <1>5, <1>6 DEF InHandOK, InHandAt
<1>12. CountsOK'
  <2>1. relay.step # "mailbox" /\ Passed' \in Int /\ Passed <= Passed'
    BY <1>2, <1>3, <1>8 DEF Idle
  <2> QED BY <1>2, <2>1, AheadShrinks, QuietCounts DEF RelayInv
<1>13. dead' = {} => Fine(checkpoint)' /\ Fine(Passed)'
  BY <1>2, <1>8 DEF RelayInv, Fine
<1>14. /\ refusedLookups \subseteq refusedLookups' /\ dead \subseteq dead'
       /\ knownFrom' = knownFrom /\ BusGrows /\ Passed' \in Int
       /\ \A i \in (Passed + 1)..Passed' : Done(i)'
  BY <1>2, <1>3, <1>8, <1>9 DEF BusFollows
<1> QED BY <1>10, <1>11, <1>12, <1>13, <1>14, StepConcludes

\* A step without a publish and without a fault.
LEMMA QuietStep ==
    ASSUME RelayInv, relay # Idle, NEW step \in {"lookup", "event", "status"}, Steps(step),
           relay.step # "mailbox", UNCHANGED vars,
           UNCHANGED <<bus, dead, faults, knownFrom>>, refusedLookups \subseteq refusedLookups',
           NEW i \in Nat, i = relay.at, InHandAt(i)'
    PROVE  RelayInv'
<1>1. RelayOK /\ CountsOK
  BY DEF RelayInv
<1>2. Passed' = Passed
  BY <1>1, StepsMove
<1>3. CountsOK'
  <2>1. Passed' \in Int /\ Passed <= Passed'
    BY <1>2, PassedType
  <2> QED BY <1>1, <2>1, AheadShrinks, QuietCounts
<1>4. BusFollows
  BY BusStays DEF BusFollows, vars
<1>5. dead = {} => FineAt(bus', stream, checkpoint) /\ FineAt(bus', stream, Passed)
  BY DEF RelayInv, Fine
<1>6. UNCHANGED <<dead, faults, knownFrom>>
  OBVIOUS
<1> QED BY <1>3, <1>4, <1>5, <1>6, StepsKeep

LEMMA ClassifyKeeps ==
    ASSUME RelayInv, Classify, UNCHANGED vars
    PROVE  RelayInv'
<1>1. relay.step = "classify" /\ UNCHANGED <<bus, dead, faults, knownFrom, refusedLookups>>
  BY DEF Classify
<1>2. relay # Idle
  BY <1>1 DEF Idle
<1>3. RelayOK /\ stream' = stream
  BY DEF RelayInv, vars
<1>4. PICK i \in Nat : i = relay.at
  BY <1>2, InHandFacts
<1>5. CASE IsAgg(stream[i]) /\ IsTransition(stream[i])
  <2>1. relay' = [relay EXCEPT !.step = "status"] /\ UNCHANGED checkpoint
    BY <1>4, <1>5 DEF Classify, Record, IsAgg
  <2>2. Steps("status")
    BY <1>2, <1>3, <2>1, GoesToStep
  <2>3. InHandAt(i)'
    BY <1>3, <1>5, <2>2 DEF InHandAt, Steps
  <2> QED BY <1>1, <1>2, <1>4, <2>2, <2>3, QuietStep
<1>6. CASE IsAgg(stream[i]) /\ ~IsTransition(stream[i])
  <2>1. Settles
    BY <1>4, <1>6 DEF Classify, Record, IsAgg
  <2>2. Passed' = i /\ Passed = i - 1 /\ i \in 1..Len(stream)
    BY <1>2, <1>3, <1>4, <2>1, SettlesMoves, InHandFacts DEF RelayInv
  <2>3. Done(i)'
    <3>1. Announcements(i) = {}
      BY <1>6, AnnouncementsAre
    <3>2. Announcements(i)' \subseteq Announcements(i)
      BY <1>1, <1>3, AnnouncementsShrink DEF vars
    <3> QED BY <3>1, <3>2 DEF Done
  <2>4. CountsOK'
    <3>1. Passed' \in Int /\ Passed <= Passed'
      BY <2>2
    <3> QED BY <1>1, <3>1, AheadShrinks, QuietCounts DEF RelayInv
  <2>5. BusFollows
    BY <1>1, <1>3, BusStays DEF BusFollows
  <2>6. dead = {} => FineAt(bus', stream, checkpoint) /\ FineAt(bus', stream, i)
    <3>1. PICK p \in Nat : p = Passed /\ p + 1 = i /\ p + 1 <= Len(stream)
      BY <2>2
    <3>2. Chained(stream, status)
      BY DEF RelayInv, StreamOK
    <3>3. ~(IsAgg(stream[p + 1]) /\ IsTransition(stream[p + 1]))
      BY <1>6, <3>1
    <3>4. dead = {} => FineAt(bus, stream, checkpoint) /\ FineAt(bus, stream, p)
      BY <3>1 DEF RelayInv, Fine
    <3>5. dead = {} => FineAt(bus, stream, p + 1)
      BY <3>1, <3>2, <3>3, <3>4, FinePasses
    <3> QED BY <1>1, <3>1, <3>4, <3>5
  <2> QED BY <1>1, <1>2, <1>4, <2>1, <2>3, <2>4, <2>5, <2>6, SettlesKeeps
<1>7. CASE ~IsAgg(stream[i]) /\ Kind[stream[i].note] \in DOMAIN MailboxLabel
  <2>1. relay' = [relay EXCEPT !.step = "lookup"] /\ UNCHANGED checkpoint
    BY <1>4, <1>7 DEF Classify, Record, IsAgg
  <2>2. Steps("lookup")
    BY <1>2, <1>3, <2>1, GoesToStep
  <2>3. InHandAt(i)'
    BY <1>3, <1>7, <2>2 DEF InHandAt, Steps
  <2> QED BY <1>1, <1>2, <1>4, <2>2, <2>3, QuietStep
<1>8. CASE ~IsAgg(stream[i]) /\ Kind[stream[i].note] \notin DOMAIN MailboxLabel
  <2>1. relay' = [relay EXCEPT !.step = "event"] /\ UNCHANGED checkpoint
    BY <1>4, <1>8 DEF Classify, Record, IsAgg
  <2>2. Steps("event")
    BY <1>2, <1>3, <2>1, GoesToStep
  <2>3. "mailbox" \notin Announcements(i)
    BY <1>8, AnnouncementsAre, Zenon
  <2>4. Announcements(i)' \subseteq Announcements(i)
    BY <1>1, <1>3, AnnouncementsShrink DEF vars
  <2>5. InHandAt(i)'
    BY <1>3, <1>8, <2>2, <2>3, <2>4 DEF InHandAt, Steps
  <2> QED BY <1>1, <1>2, <1>4, <2>2, <2>5, QuietStep
<1> QED BY <1>5, <1>6, <1>7, <1>8

LEMMA LookupRefusedKeeps ==
    ASSUME RelayInv, LookupRefused, UNCHANGED vars
    PROVE  RelayInv'
<1>1. /\ relay.step = "lookup" /\ UNCHANGED <<checkpoint, bus, dead, faults, knownFrom>>
      /\ relay' = [relay EXCEPT !.step = "event"]
      /\ refusedLookups' = refusedLookups \cup {relay.at}
  BY DEF LookupRefused
<1>2. relay # Idle
  BY <1>1 DEF Idle
<1>3. RelayOK /\ stream' = stream
  BY DEF RelayInv, vars
<1>4. PICK i \in Nat : i = relay.at
  BY <1>2, InHandFacts
<1>5. Steps("event")
  BY <1>1, <1>2, <1>3, GoesToStep
<1>6. ~IsAgg(stream'[i]) /\ i \in refusedLookups'
  BY <1>1, <1>2, <1>3, <1>4 DEF RelayInv, InHandOK, InHandAt
<1>7. "mailbox" \notin Announcements(i)'
  <2>1. Announcements(i)' = {"event"} \cup {}
    BY <1>6, Zenon DEF Announcements, IsAgg
  <2> QED BY <2>1
<1>8. InHandAt(i)'
  BY <1>5, <1>6, <1>7 DEF InHandAt, Steps
<1> QED BY <1>1, <1>2, <1>4, <1>5, <1>8, QuietStep

LEMMA LooksUpKeeps ==
    ASSUME RelayInv, LooksUp, UNCHANGED vars
    PROVE  RelayInv'
<1>1. /\ relay.step = "lookup" /\ UNCHANGED <<checkpoint, bus, dead, faults, knownFrom, refusedLookups>>
      /\ relay' = [relay EXCEPT !.step = "event", !.mailbox = marked]
  BY DEF LooksUp
<1>2. relay # Idle
  BY <1>1 DEF Idle
<1>3. RelayOK /\ stream' = stream /\ marked \in BOOLEAN /\ relay \in Busy
  BY <1>2 DEF RelayInv, vars, IntakeInv, TypeOK, RelayOK
<1>4. PICK i \in Nat : i = relay.at
  BY <1>2, InHandFacts
<1> DEFINE q == [relay EXCEPT !.step = "event", !.mailbox = marked]
<1>5. q \in Busy /\ q.at = relay.at /\ q.end = relay.end /\ q.step = "event" /\ q.mailbox = marked
  BY <1>3, Looked
<1>6. relay' = q
  BY <1>1
<1> HIDE DEF q
<1>7. q # Idle
  BY <1>5 DEF Idle
<1>8. Steps("event")
  BY <1>1, <1>5, <1>6, <1>7 DEF Steps
<1>9. ~IsAgg(stream[i])
  BY <1>1, <1>2, <1>4 DEF RelayInv, InHandOK, InHandAt
<1>10. Announcements(i)' \subseteq Announcements(i)
  BY <1>1, <1>3, AnnouncementsShrink DEF vars
<1>11. relay'.mailbox \/ "mailbox" \notin Announcements(i)'
  <2>1. CASE marked
    BY <1>5, <1>6, <2>1
  <2>2. CASE ~marked
    BY <1>9, <1>10, <2>2, AnnouncementsAre, Zenon
  <2> QED BY <2>1, <2>2
<1>12. relay'.step = "event"
  BY <1>5, <1>6
<1>13. InHandAt(i)'
  BY <1>3, <1>9, <1>11, <1>12 DEF InHandAt
<1> QED BY <1>1, <1>2, <1>4, <1>8, <1>13, QuietStep

\* What is published now was still ahead.
LEMMA PublishedWasAhead ==
    ASSUME RelayInv, relay # Idle, NEW i \in Nat, i = relay.at, NEW step \in PublishSteps, step = relay.step
    PROVE  Ahead(i, step)
<1>1. i > Passed
  BY InHandFacts
<1> QED BY <1>1 DEF Ahead

LEMMA PublishesKeeps ==
    ASSUME RelayInv, Publishes, UNCHANGED vars
    PROVE  RelayInv'
<1>1. relay.step \in PublishSteps /\ UNCHANGED <<dead, faults, knownFrom, refusedLookups>>
  BY DEF Publishes
<1>2. relay # Idle
  BY <1>1 DEF Idle, PublishSteps
<1>3. RelayOK /\ StreamOK /\ CountsOK /\ InHandOK /\ stream' = stream
  BY DEF RelayInv, vars
<1>4. PICK i \in Nat : i = relay.at
  BY <1>2, InHandFacts
<1>5. PICK step \in PublishSteps : step = relay.step
  BY <1>1
<1> DEFINE e == Published(i, step)
<1>6. bus' = Append(bus, Published(i, step))
  BY <1>4, <1>5 DEF Publishes
<1>7. /\ i \in 1..Len(stream) /\ Len(stream) \in Nat /\ Passed = i - 1 /\ bus \in Seq(Item)
      /\ faults \in Nat /\ checkpoint \in Nat /\ checkpoint < i
  BY <1>2, <1>4, InHandFacts
<1>8. BusFollows /\ Announced(i, step)'
  BY <1>3, <1>6, <1>7, BusTakes DEF BusFollows
<1>9. Ahead(i, step)
  BY <1>2, <1>4, <1>5, PublishedWasAhead
<1>10. InHandAt(i)
  BY <1>2, <1>3, <1>4 DEF InHandOK
<1>11. Announcements(i)' \subseteq Announcements(i)
  BY <1>1, <1>3, AnnouncementsShrink DEF vars
<1>12. e \in Item /\ e.what = step
  BY PublishedItem
<1>13. step # "status" => ~IsAgg(stream[i])
  BY <1>5, <1>10 DEF InHandAt, PublishSteps
<1>14. dead = {} /\ step # "status" => FineAt(bus', stream, checkpoint) /\ FineAt(bus', stream, Passed)
  <2>1. dead = {} => FineAt(bus, stream, checkpoint) /\ FineAt(bus, stream, Passed)
    BY DEF RelayInv, Fine
  <2> HIDE DEF e
  <2>2. bus' = Append(bus, e)
    BY <1>6 DEF e
  <2> QED BY <1>7, <1>12, <2>1, <2>2, FineAside
<1>15. CASE step = "event" /\ relay.mailbox
  <2>1. relay' = [relay EXCEPT !.step = "mailbox"] /\ UNCHANGED checkpoint
    <3>1. relay.step = "event"
      BY <1>5, <1>15
    <3> QED BY <1>15, <3>1, Zenon DEF Publishes
  <2>2. Steps("mailbox")
    BY <1>2, <1>3, <2>1, GoesToStep
  <2>3. Passed' = Passed
    BY <1>2, <1>3, <2>2, StepsMove
  <2>4. relay'.step = "mailbox" /\ relay'.at = i
    BY <1>4, <2>2 DEF Steps
  <2>5. InHandAt(i)'
    BY <1>3, <1>8, <1>13, <1>15, <2>4 DEF InHandAt
  <2>6. ~Ahead(i, step)'
    BY <1>15, <2>4 DEF Ahead
  <2>7. \A j \in Nat, what \in PublishSteps : Ahead(j, what)' => Ahead(j, what)
    <3>1. Passed' \in Int /\ Passed <= Passed' /\ relay.step # "mailbox"
      BY <1>5, <1>7, <1>15, <2>3
    <3> QED BY <3>1, AheadShrinks
  <2>8. CountsOK'
    BY <1>1, <1>3, <1>6, <1>7, <1>9, <2>6, <2>7, PublishCounts
  <2>9. step # "status"
    BY <1>15
  <2>10. UNCHANGED <<dead, faults, knownFrom>> /\ refusedLookups \subseteq refusedLookups'
    BY <1>1
  <2> QED BY <1>2, <1>4, <1>8, <1>14, <2>2, <2>5, <2>8, <2>9, <2>10, StepsKeep
<1>16. CASE ~(step = "event" /\ relay.mailbox)
  <2>1. Settles
    <3>1. ~(relay.step = "event" /\ relay.mailbox)
      BY <1>5, <1>16
    <3> QED BY <3>1, Zenon DEF Publishes
  <2>2. Passed' = i
    BY <1>2, <1>3, <1>4, <2>1, SettlesMoves
  <2>3. ~Ahead(i, step)'
    <3>1. ~(i > Passed')
      BY <2>2
    <3> QED BY <3>1 DEF Ahead
  <2>4. \A j \in Nat, what \in PublishSteps : Ahead(j, what)' => Ahead(j, what)
    <3>1. Passed' \in Int /\ Passed <= Passed' /\ relay.at <= Passed'
      BY <1>4, <1>7, <2>2
    <3> QED BY <3>1, AheadShrinks
  <2>5. CountsOK'
    BY <1>1, <1>3, <1>6, <1>7, <1>9, <2>3, <2>4, PublishCounts
  <2>6. Done(i)'
    <3>1. CASE step = "status"
      <4>1. Announcements(i) = {"status"}
        BY <1>5, <1>10, <3>1, AnnouncementsAre DEF InHandAt
      <4> QED BY <1>8, <1>11, <3>1, <4>1 DEF Done
    <3>2. CASE step = "event"
      <4>1. ~relay.mailbox /\ relay.step = "event"
        BY <1>5, <1>16, <3>2
      <4>2. "mailbox" \notin Announcements(i)
        BY <1>10, <4>1, Zenon DEF InHandAt
      <4>3. Announcements(i) \subseteq {"event"}
        BY <1>13, <3>2, <4>2, AnnouncementsAre
      <4> QED BY <1>8, <1>11, <3>2, <4>3 DEF Done
    <3>3. CASE step = "mailbox"
      <4>1. Announced(i, "event")
        BY <1>5, <1>10, <3>3 DEF InHandAt
      <4>2. Announced(i, "event")'
        BY <1>7, <1>8, <4>1, AnnouncedStays DEF BusFollows
      <4>3. Announcements(i) \subseteq {"event", "mailbox"}
        BY <1>13, <3>3, AnnouncementsAre
      <4> QED BY <1>8, <1>11, <3>3, <4>2, <4>3 DEF Done
    <3> QED BY <3>1, <3>2, <3>3 DEF PublishSteps
  <2>7. dead = {} => FineAt(bus', stream, checkpoint) /\ FineAt(bus', stream, i)
    <3>1. CASE step = "status"
      <4>1. IsAgg(stream[i]) /\ IsTransition(stream[i])
        BY <1>5, <1>10, <3>1 DEF InHandAt
      <4>2. FineAt(bus', stream, checkpoint)
        BY <1>7, <4>1, FineBefore
      <4>3. i > 0 /\ bus' = Append(bus, Published(i, "status"))
        BY <1>6, <1>7, <3>1
      <4>4. FineAt(bus', stream, i)
        BY <1>7, <4>1, <4>3, FineTold
      <4> QED BY <4>2, <4>4
    <3>2. CASE step # "status"
      <4>1. PICK p \in Nat : p = Passed /\ p + 1 = i /\ p + 1 <= Len(stream)
        BY <1>7
      <4>2. ~(IsAgg(stream[p + 1]) /\ IsTransition(stream[p + 1]))
        BY <1>13, <3>2, <4>1
      <4>3. Chained(stream, status)
        BY <1>3 DEF StreamOK
      <4>4. dead = {} => FineAt(bus', stream, p)
        BY <1>14, <3>2, <4>1
      <4>5. dead = {} => FineAt(bus', stream, p + 1)
        BY <4>1, <4>2, <4>3, <4>4, FinePasses
      <4> QED BY <1>14, <3>2, <4>1, <4>5
    <3> QED BY <3>1, <3>2
  <2> QED BY <1>1, <1>2, <1>4, <1>8, <2>1, <2>5, <2>6, <2>7, SettlesKeeps
<1> QED BY <1>15, <1>16

LEMMA RecordFailsKeeps ==
    ASSUME RelayInv, RecordFails, UNCHANGED vars
    PROVE  RelayInv'
<1>1. /\ relay.step \in {"lookup", "event", "mailbox", "status"} /\ Retries
      /\ UNCHANGED <<bus, dead, knownFrom, refusedLookups>>
      /\ relay.step = "mailbox" => faults' = faults + 1
      /\ relay.step # "mailbox" => faults' = faults + 0
  BY DEF RecordFails, PublishSteps
<1>2. relay # Idle
  BY <1>1 DEF Idle
<1>3. RelayOK /\ StreamOK /\ CountsOK /\ stream' = stream
  BY DEF RelayInv, vars
<1>4. bus \in Seq(Item) /\ faults \in Nat
  BY <1>2, InHandFacts
<1>5. BusFollows
  BY <1>1, <1>3, BusStays DEF BusFollows
<1>6. Passed' = Passed
  BY <1>1, <1>2, <1>3, RetriesMoves
<1>7. CountsOK' /\ faults' \in Nat
  <2>1. CASE relay.step = "mailbox"
    BY <1>1, <1>3, <1>4, <2>1, FaultCounts
  <2>2. CASE relay.step # "mailbox"
    <3>1. Passed' \in Int /\ Passed <= Passed'
      BY <1>6, PassedType
    <3>2. faults' = faults
      BY <1>1, <1>4, <2>2
    <3> QED BY <1>1, <1>3, <1>4, <2>2, <3>1, <3>2, AheadShrinks, QuietCounts
  <2> QED BY <2>1, <2>2
<1>8. dead = {} => FineAt(bus', stream, Passed)
  BY <1>1 DEF RelayInv, Fine
<1> QED BY <1>1, <1>2, <1>5, <1>7, <1>8, RetriesKeeps

LEMMA PublishAnswerLostKeeps ==
    ASSUME RelayInv, PublishAnswerLost, UNCHANGED vars
    PROVE  RelayInv'
<1>1. /\ relay.step \in PublishSteps /\ Retries /\ UNCHANGED <<dead, knownFrom, refusedLookups>>
      /\ faults' = faults + 1
  BY DEF PublishAnswerLost
<1>2. relay # Idle
  BY <1>1 DEF Idle, PublishSteps
<1>3. CountsOK /\ InHandOK /\ stream' = stream
  BY DEF RelayInv, vars
<1>4. PICK i \in Nat : i = relay.at
  BY <1>2, InHandFacts
<1>5. PICK step \in PublishSteps : step = relay.step
  BY <1>1
<1>6. bus' = Append(bus, Published(i, step))
  BY <1>4, <1>5 DEF PublishAnswerLost
<1>7. /\ i \in 1..Len(stream) /\ Len(stream) \in Nat /\ Passed = i - 1 /\ Passed \in Nat /\ Passed < i
      /\ bus \in Seq(Item) /\ faults \in Nat
  BY <1>2, <1>4, InHandFacts
<1>8. BusFollows
  BY <1>3, <1>6, <1>7, BusTakes DEF BusFollows
<1>9. CountsOK' /\ faults' \in Nat
  <2>1. Ahead(i, step)
    BY <1>2, <1>4, <1>5, PublishedWasAhead
  <2> QED BY <1>1, <1>3, <1>6, <1>7, <2>1, PublishCounts
<1>10. dead = {} => FineAt(bus', stream, Passed)
  <2>1. CASE step = "status"
    <3>1. IsAgg(stream[i]) /\ IsTransition(stream[i])
      BY <1>2, <1>3, <1>4, <1>5, <2>1 DEF InHandOK, InHandAt
    <3> QED BY <1>7, <3>1, FineBefore
  <2>2. CASE step # "status"
    <3> DEFINE e == Published(i, step)
    <3>1. e \in Item /\ e.what = step /\ bus' = Append(bus, e)
      BY <1>6, PublishedItem
    <3> HIDE DEF e
    <3>2. dead = {} => FineAt(bus, stream, Passed)
      BY DEF RelayInv, Fine
    <3> QED BY <1>7, <2>2, <3>1, <3>2, FineAside
  <2> QED BY <2>1, <2>2
<1> QED BY <1>1, <1>2, <1>8, <1>9, <1>10, RetriesKeeps

LEMMA RelayDiesKeeps ==
    ASSUME RelayInv, RelayDies, UNCHANGED vars
    PROVE  RelayInv'
<1>1. /\ relay # Idle /\ relay' = Idle /\ faults' = faults + 1
      /\ UNCHANGED <<stream, checkpoint, bus, dead, knownFrom, refusedLookups>>
  BY DEF RelayDies, vars
<1>2. RelayOK /\ CountsOK /\ bus \in Seq(Item) /\ faults \in Nat
  BY DEF RelayInv, RelayOK
<1>3. checkpoint \in Nat /\ Passed' = checkpoint /\ checkpoint <= Passed /\ Passed \in Nat
  BY <1>1, InHandFacts DEF Passed
<1>4. BusFollows
  BY <1>1, BusStays DEF BusFollows
<1>5. RelayOK'
  BY <1>1, <1>2, <1>4 DEF RelayOK, BusFollows
<1>6. CountsOK'
  BY <1>1, <1>2, FaultCounts
<1>7. InHandOK'
  BY <1>1 DEF InHandOK
<1>8. dead' = {} => Fine(checkpoint)' /\ Fine(Passed)'
  BY <1>1, <1>3 DEF RelayInv, Fine
<1>9. /\ refusedLookups \subseteq refusedLookups' /\ dead \subseteq dead'
      /\ knownFrom' = knownFrom /\ BusGrows /\ Passed' \in Int
      /\ \A i \in (Passed + 1)..Passed' : Done(i)'
  BY <1>1, <1>3, <1>4 DEF BusFollows
<1> QED BY <1>5, <1>6, <1>7, <1>8, <1>9, StepConcludes

LEMMA DiesHavingPublishedKeeps ==
    ASSUME RelayInv, DiesHavingPublished, UNCHANGED vars
    PROVE  RelayInv'
<1>1. /\ relay.step \in PublishSteps /\ relay' = Idle /\ faults' = faults + 1
      /\ UNCHANGED <<stream, checkpoint, dead, knownFrom, refusedLookups>>
  BY DEF DiesHavingPublished, vars
<1>2. relay # Idle
  BY <1>1 DEF Idle, PublishSteps
<1>3. RelayOK /\ CountsOK /\ InHandOK
  BY DEF RelayInv
<1>4. PICK i \in Nat : i = relay.at
  BY <1>2, InHandFacts
<1>5. PICK step \in PublishSteps : step = relay.step
  BY <1>1
<1>6. bus' = Append(bus, Published(i, step))
  BY <1>4, <1>5 DEF DiesHavingPublished
<1>7. /\ i \in 1..Len(stream) /\ Len(stream) \in Nat /\ checkpoint \in Nat /\ checkpoint < i
      /\ checkpoint <= Passed /\ Passed \in Nat /\ bus \in Seq(Item) /\ faults \in Nat
  BY <1>2, <1>4, InHandFacts
<1>8. Passed' = checkpoint
  BY <1>1 DEF Passed
<1>9. BusFollows
  BY <1>1, <1>6, <1>7, BusTakes DEF BusFollows
<1>10. RelayOK'
  BY <1>1, <1>3, <1>7, <1>9 DEF RelayOK, BusFollows
<1>11. CountsOK'
  <2>1. Ahead(i, step)
    BY <1>2, <1>4, <1>5, PublishedWasAhead
  <2> QED BY <1>1, <1>3, <1>6, <1>7, <2>1, PublishCounts
<1>12. InHandOK'
  BY <1>1 DEF InHandOK
<1>13. dead = {} => FineAt(bus', stream, checkpoint)
  <2>1. CASE step = "status"
    <3>1. IsAgg(stream[i]) /\ IsTransition(stream[i])
      BY <1>2, <1>3, <1>4, <1>5, <2>1 DEF InHandOK, InHandAt
    <3> QED BY <1>7, <3>1, FineBefore
  <2>2. CASE step # "status"
    <3> DEFINE e == Published(i, step)
    <3>1. e \in Item /\ e.what = step /\ bus' = Append(bus, e)
      BY <1>6, PublishedItem
    <3> HIDE DEF e
    <3>2. dead = {} => FineAt(bus, stream, checkpoint)
      BY DEF RelayInv, Fine
    <3> QED BY <1>7, <2>2, <3>1, <3>2, FineAside
  <2> QED BY <2>1, <2>2
<1>14. dead' = {} => Fine(checkpoint)' /\ Fine(Passed)'
  BY <1>1, <1>8, <1>13 DEF Fine
<1>15. /\ refusedLookups \subseteq refusedLookups' /\ dead \subseteq dead'
       /\ knownFrom' = knownFrom /\ BusGrows /\ Passed' \in Int
       /\ \A j \in (Passed + 1)..Passed' : Done(j)'
  BY <1>1, <1>7, <1>8, <1>9 DEF BusFollows
<1> QED BY <1>10, <1>11, <1>12, <1>14, <1>15, StepConcludes

LEMMA DeadLettersKeeps ==
    ASSUME RelayInv, DeadLetters, UNCHANGED vars
    PROVE  RelayInv'
<1>1. PICK end \in 1..Len(stream) :
         /\ end \in (checkpoint + 1)..Len(stream)
         /\ dead' = dead \cup (checkpoint + 1)..end
         /\ checkpoint' = end
  BY DEF DeadLetters, GivesUpOn
<1>2. /\ relay = Idle /\ relay' = Idle
      /\ UNCHANGED <<stream, bus, faults, knownFrom, refusedLookups>>
  BY DEF DeadLetters, vars
<1>3. RelayOK /\ CountsOK
  BY DEF RelayInv
<1>4. checkpoint \in Nat /\ Len(stream) \in Nat /\ Passed = checkpoint /\ Passed' = end
  BY <1>1, <1>2, PassedType DEF Passed
<1>5. BusFollows
  BY <1>2, BusStays DEF BusFollows
<1>6. RelayOK'
  BY <1>1, <1>2, <1>3, <1>4, <1>5 DEF RelayOK, BusFollows
<1>7. CountsOK'
  <2>1. Passed' \in Int /\ Passed <= Passed' /\ relay.step # "mailbox"
    BY <1>1, <1>2, <1>4 DEF Idle
  <2> QED BY <1>2, <1>3, <2>1, AheadShrinks, QuietCounts
<1>8. InHandOK'
  BY <1>2 DEF InHandOK
<1>9. dead' # {}
  <2>1. end \in (checkpoint + 1)..end
    BY <1>1, <1>4
  <2> QED BY <1>1, <2>1
<1>10. \A i \in (Passed + 1)..Passed' : Done(i)'
  BY <1>1, <1>4 DEF Done
<1>11. /\ refusedLookups \subseteq refusedLookups' /\ dead \subseteq dead'
       /\ knownFrom' = knownFrom /\ BusGrows /\ Passed' \in Int
  BY <1>1, <1>2, <1>4, <1>5 DEF BusFollows
<1> QED BY <1>6, <1>7, <1>8, <1>9, <1>10, <1>11, StepConcludes

-----------------------------------------------------------------------------
(***************************************************************************)
(* The request path beside the relay, and the theorems.                    *)
(***************************************************************************)

LEMMA IntakeStepOfRelayKeeps ==
    ASSUME RelayInv, IntakeStep
    PROVE  RelayInv'
<1>1. /\ IntakeNext /\ UNCHANGED <<checkpoint, relay, bus, dead, faults, refusedLookups>>
      /\ knownFrom' = IF marked' # marked THEN Len(stream) ELSE knownFrom
  BY DEF IntakeStep
<1>2. IntakeInv /\ StreamOK /\ RelayOK /\ CountsOK /\ InHandOK
  BY DEF RelayInv
<1>3. IntakeInv'
  BY <1>1, <1>2, IntakeStepKeeps
<1>4. Extends(stream', stream) /\ StreamOK' /\ stream \in Seq(StreamRecord)
  BY <1>1, <1>2, StreamKeeps DEF StreamOK, Chained
<1>5. /\ Len(stream) \in Nat /\ Len(stream') \in Nat /\ Len(stream) <= Len(stream')
      /\ \A i \in 1..Len(stream) : stream'[i] = stream[i]
  BY <1>4 DEF Extends
<1>6. UNCHANGED <<marked, knownFrom>> \/ knownFrom' = Len(stream)
  <2>1. CASE marked' = marked
    BY <1>1, <2>1, Zenon
  <2>2. CASE marked' # marked
    BY <1>1, <2>2, Zenon
  <2> QED BY <2>1, <2>2
<1>7. RelayOK'
  <2>1. knownFrom' \in Nat
    BY <1>2, <1>5, <1>6 DEF RelayOK
  <2>2. checkpoint' \in Nat /\ checkpoint' <= Len(stream')
    BY <1>1, <1>2, <1>5 DEF RelayOK
  <2>3. relay # Idle => relay.end \in Nat /\ relay.end <= Len(stream)
    BY InHandFacts
  <2>4. \/ relay' = Idle
        \/ /\ relay' \in Busy /\ checkpoint' < relay'.at /\ relay'.at <= relay'.end
           /\ relay'.end <= Len(stream')
    BY <1>1, <1>2, <1>5, <2>3 DEF RelayOK
  <2>5. bus' \in Seq(Item) /\ faults' \in Nat /\ \A k \in 1..Len(bus') : bus'[k].rec \in 1..Len(stream')
    BY <1>1, <1>2, <1>5 DEF RelayOK
  <2>6. Idle' = Idle /\ Busy' = Busy /\ Item' = Item
    BY DEF Idle, Busy, Item, PublishSteps
  <2> QED BY <2>1, <2>2, <2>4, <2>5, <2>6 DEF RelayOK
<1>8. Passed' = Passed /\ Passed \in 0..Len(stream) /\ checkpoint \in 0..Len(stream)
  BY <1>1, PassedType DEF Passed
<1>9. ASSUME NEW i \in 1..Len(stream) PROVE Announcements(i)' \subseteq Announcements(i)
  <2>1. i \in Nat /\ stream'[i] = stream[i] /\ refusedLookups \subseteq refusedLookups'
    BY <1>1, <1>5
  <2>2. UNCHANGED <<marked, knownFrom>> \/ (knownFrom' \in Nat /\ i <= knownFrom')
    BY <1>5, <1>6
  <2> QED BY <2>1, <2>2, AnnouncementsShrink
<1>10. BusGrows /\ bus \in Seq(Item) /\ bus' \in Seq(Item)
  BY <1>1, <1>2 DEF BusGrows, RelayOK
<1>11. \A i \in 1..Passed' : Done(i)'
  <2>1. ASSUME NEW i \in 1..Passed PROVE Done(i)'
    <3>1. Done(i) /\ i \in 1..Len(stream)
      BY <1>5, <1>8 DEF RelayInv
    <3> QED BY <1>1, <1>9, <1>10, <3>1, DoneStays
  <2> QED BY <1>8, <2>1
<1>12. InHandOK'
  <2>1. ASSUME NEW i \in Nat, relay # Idle, i = relay.at PROVE InHandAt(i)'
    <3>1. InHandAt(i)
      BY <1>2, <2>1 DEF InHandOK
    <3>2. i \in 1..Len(stream)
      BY <2>1, InHandFacts
    <3>3. stream'[i] = stream[i] /\ Announcements(i)' \subseteq Announcements(i)
      BY <1>5, <1>9, <3>2
    <3>4. Announced(i, "event") => Announced(i, "event")'
      BY <1>10, AnnouncedStays
    <3>5. relay.mailbox \/ "mailbox" \notin Announcements(i) => relay'.mailbox \/ "mailbox" \notin Announcements(i)'
      BY <1>1, <3>3, Zenon
    <3> QED BY <1>1, <3>1, <3>3, <3>4, <3>5 DEF InHandAt
  <2> QED BY <1>1, <2>1 DEF InHandOK
<1>13. CountsOK'
  <2>1. \A i \in Nat, what \in PublishSteps : Ahead(i, what)' => Ahead(i, what)
    BY <1>1, <1>8 DEF Ahead
  <2> QED BY <1>1, <1>2, <2>1, QuietCounts
<1>14. dead' = {} => Fine(checkpoint)' /\ Fine(Passed)'
  <2>1. BusOver(bus, stream)
    BY <1>2 DEF BusOver, RelayOK
  <2>2. dead = {} => FineAt(bus, stream, checkpoint) /\ FineAt(bus, stream, Passed)
    BY DEF RelayInv, Fine
  <2>3. dead = {} => FineAt(bus, stream', checkpoint) /\ FineAt(bus, stream', Passed)
    BY <1>4, <1>8, <2>1, <2>2, FineExtends
  <2> QED BY <1>1, <1>8, <2>3 DEF Fine
<1> QED BY <1>3, <1>4, <1>7, <1>11, <1>12, <1>13, <1>14 DEF RelayInv

LEMMA RelayStutterKeeps ==
    ASSUME RelayInv, UNCHANGED allVars
    PROVE  RelayInv'
<1>1. UNCHANGED vars /\ UNCHANGED <<stream, checkpoint, relay, bus, dead, faults, knownFrom, refusedLookups>>
  BY DEF allVars, relayVars, vars
<1>2. Passed' = Passed /\ Passed \in 0..Len(stream)
  BY <1>1, PassedType DEF Passed
<1>3. RelayOK'
  BY <1>1 DEF RelayInv, RelayOK
<1>4. BusGrows
  BY <1>1, BusStays
<1>5. InHandOK'
  <2>1. ASSUME NEW i \in Nat, relay # Idle, i = relay.at PROVE InHandAt(i)'
    <3>1. InHandAt(i)
      BY <2>1 DEF RelayInv, InHandOK
    <3>2. Announcements(i)' \subseteq Announcements(i)
      BY <1>1, AnnouncementsShrink DEF vars
    <3>3. Announced(i, "event") => Announced(i, "event")'
      BY <1>1 DEF Announced
    <3>4. relay.mailbox \/ "mailbox" \notin Announcements(i) => relay'.mailbox \/ "mailbox" \notin Announcements(i)'
      BY <1>1, <3>2, Zenon
    <3> QED BY <1>1, <3>1, <3>3, <3>4 DEF InHandAt
  <2> QED BY <1>1, <2>1 DEF InHandOK
<1>6. CountsOK'
  <2>1. \A i \in Nat, what \in PublishSteps : Ahead(i, what)' => Ahead(i, what)
    BY <1>1, <1>2 DEF Ahead
  <2> QED BY <1>1, <2>1, QuietCounts DEF RelayInv
<1>7. dead' = {} => Fine(checkpoint)' /\ Fine(Passed)'
  BY <1>1, <1>2 DEF RelayInv, Fine
<1>8. /\ refusedLookups \subseteq refusedLookups' /\ dead \subseteq dead'
      /\ knownFrom' = knownFrom /\ Passed' \in Int
      /\ \A i \in (Passed + 1)..Passed' : Done(i)'
  BY <1>1, <1>2, PassedType
<1> QED BY <1>1, <1>3, <1>4, <1>5, <1>6, <1>7, <1>8, StepConcludes

LEMMA RelayInitHolds ==
    ASSUME RelayInit
    PROVE  RelayInv
<1>1. /\ Init /\ checkpoint = 0 /\ relay = Idle /\ bus = <<>> /\ dead = {} /\ faults = 0 /\ knownFrom = 0
      /\ stream = <<>> /\ status = NoStatus
  BY DEF RelayInit, Init
<1>2. IntakeInv
  BY <1>1, InitHolds
<1>3. Len(stream) = 0 /\ Len(bus) = 0 /\ stream \in Seq(StreamRecord) /\ bus \in Seq(Item)
  BY <1>1
<1>4. StreamOK
  BY <1>1, <1>3 DEF StreamOK, Chained, StatusAsOf
<1>5. RelayOK /\ InHandOK /\ Passed = 0
  BY <1>1, <1>3 DEF RelayOK, InHandOK, Passed
<1>6. CountsOK
  <2>1. \A e : {j \in 1..Len(bus) : bus[j] = e} = {}
    BY <1>3
  <2>2. \A e : Count(e) = 0
    BY <2>1, FS_EmptySet DEF Count
  <2> QED BY <1>1, <2>2 DEF CountsOK
<1>7. Fine(0)
  <2>1. LastTold(bus, stream, NoStatus) /\ StatusAsOf(stream, 0, NoStatus)
    BY <1>3 DEF LastTold, StatusAsOf
  <2> QED BY <2>1 DEF Fine, FineAt
<1> QED BY <1>1, <1>2, <1>4, <1>5, <1>6, <1>7 DEF RelayInv

\* The relay and the request path together keep the invariant.
THEOREM RelayIsSafe == RelaySpec => []RelayInv
<1>1. RelayInit => RelayInv
  BY RelayInitHolds
<1>2. RelayInv /\ [RelayNext]_allVars => RelayInv'
  <2>1. ASSUME RelayInv, RelayStep, UNCHANGED vars PROVE RelayInv'
    BY <2>1, InvokeKeeps, ClassifyKeeps, LooksUpKeeps, LookupRefusedKeeps, PublishesKeeps,
       RecordFailsKeeps, PublishAnswerLostKeeps, RelayDiesKeeps,
       DiesHavingPublishedKeeps, DeadLettersKeeps DEF RelayStep
  <2> QED BY <2>1, IntakeStepOfRelayKeeps, RelayStutterKeeps DEF RelayNext
<1> QED BY <1>1, <1>2, PTL DEF RelaySpec

LEMMA InvIsFaithful ==
    ASSUME RelayInv
    PROVE  RelayedFaithfully
<1>1. NoSilentLoss
  <2>1. ASSUME NEW i \in 1..checkpoint PROVE Done(i)
    <3>1. checkpoint <= Passed /\ Passed \in Nat /\ checkpoint \in Nat
      BY PassedType, InHandFacts DEF Passed
    <3> QED BY <3>1 DEF RelayInv
  <2> QED BY <2>1 DEF NoSilentLoss, Done
<1>2. RepeatsOnlyAfterFaults
  <2>1. ASSUME NEW k \in 1..Len(bus)
        PROVE  Cardinality({j \in 1..Len(bus) : bus[j] = bus[k]}) <= 1 + faults
    <3>1. bus[k] \in Item
      BY DEF RelayInv, RelayOK
    <3>2. PICK i \in Nat, what \in PublishSteps : bus[k] = Published(i, what)
      BY <3>1 DEF Item, Published
    <3>3. Count(Published(i, what)) <= 1 + faults
      BY DEF RelayInv, CountsOK
    <3> QED BY <3>2, <3>3 DEF Count
  <2> QED BY <2>1 DEF RepeatsOnlyAfterFaults
<1> QED BY <1>1, <1>2 DEF RelayedFaithfully

\* stream.rs, "a publish that outlives SNS's redelivery budget can no longer be
\* lost": a record the mapping is past has announced all it had to or is in the
\* dead-letter queue, and none is announced more often than faults explain.
THEOREM RelaysFaithfully == RelaySpec => []RelayedFaithfully
<1>1. RelayInv => RelayedFaithfully
  BY InvIsFaithful
<1> QED BY <1>1, RelayIsSafe, PTL

LEMMA InvSettles ==
    ASSUME RelayInv
    PROVE  ConsumersSettleOnStatus
<1>1. SUFFICES ASSUME relay = Idle, checkpoint = Len(stream), dead = {}
               PROVE  ToldIs(status)
  BY DEF ConsumersSettleOnStatus
<1>2. FineAt(bus, stream, Len(stream)) /\ Len(stream) \in Nat
  BY <1>1, PassedType DEF RelayInv, Fine
<1>3. PICK s : LastTold(bus, stream, s) /\ StatusAsOf(stream, Len(stream), s)
  BY <1>2 DEF FineAt
<1>4. StatusAsOf(stream, Len(stream), status)
  BY DEF RelayInv, StreamOK, Chained
<1>5. s = status
  BY <1>2, <1>3, <1>4, StatusIsOne
<1> QED BY <1>3, <1>5 DEF LastTold, ToldIs

\* publish_status_changed, "consumers get the authoritative status": at rest, with
\* the stream read and nothing dead-lettered, the last status announced is current.
THEOREM ConsumersSettle == RelaySpec => []ConsumersSettleOnStatus
<1>1. RelayInv => ConsumersSettleOnStatus
  BY InvSettles
<1> QED BY <1>1, RelayIsSafe, PTL

-----------------------------------------------------------------------------
(***************************************************************************)
(* MailRelay.                                                              *)
(***************************************************************************)

\* Any string, the ones that mean something among them.
LabelStrings == STRING \cup Reserved

Images == [labels : SUBSET LabelStrings, readable : BOOLEAN]

MailRecords ==
    [table : {"mail"}, event : {"INSERT", "MODIFY"}, msg : DOMAIN Letters, old : Images, new : Images]

OutboundSizes == [content : Nat, payload : Nat, extra : Nat, kept : Nat]

EventRecords ==
    {r \in [table : {"events"}, event : {"INSERT"}, kind : STRING, msg : DOMAIN Letters, sns : STRING,
            at : Nat, object : BOOLEAN, sizes : OutboundSizes] :
       r.sizes.kept + PointerSize <= EntryCap}

Records == MailRecords \cup EventRecords

IsSeq(s) == s \in Seq({s[k] : k \in 1 .. Len(s)})

OfMail(r, m) == r.table = "mail" /\ r.msg = m

\* m was sent as of record i.
SentBy(lg, m, i) == \E j \in 1 .. i : OfMail(lg[j], m) /\ "sent" \in lg[j].new.labels

\* Record r may come after the first n.  The images of a message follow one upon
\* the other: nothing comes before its insert, which is not of a sent message;
\* once sent it stays so, and the item it was before that can be read.
Follows(lg, n, r) ==
    /\ r.table = "mail" /\ r.event = "INSERT" =>
          /\ "sent" \notin r.new.labels
          /\ \A j \in 1 .. n : ~OfMail(lg[j], r.msg)
    /\ r.table = "mail" /\ r.event = "MODIFY" =>
          /\ "sent" \in r.old.labels <=> SentBy(lg, r.msg, n)
          /\ IsSentRelabel(r) => r.old.readable
    /\ r.table = "events" => \A j \in 1 .. n : lg[j].table = "events" => lg[j].sns # r.sns

LogOK(lg) == lg \in Seq(Records) /\ \A i \in 1 .. Len(lg) : Follows(lg, i - 1, lg[i])

\* The items are as their last images say.
Items == [labels : SUBSET LabelStrings, ses : BOOLEAN]

MailOK(ml, ds, lg) ==
    /\ DOMAIN ml \subseteq DOMAIN Letters
    /\ \A m \in DOMAIN ml :
          /\ ml[m] \in Items
          /\ "sent" \in ml[m].labels <=> SentBy(lg, m, Len(lg))
          /\ "queued" \in Letters[m].labels => ml[m].labels \cap {"queued", "sent"} # {}
    /\ \A i \in 1 .. Len(lg) : lg[i].table = "mail" => lg[i].msg \in DOMAIN ml
    /\ DOMAIN ds \subseteq DOMAIN ml
    /\ \A m \in DOMAIN ds : ds[m] \in [ContentFields -> Nat]

\* What is still to be written is legal after what has been.
Fits(td, ml, lg, i) ==
    LET w == td[i] IN
    /\ w.op = "insert" =>
          w.msg \notin DOMAIN ml /\ \A j \in 1 .. (i - 1) : td[j].op = "insert" => td[j].msg # w.msg
    /\ w.op \in {"mark", "label"} =>
          w.msg \in DOMAIN ml \/ \E j \in 1 .. (i - 1) : td[j].op = "insert" /\ td[j].msg = w.msg
    /\ w.op = "event" =>
          /\ \A j \in 1 .. Len(lg) : lg[j].table = "events" => lg[j].sns # w.record.sns
          /\ \A j \in 1 .. (i - 1) : td[j].op = "event" => td[j].record.sns # w.record.sns

TodoOK(td, ml, lg) == td \in Seq(Writes) /\ \A i \in 1 .. Len(td) : Fits(td, ml, lg, i)

\* What record r may announce, and under which id.
Announces(r, what, id) ==
    \/ r.table = "events" /\ what = "event" /\ id = <<r.sns>>
    \/ /\ r.table = "events" /\ r.kind \in DOMAIN MailboxEventType
       /\ what = MailboxEventType[r.kind] /\ id = SesEventId(r.msg, what, r.sns, r.at)
    \/ /\ r.table = "mail" /\ r.event = "INSERT" /\ "received" \in r.new.labels
       /\ what = ReceivedEventType(r.new.labels) /\ id = EventId(r.msg, what, Letters[r.msg].at)
    \/ /\ r.table = "mail" /\ r.event = "MODIFY" /\ IsSentRelabel(r)
       /\ what = "sent" /\ id = EventId(r.msg, what, Letters[r.msg].sentAt)

\* How it may have been cut, while the documents are ds.
CutAsItShould(r, what, sizes, ds) ==
    IF what = "event"
    THEN /\ sizes["kept"] = r.sizes["kept"]
         /\ sizes["payload"] # r.sizes["payload"] =>
               r.sizes["payload"] + r.sizes["extra"] + r.sizes["kept"] > MaxDetailSize
         /\ sizes["extra"] # r.sizes["extra"] => sizes["payload"] = PointerSize
    ELSE /\ sizes["required"] = Letters[r.msg].required
         /\ r.table = "mail" /\ r.event = "INSERT" /\ sizes["headers"] = 0 /\ r.msg \in DOMAIN ds
               /\ ds[r.msg]["headers"] > 0 =>
                  sizes["html"] = 0 /\ sizes["text"] = 0

\* A mailbox event about record r that can be published.
Good(r, e, ds) ==
    /\ e.type # "event" /\ Announces(r, e.type, e.id)
    /\ CutAsItShould(r, e.type, e.sizes, ds) /\ Total(e.sizes) <= EntryCap

\* What is to be announced of record r.
HappensIn(r) ==
    IF r.table = "events" THEN {"event"}
    ELSE IF r.event = "INSERT"
    THEN IF "received" \in r.new.labels THEN {ReceivedEventType(r.new.labels)} ELSE {}
    ELSE IF IsSentRelabel(r) THEN {"sent"} ELSE {}

Told(i, what) == \E k \in 1 .. Len(entries) : entries[k].rec = i /\ entries[k].what = what

\* The work in hand is the record's.
Hand(i) ==
    LET r == log[i] IN
    /\ work.step = "load" => r.table = "mail" /\ r.event = "INSERT" /\ "received" \in r.new.labels
    /\ work.step \in {"resolve", "outbound"} => r.table = "events"
    /\ work.step = "mail" => work.event # {} /\ (r.table = "events" => Told(i, "event"))
    /\ \A e \in work.event : Good(r, e, docs)

WorkOK ==
    /\ work.step \in {"rest", "load", "resolve", "outbound", "mail"}
    /\ work = [step |-> work.step, event |-> work.event]
    /\ work.step = "rest" => work.event = {}
    /\ work.step # "rest" => passed < Len(log) /\ \A i \in 1 .. Len(log) : i = passed + 1 => Hand(i)

EntriesOK ==
    /\ IsSeq(entries)
    /\ \A k \in 1 .. Len(entries) :
          LET e == entries[k] IN
          /\ e.rec \in 1 .. Len(log)
          /\ Announces(log[e.rec], e.what, e.id)
          /\ CutAsItShould(log[e.rec], e.what, e.sizes, docs)

\* Every record the mapping is past has announced what happened with it.
PassedOK == \A i \in (1 .. passed) \ poisoned : \A what \in HappensIn(log[i]) : Told(i, what)

\* A retry takes a fault.
FaultsOK ==
    /\ passed \in 0 .. Len(log) /\ attempts \in Nat /\ busFaults \in Nat
    /\ attempts > 0 => passed < Len(log)
    /\ poisoned \subseteq 1 .. passed
    /\ Cardinality(poisoned) * MaxAttempts + attempts <= busFaults

\* The inductive invariant.
MailRelayInv ==
    /\ LogOK(log) /\ MailOK(mail, docs, log) /\ TodoOK(todo, mail, log)
    /\ FaultsOK /\ WorkOK /\ EntriesOK /\ PassedOK

-----------------------------------------------------------------------------
(***************************************************************************)
(* Sums: what Total is of a few fields.                                    *)
(***************************************************************************)

\* A sum over the subsets of S, field by field in the order they are chosen.
IsSum(h, f, S) ==
    h = [F \in SUBSET S |-> IF F = {} THEN 0
                            ELSE f[CHOOSE x \in F : TRUE] + h[F \ {CHOOSE x \in F : TRUE}]]

LEMMA SumStep ==
    ASSUME NEW S, NEW f \in [S -> Nat], NEW h, IsSum(h, f, S), NEW F \in SUBSET S, F # {}
    PROVE  \E x \in F : h[F] = f[x] + h[F \ {x}]
<1> DEFINE c == CHOOSE x \in F : TRUE
<1>1. c \in F
  OBVIOUS
<1>2. h[F] = f[c] + h[F \ {c}]
  BY DEF IsSum
<1> HIDE DEF c
<1> QED BY <1>1, <1>2

LEMMA SumOfOne ==
    ASSUME NEW S, NEW f \in [S -> Nat], NEW h, IsSum(h, f, S), NEW a \in S
    PROVE  h[{a}] = f[a]
<1>1. h[{}] = 0
  BY DEF IsSum
<1>2. PICK x \in {a} : h[{a}] = f[x] + h[{a} \ {x}]
  BY SumStep
<1>3. x = a /\ {a} \ {x} = {}
  OBVIOUS
<1> QED BY <1>1, <1>2, <1>3

LEMMA SumOfTwo ==
    ASSUME NEW S, NEW f \in [S -> Nat], NEW h, IsSum(h, f, S), NEW a \in S, NEW b \in S, a # b
    PROVE  h[{a, b}] = f[a] + f[b]
<1>0. h[{a}] = f[a] /\ h[{b}] = f[b] /\ f[a] \in Nat /\ f[b] \in Nat
  BY SumOfOne
<1>1. PICK x \in {a, b} : h[{a, b}] = f[x] + h[{a, b} \ {x}]
  BY SumStep
<1>2. CASE x = a
  <2>1. {a, b} \ {x} = {b}
    BY <1>2
  <2> QED BY <1>0, <1>1, <1>2, <2>1
<1>3. CASE x = b
  <2>1. {a, b} \ {x} = {a}
    BY <1>3
  <2>2. h[{a, b}] = f[b] + h[{a}]
    BY <1>1, <1>3, <2>1
  <2> QED BY <1>0, <2>2
<1> QED BY <1>2, <1>3

LEMMA SumOfThree ==
    ASSUME NEW S, NEW f \in [S -> Nat], NEW h, IsSum(h, f, S),
           NEW a \in S, NEW b \in S, NEW c \in S,
           a # b, a # c, b # c
    PROVE  h[{a, b, c}] = f[a] + f[b] + f[c]
<1>1. {a, b, c} \in SUBSET S /\ {a, b, c} # {}
  OBVIOUS
<1>2. PICK x \in {a, b, c} : h[{a, b, c}] = f[x] + h[{a, b, c} \ {x}]
  BY <1>1, SumStep
<1>3. CASE x = a
  <2>1. {a, b, c} \ {x} = {b, c}
    BY <1>3
  <2> QED BY <1>2, <1>3, <2>1, SumOfTwo
<1>4. CASE x = b
  <2>1. {a, b, c} \ {x} = {a, c}
    BY <1>4
  <2> QED BY <1>2, <1>4, <2>1, SumOfTwo
<1>5. CASE x = c
  <2>1. {a, b, c} \ {x} = {a, b}
    BY <1>5
  <2> QED BY <1>2, <1>5, <2>1, SumOfTwo
<1> QED BY <1>3, <1>4, <1>5

LEMMA SumOfFour ==
    ASSUME NEW S, NEW f \in [S -> Nat], NEW h, IsSum(h, f, S),
           NEW a \in S, NEW b \in S, NEW c \in S, NEW d \in S,
           a # b, a # c, a # d, b # c, b # d, c # d
    PROVE  h[{a, b, c, d}] = f[a] + f[b] + f[c] + f[d]
<1>1. {a, b, c, d} \in SUBSET S /\ {a, b, c, d} # {}
  OBVIOUS
<1>2. PICK x \in {a, b, c, d} : h[{a, b, c, d}] = f[x] + h[{a, b, c, d} \ {x}]
  BY <1>1, SumStep
<1>3. CASE x = a
  <2>1. {a, b, c, d} \ {x} = {b, c, d}
    BY <1>3
  <2> QED BY <1>2, <1>3, <2>1, SumOfThree
<1>4. CASE x = b
  <2>1. {a, b, c, d} \ {x} = {a, c, d}
    BY <1>4
  <2> QED BY <1>2, <1>4, <2>1, SumOfThree
<1>5. CASE x = c
  <2>1. {a, b, c, d} \ {x} = {a, b, d}
    BY <1>5
  <2> QED BY <1>2, <1>5, <2>1, SumOfThree
<1>6. CASE x = d
  <2>1. {a, b, c, d} \ {x} = {a, b, c}
    BY <1>6
  <2> QED BY <1>2, <1>6, <2>1, SumOfThree
<1> QED BY <1>3, <1>4, <1>5, <1>6

LEMMA SumOfFive ==
    ASSUME NEW S, NEW f \in [S -> Nat], NEW h, IsSum(h, f, S),
           NEW a \in S, NEW b \in S, NEW c \in S, NEW d \in S, NEW e \in S,
           a # b, a # c, a # d, a # e, b # c, b # d, b # e, c # d, c # e, d # e
    PROVE  h[{a, b, c, d, e}] = f[a] + f[b] + f[c] + f[d] + f[e]
<1>1. {a, b, c, d, e} \in SUBSET S /\ {a, b, c, d, e} # {}
  OBVIOUS
<1>2. PICK x \in {a, b, c, d, e} : h[{a, b, c, d, e}] = f[x] + h[{a, b, c, d, e} \ {x}]
  BY <1>1, SumStep
<1>3. CASE x = a
  <2>1. {a, b, c, d, e} \ {x} = {b, c, d, e}
    BY <1>3
  <2> QED BY <1>2, <1>3, <2>1, SumOfFour
<1>4. CASE x = b
  <2>1. {a, b, c, d, e} \ {x} = {a, c, d, e}
    BY <1>4
  <2> QED BY <1>2, <1>4, <2>1, SumOfFour
<1>5. CASE x = c
  <2>1. {a, b, c, d, e} \ {x} = {a, b, d, e}
    BY <1>5
  <2> QED BY <1>2, <1>5, <2>1, SumOfFour
<1>6. CASE x = d
  <2>1. {a, b, c, d, e} \ {x} = {a, b, c, e}
    BY <1>6
  <2> QED BY <1>2, <1>6, <2>1, SumOfFour
<1>7. CASE x = e
  <2>1. {a, b, c, d, e} \ {x} = {a, b, c, d}
    BY <1>7
  <2> QED BY <1>2, <1>7, <2>1, SumOfFour
<1> QED BY <1>3, <1>4, <1>5, <1>6, <1>7

LEMMA TotalIsASum ==
    ASSUME NEW S, NEW f \in [S -> Nat], \E h : IsSum(h, f, S)
    PROVE  \E h : IsSum(h, f, S) /\ Total(f) = h[S]
<1> DEFINE h == CHOOSE h : IsSum(h, f, S)
<1>1. IsSum(h, f, S)
  OBVIOUS
<1>2. Total(f) = h[S]
  BY DEF Total, FoldFunction, FoldFunctionOnSet, MapThenFoldSet, IsSum
<1> HIDE DEF h
<1> QED BY <1>1, <1>2

LEMMA TotalOfOne ==
    ASSUME NEW a, NEW f \in [{a} -> Nat]
    PROVE  Total(f) = f[a]
<1> DEFINE S == {a}
           h == [F \in SUBSET S |-> IF F = {} THEN 0 ELSE f[a]]
<1>1. ASSUME NEW F \in SUBSET S
      PROVE  h[F] = IF F = {} THEN 0 ELSE f[CHOOSE x \in F : TRUE] + h[F \ {CHOOSE x \in F : TRUE}]
  <2>1. CASE F = {}
    BY <2>1
  <2>2. CASE F # {}
    <3> DEFINE y == CHOOSE x \in F : TRUE
    <3>1. y = a /\ F \ {y} = {}
      BY <2>2
    <3> HIDE DEF y
    <3>2. h[F] = f[y] + h[F \ {y}] /\ f[y] \in Nat
      BY <2>2, <3>1
    <3> HIDE DEF h
    <3> QED BY <2>2, <3>2 DEF y
  <2> QED BY <2>1, <2>2
<1>2. IsSum(h, f, S)
  BY <1>1 DEF IsSum
<1>3. \E g : IsSum(g, f, S) /\ Total(f) = g[S]
  <2> HIDE DEF h
  <2> QED BY <1>2, TotalIsASum
<1> QED BY <1>3, SumOfOne

AreFour(S, a, b, c, d) ==
    S = {a, b, c, d} /\ a # b /\ a # c /\ a # d /\ b # c /\ b # d /\ c # d

LEMMA TotalOfFour ==
    ASSUME NEW S, NEW a, NEW b, NEW c, NEW d, AreFour(S, a, b, c, d), NEW f \in [S -> Nat]
    PROVE  Total(f) = f[a] + f[b] + f[c] + f[d]
<1> USE DEF AreFour
<1> DEFINE Of(x, F) == IF x \in F THEN f[x] ELSE 0
           All(F) == Of(a, F) + Of(b, F) + Of(c, F) + Of(d, F)
           h == [F \in SUBSET S |-> All(F)]
<1>1. ASSUME NEW F \in SUBSET S, NEW y \in F PROVE All(F) = f[y] + All(F \ {y})
  <2>1. CASE y = a
    <3>1. Of(a, F) = f[y] /\ Of(a, F \ {y}) = 0
      BY <2>1, <1>1
    <3>2. Of(b, F) = Of(b, F \ {y}) /\ Of(c, F) = Of(c, F \ {y}) /\ Of(d, F) = Of(d, F \ {y})
      BY <2>1, <1>1
    <3>3. Of(a, F) \in Nat /\ Of(b, F) \in Nat /\ Of(c, F) \in Nat /\ Of(d, F) \in Nat
      OBVIOUS
    <3>4. f[y] \in Nat
      BY <2>1
    <3> HIDE DEF Of
    <3> QED BY <3>1, <3>2, <3>3, <3>4
  <2>2. CASE y = b
    <3>1. Of(b, F) = f[y] /\ Of(b, F \ {y}) = 0
      BY <2>2, <1>1
    <3>2. Of(a, F) = Of(a, F \ {y}) /\ Of(c, F) = Of(c, F \ {y}) /\ Of(d, F) = Of(d, F \ {y})
      BY <2>2, <1>1
    <3>3. Of(a, F) \in Nat /\ Of(b, F) \in Nat /\ Of(c, F) \in Nat /\ Of(d, F) \in Nat
      OBVIOUS
    <3>4. f[y] \in Nat
      BY <2>2
    <3> HIDE DEF Of
    <3> QED BY <3>1, <3>2, <3>3, <3>4
  <2>3. CASE y = c
    <3>1. Of(c, F) = f[y] /\ Of(c, F \ {y}) = 0
      BY <2>3, <1>1
    <3>2. Of(a, F) = Of(a, F \ {y}) /\ Of(b, F) = Of(b, F \ {y}) /\ Of(d, F) = Of(d, F \ {y})
      BY <2>3, <1>1
    <3>3. Of(a, F) \in Nat /\ Of(b, F) \in Nat /\ Of(c, F) \in Nat /\ Of(d, F) \in Nat
      OBVIOUS
    <3>4. f[y] \in Nat
      BY <2>3
    <3> HIDE DEF Of
    <3> QED BY <3>1, <3>2, <3>3, <3>4
  <2>4. CASE y = d
    <3>1. Of(d, F) = f[y] /\ Of(d, F \ {y}) = 0
      BY <2>4, <1>1
    <3>2. Of(a, F) = Of(a, F \ {y}) /\ Of(b, F) = Of(b, F \ {y}) /\ Of(c, F) = Of(c, F \ {y})
      BY <2>4, <1>1
    <3>3. Of(a, F) \in Nat /\ Of(b, F) \in Nat /\ Of(c, F) \in Nat /\ Of(d, F) \in Nat
      OBVIOUS
    <3>4. f[y] \in Nat
      BY <2>4
    <3> HIDE DEF Of
    <3> QED BY <3>1, <3>2, <3>3, <3>4
  <2>5. y \in S
    BY <1>1
  <2> HIDE DEF All
  <2> QED BY <2>1, <2>2, <2>3, <2>4, <2>5
<1>2. All({}) = 0
  OBVIOUS
<1>3. ASSUME NEW F \in SUBSET S
      PROVE  h[F] = IF F = {} THEN 0 ELSE f[CHOOSE x \in F : TRUE] + h[F \ {CHOOSE x \in F : TRUE}]
  <2> HIDE DEF All
  <2>1. CASE F = {}
    BY <1>2, <2>1
  <2>2. CASE F # {}
    <3> DEFINE y == CHOOSE x \in F : TRUE
    <3>1. y \in F
      BY <2>2
    <3> HIDE DEF y
    <3>2. h[F] = All(F) /\ h[F \ {y}] = All(F \ {y})
      OBVIOUS
    <3>3. All(F) = f[y] + All(F \ {y})
      BY <1>1, <3>1
    <3>4. h[F] = f[y] + h[F \ {y}]
      BY <3>2, <3>3
    <3> HIDE DEF h
    <3> QED BY <2>2, <3>4 DEF y
  <2> QED BY <2>1, <2>2
<1>4. IsSum(h, f, S)
  <2> HIDE DEF All
  <2> QED BY <1>3 DEF IsSum
<1>5. \E g : IsSum(g, f, S) /\ Total(f) = g[S]
  <2> HIDE DEF h
  <2> QED BY <1>4, TotalIsASum
<1>6. PICK g : IsSum(g, f, S) /\ Total(f) = g[S]
  BY <1>5
<1>7. S = {a, b, c, d} /\ a \in S /\ b \in S /\ c \in S /\ d \in S
  OBVIOUS
<1> QED BY <1>6, <1>7, SumOfFour

AreFive(S, a, b, c, d, e) ==
    /\ S = {a, b, c, d, e}
    /\ a # b /\ a # c /\ a # d /\ a # e /\ b # c /\ b # d /\ b # e /\ c # d /\ c # e /\ d # e

LEMMA TotalOfFive ==
    ASSUME NEW S, NEW a, NEW b, NEW c, NEW d, NEW e, AreFive(S, a, b, c, d, e), NEW f \in [S -> Nat]
    PROVE  Total(f) = f[a] + f[b] + f[c] + f[d] + f[e]
<1> USE DEF AreFive
<1> DEFINE Of(x, F) == IF x \in F THEN f[x] ELSE 0
           All(F) == Of(a, F) + Of(b, F) + Of(c, F) + Of(d, F) + Of(e, F)
           h == [F \in SUBSET S |-> All(F)]
<1>1. ASSUME NEW F \in SUBSET S, NEW y \in F PROVE All(F) = f[y] + All(F \ {y})
  <2>1. CASE y = a
    <3>1. Of(a, F) = f[y] /\ Of(a, F \ {y}) = 0
      BY <2>1, <1>1
    <3>2. Of(b, F) = Of(b, F \ {y}) /\ Of(c, F) = Of(c, F \ {y}) /\ Of(d, F) = Of(d, F \ {y}) /\ Of(e, F) = Of(e, F \ {y})
      BY <2>1, <1>1
    <3>3. Of(a, F) \in Nat /\ Of(b, F) \in Nat /\ Of(c, F) \in Nat /\ Of(d, F) \in Nat /\ Of(e, F) \in Nat
      OBVIOUS
    <3>4. f[y] \in Nat
      BY <2>1
    <3> HIDE DEF Of
    <3> QED BY <3>1, <3>2, <3>3, <3>4
  <2>2. CASE y = b
    <3>1. Of(b, F) = f[y] /\ Of(b, F \ {y}) = 0
      BY <2>2, <1>1
    <3>2. Of(a, F) = Of(a, F \ {y}) /\ Of(c, F) = Of(c, F \ {y}) /\ Of(d, F) = Of(d, F \ {y}) /\ Of(e, F) = Of(e, F \ {y})
      BY <2>2, <1>1
    <3>3. Of(a, F) \in Nat /\ Of(b, F) \in Nat /\ Of(c, F) \in Nat /\ Of(d, F) \in Nat /\ Of(e, F) \in Nat
      OBVIOUS
    <3>4. f[y] \in Nat
      BY <2>2
    <3> HIDE DEF Of
    <3> QED BY <3>1, <3>2, <3>3, <3>4
  <2>3. CASE y = c
    <3>1. Of(c, F) = f[y] /\ Of(c, F \ {y}) = 0
      BY <2>3, <1>1
    <3>2. Of(a, F) = Of(a, F \ {y}) /\ Of(b, F) = Of(b, F \ {y}) /\ Of(d, F) = Of(d, F \ {y}) /\ Of(e, F) = Of(e, F \ {y})
      BY <2>3, <1>1
    <3>3. Of(a, F) \in Nat /\ Of(b, F) \in Nat /\ Of(c, F) \in Nat /\ Of(d, F) \in Nat /\ Of(e, F) \in Nat
      OBVIOUS
    <3>4. f[y] \in Nat
      BY <2>3
    <3> HIDE DEF Of
    <3> QED BY <3>1, <3>2, <3>3, <3>4
  <2>4. CASE y = d
    <3>1. Of(d, F) = f[y] /\ Of(d, F \ {y}) = 0
      BY <2>4, <1>1
    <3>2. Of(a, F) = Of(a, F \ {y}) /\ Of(b, F) = Of(b, F \ {y}) /\ Of(c, F) = Of(c, F \ {y}) /\ Of(e, F) = Of(e, F \ {y})
      BY <2>4, <1>1
    <3>3. Of(a, F) \in Nat /\ Of(b, F) \in Nat /\ Of(c, F) \in Nat /\ Of(d, F) \in Nat /\ Of(e, F) \in Nat
      OBVIOUS
    <3>4. f[y] \in Nat
      BY <2>4
    <3> HIDE DEF Of
    <3> QED BY <3>1, <3>2, <3>3, <3>4
  <2>5. CASE y = e
    <3>1. Of(e, F) = f[y] /\ Of(e, F \ {y}) = 0
      BY <2>5, <1>1
    <3>2. Of(a, F) = Of(a, F \ {y}) /\ Of(b, F) = Of(b, F \ {y}) /\ Of(c, F) = Of(c, F \ {y}) /\ Of(d, F) = Of(d, F \ {y})
      BY <2>5, <1>1
    <3>3. Of(a, F) \in Nat /\ Of(b, F) \in Nat /\ Of(c, F) \in Nat /\ Of(d, F) \in Nat /\ Of(e, F) \in Nat
      OBVIOUS
    <3>4. f[y] \in Nat
      BY <2>5
    <3> HIDE DEF Of
    <3> QED BY <3>1, <3>2, <3>3, <3>4
  <2>6. y \in S
    BY <1>1
  <2> HIDE DEF All
  <2> QED BY <2>1, <2>2, <2>3, <2>4, <2>5, <2>6
<1>2. All({}) = 0
  OBVIOUS
<1>3. ASSUME NEW F \in SUBSET S
      PROVE  h[F] = IF F = {} THEN 0 ELSE f[CHOOSE x \in F : TRUE] + h[F \ {CHOOSE x \in F : TRUE}]
  <2> HIDE DEF All
  <2>1. CASE F = {}
    BY <1>2, <2>1
  <2>2. CASE F # {}
    <3> DEFINE y == CHOOSE x \in F : TRUE
    <3>1. y \in F
      BY <2>2
    <3> HIDE DEF y
    <3>2. h[F] = All(F) /\ h[F \ {y}] = All(F \ {y})
      OBVIOUS
    <3>3. All(F) = f[y] + All(F \ {y})
      BY <1>1, <3>1
    <3>4. h[F] = f[y] + h[F \ {y}]
      BY <3>2, <3>3
    <3> HIDE DEF h
    <3> QED BY <2>2, <3>4 DEF y
  <2> QED BY <2>1, <2>2
<1>4. IsSum(h, f, S)
  <2> HIDE DEF All
  <2> QED BY <1>3 DEF IsSum
<1>5. \E g : IsSum(g, f, S) /\ Total(f) = g[S]
  <2> HIDE DEF h
  <2> QED BY <1>4, TotalIsASum
<1>6. PICK g : IsSum(g, f, S) /\ Total(f) = g[S]
  BY <1>5
<1>7. S = {a, b, c, d, e} /\ a \in S /\ b \in S /\ c \in S /\ d \in S /\ e \in S
  OBVIOUS
<1> QED BY <1>6, <1>7, SumOfFive

-----------------------------------------------------------------------------
(***************************************************************************)
(* Details fit an entry, and are cut no further than they have to be.      *)
(***************************************************************************)

LEMMA OutboundTotal ==
    ASSUME NEW s \in OutboundSizes
    PROVE  Total(s) = s.content + s.payload + s.extra + s.kept
<1>1. AreFour(DOMAIN s, "content", "payload", "extra", "kept") /\ s \in [DOMAIN s -> Nat]
  BY DEF AreFour, OutboundSizes
<1>2. Total(s) = s["content"] + s["payload"] + s["extra"] + s["kept"]
  BY <1>1, TotalOfFour
<1> QED BY <1>2

LEMMA OutboundFits ==
    ASSUME NEW s \in OutboundSizes, s.kept + PointerSize <= EntryCap
    PROVE  LET b == BuildOutbound(s) IN
           /\ b \in OutboundSizes /\ Total(b) <= EntryCap /\ b.kept = s.kept
           /\ b.payload # s.payload => s.payload + s.extra + s.kept > MaxDetailSize
           /\ b.extra # s.extra => b.payload = PointerSize
<1> DEFINE stripped == Drop(s, {"content"})
           pointed == IF Total(stripped) <= MaxDetailSize THEN stripped
                      ELSE [stripped EXCEPT !.payload = PointerSize]
           cut == IF Total(pointed) <= EntryCap THEN pointed ELSE Drop(pointed, {"extra"})
<1>1. BuildOutbound(s) = IF Total(s) <= MaxDetailSize THEN s ELSE cut
  BY DEF BuildOutbound
<1>2. /\ stripped \in OutboundSizes /\ stripped.content = 0 /\ stripped.payload = s.payload
      /\ stripped.extra = s.extra /\ stripped.kept = s.kept
  BY DEF Drop, OutboundSizes
<1>3. Total(s) \in Nat /\ Total(stripped) = s.payload + s.extra + s.kept /\ Total(stripped) \in Nat
  <2> HIDE DEF stripped
  <2>1. Total(s) = s.content + s.payload + s.extra + s.kept
    BY OutboundTotal
  <2>2. Total(stripped) = stripped.content + stripped.payload + stripped.extra + stripped.kept
    BY OutboundTotal, <1>2
  <2> QED BY <1>2, <2>1, <2>2 DEF OutboundSizes
<1>4. CASE Total(s) <= MaxDetailSize
  BY <1>1, <1>3, <1>4, SizesAreBounded
<1>5. CASE ~(Total(s) <= MaxDetailSize) /\ Total(stripped) <= MaxDetailSize
  <2>1. pointed = stripped
    BY <1>5
  <2>2. Total(stripped) <= EntryCap
    BY <1>3, <1>5, SizesAreBounded
  <2>3. BuildOutbound(s) = stripped
    BY <1>1, <1>5, <2>1, <2>2
  <2> HIDE DEF stripped
  <2> QED BY <1>2, <2>2, <2>3
<1>6. CASE ~(Total(s) <= MaxDetailSize) /\ ~(Total(stripped) <= MaxDetailSize)
  <2>1. /\ pointed \in OutboundSizes /\ pointed.content = 0 /\ pointed.payload = PointerSize
        /\ pointed.extra = s.extra /\ pointed.kept = s.kept
    <3>1. pointed = [stripped EXCEPT !.payload = PointerSize]
      BY <1>6
    <3> HIDE DEF stripped, pointed
    <3> QED BY <1>2, <3>1, SizesAreBounded DEF OutboundSizes
  <2>2. s.payload + s.extra + s.kept > MaxDetailSize
    <3> HIDE DEF stripped
    <3> QED BY <1>3, <1>6, SizesAreBounded
  <2>3. BuildOutbound(s) = cut
    BY <1>1, <1>6
  <2> HIDE DEF pointed
  <2>4. CASE Total(pointed) <= EntryCap
    <3>1. BuildOutbound(s) = pointed
      BY <2>3, <2>4
    <3> QED BY <2>1, <2>2, <2>4, <3>1
  <2>5. CASE ~(Total(pointed) <= EntryCap)
    <3> DEFINE d == Drop(pointed, {"extra"})
    <3>1. BuildOutbound(s) = d
      BY <2>3, <2>5
    <3>2. d \in OutboundSizes /\ d.content = 0 /\ d.payload = PointerSize /\ d.extra = 0 /\ d.kept = s.kept
      BY <2>1 DEF Drop, OutboundSizes
    <3> HIDE DEF d
    <3>3. Total(d) = d.content + d.payload + d.extra + d.kept
      BY <3>2, OutboundTotal
    <3>4. Total(d) <= EntryCap
      BY <3>2, <3>3, SizesAreBounded DEF OutboundSizes
    <3> QED BY <2>2, <3>1, <3>2, <3>4
  <2> QED BY <2>4, <2>5
<1> QED BY <1>4, <1>5, <1>6

DetailSizes == [html : Nat, text : Nat, headers : Nat, optional : Nat, required : Nat]

LEMMA DetailTotal ==
    ASSUME NEW s \in DetailSizes
    PROVE  Total(s) = s.html + s.text + s.headers + s.optional + s.required
<1>1. AreFive(DOMAIN s, "html", "text", "headers", "optional", "required") /\ s \in [DOMAIN s -> Nat]
  BY DEF AreFive, DetailSizes
<1>2. Total(s) = s["html"] + s["text"] + s["headers"] + s["optional"] + s["required"]
  BY <1>1, TotalOfFive
<1> QED BY <1>2

LEMMA DropsOf ==
    ASSUME NEW s \in DetailSizes
    PROVE  /\ Drop(s, {"html"}) = [s EXCEPT !.html = 0]
           /\ Drop(s, {"text"}) = [s EXCEPT !.text = 0]
           /\ Drop(s, {"headers"}) = [s EXCEPT !.headers = 0]
           /\ Drop(s, {"optional"}) = [s EXCEPT !.optional = 0]
BY DEF Drop, DetailSizes

\* The headers go only after the bodies.
LEMMA ReceivedFits ==
    ASSUME NEW s \in DetailSizes, s.required <= EntryCap
    PROVE  LET c == CapReceivedDetail(s) IN
           /\ c \in DetailSizes /\ Total(c) <= EntryCap /\ c.required = s.required
           /\ c.html \in {0, s.html} /\ c.text \in {0, s.text}
           /\ c.headers = s.headers \/ (c.html = 0 /\ c.text = 0)
<1> DEFINE a == Within(EntryCap, s, {"html"})
           b == Within(EntryCap, a, {"text"})
           c == Within(EntryCap, b, {"headers"})
           d == Within(EntryCap, c, {"optional"})
<1>1. CapReceivedDetail(s) = d
  BY DEF CapReceivedDetail
<1>2. /\ a \in DetailSizes /\ a.text = s.text /\ a.headers = s.headers /\ a.required = s.required
      /\ (Total(a) <= EntryCap /\ a.html = s.html) \/ a.html = 0
  <2>1. CASE Total(s) <= EntryCap
    <3>1. a = s
      BY <2>1 DEF Within
    <3> QED BY <2>1, <3>1
  <2>2. CASE ~(Total(s) <= EntryCap)
    <3>1. a = [s EXCEPT !.html = 0]
      BY <2>2, DropsOf DEF Within
    <3> QED BY <3>1 DEF DetailSizes
  <2> QED BY <2>1, <2>2
<1> HIDE DEF a
<1>3. /\ b \in DetailSizes /\ b.html = a.html /\ b.headers = a.headers /\ b.required = a.required
      /\ (Total(b) <= EntryCap /\ b = a) \/ (~(Total(a) <= EntryCap) /\ b.text = 0)
  BY <1>2, DropsOf DEF Within, DetailSizes
<1> HIDE DEF b
<1>4. /\ c \in DetailSizes /\ c.html = b.html /\ c.text = b.text /\ c.required = b.required
      /\ (Total(c) <= EntryCap /\ c = b) \/ (~(Total(b) <= EntryCap) /\ c.headers = 0)
  BY <1>3, DropsOf DEF Within, DetailSizes
<1> HIDE DEF c
<1>5. /\ d \in DetailSizes /\ d.html = c.html /\ d.text = c.text /\ d.headers = c.headers
      /\ d.required = c.required
      /\ (Total(d) <= EntryCap /\ d = c) \/ (~(Total(c) <= EntryCap) /\ d.optional = 0)
  BY <1>4, DropsOf DEF Within, DetailSizes
<1> HIDE DEF d
<1>6. Total(d) <= EntryCap
  <2>1. SUFFICES ASSUME ~(Total(c) <= EntryCap), d.optional = 0 PROVE Total(d) <= EntryCap
    BY <1>5
  <2>2. ~(Total(b) <= EntryCap) /\ c.headers = 0
    BY <1>4, <2>1
  <2>3. ~(Total(a) <= EntryCap) /\ b.text = 0
    BY <1>3, <2>2
  <2>4. a.html = 0
    BY <1>2, <2>3
  <2>5. d.html = 0 /\ d.text = 0 /\ d.headers = 0 /\ d.required = s.required
    BY <1>2, <1>3, <1>4, <1>5, <2>2, <2>3, <2>4
  <2>6. Total(d) = d.html + d.text + d.headers + d.optional + d.required
    BY <1>5, DetailTotal
  <2> QED BY <1>5, <2>1, <2>5, <2>6 DEF DetailSizes
<1>7. d.headers = s.headers \/ (d.html = 0 /\ d.text = 0)
  <2>1. SUFFICES ASSUME ~(Total(b) <= EntryCap) PROVE d.html = 0 /\ d.text = 0
    BY <1>2, <1>3, <1>4, <1>5
  <2>2. ~(Total(a) <= EntryCap) /\ b.text = 0
    BY <1>3, <2>1
  <2> QED BY <1>2, <1>3, <1>4, <1>5, <2>2
<1>8. d.html \in {0, s.html} /\ d.text \in {0, s.text} /\ d.required = s.required
  BY <1>2, <1>3, <1>4, <1>5
<1> QED BY <1>1, <1>5, <1>6, <1>7, <1>8

LEMMA RequiredFits ==
    ASSUME NEW m \in DOMAIN Letters
    PROVE  /\ Letters[m].required \in Nat /\ Letters[m].required <= EntryCap
           /\ Total([required |-> Letters[m].required]) <= EntryCap
<1> DEFINE n == Letters[m].required
<1>1. n \in 0 .. EntryCap
  BY LettersAreWellFormed
<1>2. EntryCap \in Nat
  BY SizesAreBounded
<1> HIDE DEF n
<1>3. [required |-> n] \in [{"required"} -> Nat] /\ [required |-> n]["required"] = n
  BY <1>1, <1>2
<1>4. Total([required |-> n]) = n
  BY <1>3, TotalOfOne
<1>5. n \in Nat /\ n <= EntryCap /\ Total([required |-> n]) <= EntryCap
  BY <1>1, <1>2, <1>4
<1> QED BY <1>5 DEF n

-----------------------------------------------------------------------------
(***************************************************************************)
(* The mailbox events a record is built into.                              *)
(***************************************************************************)

LEMMA ReceivedBuilt ==
    ASSUME NEW r \in MailRecords, r.event = "INSERT", "received" \in r.new.labels,
           NEW content \in [ContentFields -> Nat], NEW ds,
           r.msg \in DOMAIN ds => content = ds[r.msg] \/ content = NoContent
    PROVE  /\ BuildReceivedEvent(r, content) # {}
           /\ \A e \in BuildReceivedEvent(r, content) : Good(r, e, ds)
<1> DEFINE s == ReceivedSizes(Letters[r.msg], content)
           w == WithoutHugeBodies(s)
           c == CapReceivedDetail(w)
           e == [type |-> ReceivedEventType(r.new.labels),
                 id |-> EventId(r.msg, ReceivedEventType(r.new.labels), Letters[r.msg].at),
                 sizes |-> c]
<1>1. r.msg \in DOMAIN Letters /\ r.table = "mail"
  BY DEF MailRecords
<1>2. BuildReceivedEvent(r, content) = {e}
  BY DEF BuildReceivedEvent
<1>3. /\ s \in DetailSizes /\ s.html = content["html"] /\ s.text = content["text"]
      /\ s.headers = content["headers"] /\ s.required = Letters[r.msg].required
  <2>1. Letters[r.msg].optional \in Nat /\ Letters[r.msg].required \in Nat
    BY <1>1, RequiredFits, LettersAreWellFormed
  <2>2. \A f \in ContentFields : content[f] \in Nat
    OBVIOUS
  <2>3. content["references"] \in Nat /\ content["reply_to"] \in Nat /\ content["html"] \in Nat
        /\ content["text"] \in Nat /\ content["headers"] \in Nat
    BY <2>2 DEF ContentFields
  <2> QED BY <2>1, <2>3 DEF ReceivedSizes, DetailSizes
<1>4. /\ w \in DetailSizes /\ w.html \in {0, s.html} /\ w.text \in {0, s.text}
      /\ w.headers = s.headers /\ w.required = s.required
  <2> HIDE DEF s
  <2> QED BY <1>3 DEF WithoutHugeBodies, Drop, DetailSizes
<1> HIDE DEF s, w
<1>5. /\ c \in DetailSizes /\ Total(c) <= EntryCap /\ c.required = w.required
      /\ c.html \in {0, w.html} /\ c.text \in {0, w.text}
      /\ c.headers = w.headers \/ (c.html = 0 /\ c.text = 0)
  BY <1>1, <1>3, <1>4, ReceivedFits, RequiredFits
<1> HIDE DEF c
<1>6. ReceivedEventType(r.new.labels) \notin {"event", "sent"}
  BY DEF ReceivedEventType
<1>7. Announces(r, e.type, e.id)
  BY <1>1 DEF Announces
<1>8. CutAsItShould(r, e.type, e.sizes, ds)
  <2>1. c.required = Letters[r.msg].required
    BY <1>3, <1>4, <1>5
  <2>2. ASSUME c.headers = 0, r.msg \in DOMAIN ds, ds[r.msg]["headers"] > 0
        PROVE  c.html = 0 /\ c.text = 0
    <3>1. CASE content = ds[r.msg]
      BY <1>3, <1>4, <1>5, <2>2, <3>1
    <3>2. CASE content = NoContent
      <4>1. content["html"] = 0 /\ content["text"] = 0
        BY <3>2 DEF NoContent, ContentFields
      <4> QED BY <1>3, <1>4, <1>5, <4>1
    <3> QED BY <2>2, <3>1, <3>2
  <2> QED BY <1>6, <2>1, <2>2 DEF CutAsItShould
<1>9. Good(r, e, ds)
  <2>1. e.type # "event" /\ Total(e.sizes) <= EntryCap
    BY <1>5, <1>6
  <2> QED BY <1>7, <1>8, <2>1 DEF Good
<1> HIDE DEF e
<1> QED BY <1>2, <1>9

LEMMA SentBuilt ==
    ASSUME NEW r \in MailRecords, r.event = "MODIFY", NEW ds
    PROVE  /\ BuildSentEvent(r) # {} <=> IsSentRelabel(r)
           /\ \A e \in BuildSentEvent(r) : Good(r, e, ds)
<1>1. r.msg \in DOMAIN Letters /\ r.table = "mail"
  BY DEF MailRecords
<1> DEFINE e == [type |-> "sent", id |-> EventId(r.msg, "sent", Letters[r.msg].sentAt),
                 sizes |-> [required |-> Letters[r.msg].required]]
<1>2. BuildSentEvent(r) = IF IsSentRelabel(r) THEN {e} ELSE {}
  BY DEF BuildSentEvent
<1>3. ASSUME IsSentRelabel(r) PROVE Good(r, e, ds)
  <2>1. Announces(r, e.type, e.id)
    BY <1>1, <1>3 DEF Announces
  <2>2. CutAsItShould(r, e.type, e.sizes, ds)
    BY DEF CutAsItShould
  <2>3. Total(e.sizes) <= EntryCap
    BY <1>1, RequiredFits
  <2> QED BY <2>1, <2>2, <2>3 DEF Good
<1> HIDE DEF e
<1> QED BY <1>2, <1>3

LEMMA SesBuilt ==
    ASSUME NEW r \in EventRecords, NEW ds
    PROVE  \A e \in BuildSesEvent(r) : Good(r, e, ds)
<1>1. r.msg \in DOMAIN Letters /\ r.table = "events"
  BY DEF EventRecords
<1> DEFINE e == [type |-> MailboxEventType[r.kind],
                 id |-> SesEventId(r.msg, MailboxEventType[r.kind], r.sns, r.at),
                 sizes |-> [required |-> Letters[r.msg].required]]
<1>2. BuildSesEvent(r) = IF r.kind \in DOMAIN MailboxEventType /\ r.object THEN {e} ELSE {}
  BY DEF BuildSesEvent
<1>3. ASSUME r.kind \in DOMAIN MailboxEventType PROVE Good(r, e, ds)
  <2>1. Announces(r, e.type, e.id)
    BY <1>1, <1>3 DEF Announces
  <2>2. MailboxEventType[r.kind] # "event"
    BY <1>3 DEF MailboxEventType
  <2>3. CutAsItShould(r, e.type, e.sizes, ds)
    BY <1>1, <2>2 DEF CutAsItShould
  <2>4. Total(e.sizes) <= EntryCap
    BY <1>1, RequiredFits
  <2> QED BY <2>1, <2>2, <2>3, <2>4 DEF Good
<1> HIDE DEF e
<1> QED BY <1>2, <1>3

-----------------------------------------------------------------------------
(***************************************************************************)
(* The writes.                                                             *)
(***************************************************************************)

LEMMA AppendOf ==
    ASSUME NEW S, NEW s \in Seq(S), NEW e \in S
    PROVE  /\ Append(s, e) \in Seq(S) /\ Len(Append(s, e)) = Len(s) + 1 /\ Len(s) \in Nat
           /\ \A i \in 1 .. Len(s) : Append(s, e)[i] = s[i]
           /\ Append(s, e)[Len(s) + 1] = e
OBVIOUS

LEMMA AppendIs ==
    ASSUME NEW S, NEW s \in Seq(S), NEW e
    PROVE  /\ Append(s, e) \in Seq(S \cup {e}) /\ Len(Append(s, e)) = Len(s) + 1 /\ Len(s) \in Nat
           /\ \A i \in 1 .. Len(s) : Append(s, e)[i] = s[i]
           /\ Append(s, e)[Len(s) + 1] = e
<1>1. s \in Seq(S \cup {e}) /\ e \in S \cup {e}
  OBVIOUS
<1> QED BY <1>1, AppendOf

LEMMA LogGrows ==
    ASSUME NEW lg, LogOK(lg), NEW r \in Records, Follows(lg, Len(lg), r)
    PROVE  /\ LogOK(Append(lg, r)) /\ Len(Append(lg, r)) = Len(lg) + 1 /\ Len(lg) \in Nat
           /\ \A i \in 1 .. Len(lg) : Append(lg, r)[i] = lg[i]
           /\ Append(lg, r)[Len(lg) + 1] = r
<1> DEFINE lh == Append(lg, r)
<1>0. lg \in Seq(Records)
  BY DEF LogOK
<1>1. /\ lh \in Seq(Records) /\ Len(lh) = Len(lg) + 1 /\ Len(lg) \in Nat
      /\ \A i \in 1 .. Len(lg) : lh[i] = lg[i]
      /\ lh[Len(lg) + 1] = r
  <2>1. Records \cup {r} = Records
    OBVIOUS
  <2> QED BY <1>0, <2>1, AppendIs
<1> HIDE DEF lh
<1>2. ASSUME NEW n \in 0 .. Len(lg), NEW q, Follows(lg, n, q) PROVE Follows(lh, n, q)
  <2>1. \A j \in 1 .. n : lh[j] = lg[j]
    BY <1>1
  <2>2. \A m : SentBy(lh, m, n) <=> SentBy(lg, m, n)
    BY <2>1 DEF SentBy
  <2> QED BY <1>2, <2>1, <2>2 DEF Follows
<1>3. ASSUME NEW i \in 1 .. Len(lh) PROVE Follows(lh, i - 1, lh[i])
  <2>1. CASE i \in 1 .. Len(lg)
    <3>1. Follows(lg, i - 1, lg[i]) /\ i - 1 \in 0 .. Len(lg)
      BY <1>1, <2>1 DEF LogOK
    <3> QED BY <1>1, <1>2, <2>1, <3>1
  <2>2. CASE i = Len(lg) + 1
    <3>1. i - 1 = Len(lg) /\ Len(lg) \in 0 .. Len(lg)
      BY <1>1, <2>2
    <3> QED BY <1>1, <1>2, <2>2, <3>1
  <2> QED BY <1>1, <2>1, <2>2
<1>4. LogOK(lh)
  BY <1>1, <1>3 DEF LogOK
<1> QED BY <1>1, <1>4 DEF lh

\* Whether a message is sent, once a record of it or of another is there.
LEMMA SentByGrows ==
    ASSUME NEW lg, NEW lh, NEW r, Len(lg) \in Nat, Len(lh) = Len(lg) + 1,
           \A i \in 1 .. Len(lg) : lh[i] = lg[i], lh[Len(lg) + 1] = r
    PROVE  \A m : SentBy(lh, m, Len(lh)) <=>
                     SentBy(lg, m, Len(lg)) \/ (OfMail(r, m) /\ "sent" \in r.new.labels)
BY DEF SentBy

LEMMA TailIs ==
    ASSUME NEW S, NEW s \in Seq(S), s # <<>>
    PROVE  /\ Tail(s) \in Seq(S) /\ Len(s) \in Nat /\ Len(s) >= 1 /\ Len(Tail(s)) = Len(s) - 1
           /\ \A i \in 1 .. Len(Tail(s)) : Tail(s)[i] = s[i + 1]
           /\ Head(s) = s[1]
OBVIOUS

LEMMA TailFits ==
    ASSUME NEW td, NEW ml, NEW lg, TodoOK(td, ml, lg), td # <<>>, NEW mm, NEW lh,
           DOMAIN mm = DOMAIN ml \cup (IF td[1].op = "insert" THEN {td[1].msg} ELSE {}),
           \A j \in 1 .. Len(lh) : lh[j].table = "events" =>
               \/ \E k \in 1 .. Len(lg) : lg[k].table = "events" /\ lg[k].sns = lh[j].sns
               \/ td[1].op = "event" /\ lh[j].sns = td[1].record.sns
    PROVE  TodoOK(Tail(td), mm, lh)
<1> DEFINE tl == Tail(td)
<1>1. td \in Seq(Writes) /\ \A i \in 1 .. Len(td) : Fits(td, ml, lg, i)
  BY DEF TodoOK
<1>2. /\ tl \in Seq(Writes) /\ Len(td) \in Nat /\ Len(td) >= 1 /\ Len(tl) = Len(td) - 1
      /\ \A i \in 1 .. Len(tl) : tl[i] = td[i + 1]
  BY <1>1, TailIs
<1> HIDE DEF tl
<1>3. ASSUME NEW i \in 1 .. Len(tl) PROVE Fits(tl, mm, lh, i)
  <2>1. i + 1 \in 1 .. Len(td) /\ tl[i] = td[i + 1] /\ 1 \in 1 .. ((i + 1) - 1)
    BY <1>2
  <2>2. Fits(td, ml, lg, i + 1)
    BY <1>1, <2>1
  <2>3. \A j \in 1 .. (i - 1) : j + 1 \in 1 .. ((i + 1) - 1) /\ tl[j] = td[j + 1]
    BY <1>2
  <2>4. tl[i].op = "insert" => tl[i].msg \notin DOMAIN mm
          /\ \A j \in 1 .. (i - 1) : tl[j].op = "insert" => tl[j].msg # tl[i].msg
    BY <2>1, <2>2, <2>3 DEF Fits
  <2>5. ASSUME tl[i].op \in {"mark", "label"}
        PROVE  tl[i].msg \in DOMAIN mm
                 \/ \E j \in 1 .. (i - 1) : tl[j].op = "insert" /\ tl[j].msg = tl[i].msg
    <3>1. CASE tl[i].msg \in DOMAIN ml
      BY <3>1
    <3>2. CASE \E j \in 1 .. ((i + 1) - 1) : td[j].op = "insert" /\ td[j].msg = td[i + 1].msg
      <4>1. PICK j \in 1 .. ((i + 1) - 1) : td[j].op = "insert" /\ td[j].msg = td[i + 1].msg
        BY <3>2
      <4>2. CASE j = 1
        BY <2>1, <4>1, <4>2
      <4>3. CASE j # 1
        <5>1. j - 1 \in 1 .. (i - 1) /\ (j - 1) + 1 = j
          BY <1>2, <4>3
        <5>2. tl[j - 1] = td[j]
          BY <2>3, <5>1
        <5> QED BY <2>1, <4>1, <5>1, <5>2
      <4> QED BY <4>2, <4>3
    <3> QED BY <2>1, <2>2, <2>5, <3>1, <3>2 DEF Fits
  <2>6. ASSUME tl[i].op = "event"
        PROVE  /\ \A j \in 1 .. Len(lh) : lh[j].table = "events" => lh[j].sns # tl[i].record.sns
               /\ \A j \in 1 .. (i - 1) : tl[j].op = "event" => tl[j].record.sns # tl[i].record.sns
    <3>1. /\ \A j \in 1 .. Len(lg) : lg[j].table = "events" => lg[j].sns # tl[i].record.sns
          /\ \A j \in 1 .. ((i + 1) - 1) : td[j].op = "event" => td[j].record.sns # tl[i].record.sns
      BY <2>1, <2>2, <2>6 DEF Fits
    <3> QED BY <2>1, <2>3, <3>1
  <2> QED BY <2>4, <2>5, <2>6 DEF Fits
<1>4. TodoOK(tl, mm, lh)
  BY <1>2, <1>3 DEF TodoOK
<1> QED BY <1>4 DEF tl

\* What a write leaves behind, of the stream and of the items.
WroteWell ==
    /\ LogOK(log') /\ MailOK(mail', docs', log') /\ TodoOK(todo', mail', log')
    /\ Len(log') \in Nat /\ Len(log) \in Nat /\ Len(log') >= Len(log)
    /\ \A i \in 1 .. Len(log) : log'[i] = log[i]
    /\ \A m \in DOMAIN docs' \cap DOMAIN mail : m \in DOMAIN docs /\ docs'[m] = docs[m]

LEMMA ContentsFit ==
    ASSUME NEW c \in [ContentFields -> Nat]
    PROVE  SerializeWithin(c) \in [ContentFields -> Nat]
<1>1. ASSUME NEW s \in [ContentFields -> Nat], NEW F PROVE Within(MaxContent, s, F) \in [ContentFields -> Nat]
  BY DEF Within, Drop
<1> QED BY <1>1 DEF SerializeWithin

LEMMA InsertWrites ==
    ASSUME LogOK(log), MailOK(mail, docs, log), TodoOK(todo, mail, log),
           todo # <<>>, todo' = Tail(todo), Head(todo).op = "insert", Inserts(Head(todo).msg)
    PROVE  WroteWell
<1> DEFINE w == todo[1]
           m == w.msg
           r == MailRecord("INSERT", m, NoImage, Image(Letters[m].labels))
<1>1. todo \in Seq(Writes) /\ Head(todo) = w /\ w \in Writes /\ 1 \in 1 .. Len(todo)
  BY TailIs DEF TodoOK
<1>2. w.op = "insert" /\ m \in DOMAIN Letters /\ m \notin DOMAIN mail
  <2>1. Fits(todo, mail, log, 1)
    BY <1>1 DEF TodoOK
  <2> QED BY <1>1, <2>1 DEF Fits, Writes
<1> HIDE DEF m
<1>3. Letters[m].labels \subseteq STRING /\ "sent" \notin Letters[m].labels /\ Letters[m].content \in [ContentFields -> Nat]
  BY <1>2, LettersAreWellFormed
<1>4. r \in Records /\ r.table = "mail" /\ r.event = "INSERT" /\ r.msg = m /\ r.new.labels = Letters[m].labels
  BY <1>2, <1>3 DEF Records, MailRecords, MailRecord, NoImage, Image, Images, LabelStrings
<1> HIDE DEF r
<1>5. \A i \in 1 .. Len(log) : ~OfMail(log[i], m)
  BY <1>2 DEF MailOK, OfMail
<1>6. Follows(log, Len(log), r)
  BY <1>3, <1>4, <1>5 DEF Follows
<1>7. log' = Append(log, r)
  BY <1>1 DEF Inserts, r, m
<1>8. /\ LogOK(log') /\ Len(log') = Len(log) + 1 /\ Len(log) \in Nat
      /\ \A i \in 1 .. Len(log) : log'[i] = log[i]
      /\ log'[Len(log) + 1] = r
  BY <1>4, <1>6, <1>7, LogGrows
<1>9. /\ DOMAIN mail' = DOMAIN mail \cup {m} /\ mail'[m] = [labels |-> Letters[m].labels, ses |-> FALSE]
      /\ \A n \in DOMAIN mail : mail'[n] = mail[n]
      /\ DOMAIN docs' = DOMAIN docs \cup {m} /\ docs'[m] = SerializeWithin(Letters[m].content)
      /\ \A n \in DOMAIN docs : n # m => docs'[n] = docs[n]
  <2>1. docs' = Put(docs, m, SerializeWithin(Letters[m].content))
    BY <1>1 DEF Inserts, m
  <2>2. mail' = Put(mail, m, [labels |-> Letters[m].labels, ses |-> FALSE])
    BY <1>1 DEF Inserts, m
  <2>3. /\ DOMAIN mail' = DOMAIN mail \cup {m} /\ mail'[m] = [labels |-> Letters[m].labels, ses |-> FALSE]
        /\ \A n \in DOMAIN mail : n # m => mail'[n] = mail[n]
    BY <2>2 DEF Put
  <2>4. /\ DOMAIN docs' = DOMAIN docs \cup {m} /\ docs'[m] = SerializeWithin(Letters[m].content)
        /\ \A n \in DOMAIN docs : n # m => docs'[n] = docs[n]
    BY <2>1 DEF Put
  <2> QED BY <1>2, <2>3, <2>4
<1>10. MailOK(mail', docs', log')
  <2>1. DOMAIN mail' \subseteq DOMAIN Letters
    BY <1>2, <1>9 DEF MailOK
  <2>2. ASSUME NEW n \in DOMAIN mail'
        PROVE  /\ mail'[n] \in Items
               /\ "sent" \in mail'[n].labels <=> SentBy(log', n, Len(log'))
               /\ "queued" \in Letters[n].labels => mail'[n].labels \cap {"queued", "sent"} # {}
    <3>1. SentBy(log', n, Len(log')) <=> SentBy(log, n, Len(log))
      <4>1. "sent" \notin r.new.labels
        BY <1>3, <1>4
      <4>2. SentBy(log', n, Len(log')) <=> SentBy(log, n, Len(log)) \/ (OfMail(r, n) /\ "sent" \in r.new.labels)
        BY <1>8, SentByGrows
      <4> QED BY <4>1, <4>2
    <3>2. CASE n = m
      <4>1. ~SentBy(log, m, Len(log))
        BY <1>5 DEF SentBy
      <4>2. mail'[n] = [labels |-> Letters[m].labels, ses |-> FALSE]
        BY <1>9, <3>2
      <4>3. mail'[n].labels = Letters[m].labels /\ mail'[n] \in Items
        BY <1>3, <4>2 DEF Items, LabelStrings
      <4> QED BY <1>3, <3>1, <3>2, <4>1, <4>3
    <3>3. CASE n \in DOMAIN mail /\ n # m
      BY <1>9, <3>1, <3>3 DEF MailOK
    <3> QED BY <1>9, <3>2, <3>3
  <2>3. \A i \in 1 .. Len(log') : log'[i].table = "mail" => log'[i].msg \in DOMAIN mail'
    <3>1. \A i \in 1 .. Len(log) : log[i].table = "mail" => log[i].msg \in DOMAIN mail
      BY DEF MailOK
    <3> QED BY <1>4, <1>8, <1>9, <3>1
  <2>4. DOMAIN docs' \subseteq DOMAIN mail'
    BY <1>9 DEF MailOK
  <2>5. \A n \in DOMAIN docs' : docs'[n] \in [ContentFields -> Nat]
    <3>1. docs'[m] \in [ContentFields -> Nat]
      BY <1>3, <1>9, ContentsFit
    <3> QED BY <1>9, <3>1 DEF MailOK
  <2> QED BY <2>1, <2>2, <2>3, <2>4, <2>5 DEF MailOK
<1>11. TodoOK(todo', mail', log')
  <2>1. DOMAIN mail' = DOMAIN mail \cup (IF todo[1].op = "insert" THEN {todo[1].msg} ELSE {})
    BY <1>2, <1>9 DEF m
  <2>2. \A j \in 1 .. Len(log') : log'[j].table = "events" =>
           \E k \in 1 .. Len(log) : log[k].table = "events" /\ log[k].sns = log'[j].sns
    BY <1>4, <1>8
  <2> QED BY <2>1, <2>2, TailFits
<1>12. \A n \in DOMAIN docs' \cap DOMAIN mail : n \in DOMAIN docs /\ docs'[n] = docs[n]
  BY <1>2, <1>9
<1> QED BY <1>8, <1>10, <1>11, <1>12 DEF WroteWell

LEMMA RewriteWrites ==
    ASSUME LogOK(log), MailOK(mail, docs, log), TodoOK(todo, mail, log),
           todo # <<>>, todo' = Tail(todo), Head(todo).op \in {"mark", "label"},
           NEW relabelled \in SUBSET LabelStrings, NEW ses \in BOOLEAN, Rewrites(Head(todo).msg, relabelled, ses),
           "sent" \in mail[Head(todo).msg].labels => "sent" \in relabelled,
           "queued" \in Letters[Head(todo).msg].labels => relabelled \cap {"queued", "sent"} # {},
           "sent" \in relabelled =>
              "sent" \in mail[Head(todo).msg].labels \/ "queued" \in Letters[Head(todo).msg].labels
    PROVE  WroteWell
<1> DEFINE w == todo[1]
           m == w.msg
           r == MailRecord("MODIFY", m, Image(mail[m].labels), Image(relabelled))
<1>1. todo \in Seq(Writes) /\ Head(todo) = w /\ w \in Writes /\ 1 \in 1 .. Len(todo)
  BY TailIs DEF TodoOK
<1>2. w.op \in {"mark", "label"} /\ m \in DOMAIN mail /\ m \in DOMAIN Letters
  <2>1. Fits(todo, mail, log, 1)
    BY <1>1 DEF TodoOK
  <2> QED BY <1>1, <2>1 DEF Fits, MailOK
<1>3. mail[m] \in Items
  BY <1>2 DEF MailOK
<1>4. /\ "sent" \in mail[m].labels => "sent" \in relabelled
      /\ "queued" \in Letters[m].labels => relabelled \cap {"queued", "sent"} # {}
      /\ "sent" \in relabelled => "sent" \in mail[m].labels \/ "queued" \in Letters[m].labels
  BY <1>1
<1>5. /\ mail' = [mail EXCEPT ![m] = [labels |-> relabelled, ses |-> ses]]
      /\ log' = Append(log, r) /\ docs' = docs
  BY <1>1 DEF Rewrites
<1> HIDE DEF m
<1>6. /\ r \in Records /\ r.table = "mail" /\ r.event = "MODIFY" /\ r.msg = m /\ r.new.labels = relabelled
      /\ r.old.labels = mail[m].labels /\ r.old.readable = (mail[m].labels # {})
  BY <1>2, <1>3 DEF Records, MailRecords, MailRecord, Image, Images, Items
<1> HIDE DEF r
<1>7. "sent" \in mail[m].labels <=> SentBy(log, m, Len(log))
  BY <1>2 DEF MailOK
<1>8. Follows(log, Len(log), r)
  <2>1. IsSentRelabel(r) => r.old.readable
    <3>1. SUFFICES ASSUME "sent" \in relabelled, "sent" \notin mail[m].labels PROVE mail[m].labels # {}
      BY <1>6 DEF IsSentRelabel
    <3>2. "queued" \in Letters[m].labels
      BY <1>4, <3>1
    <3> QED BY <1>2, <3>2 DEF MailOK
  <2> QED BY <1>6, <1>7, <2>1 DEF Follows
<1>9. /\ LogOK(log') /\ Len(log') = Len(log) + 1 /\ Len(log) \in Nat
      /\ \A i \in 1 .. Len(log) : log'[i] = log[i]
      /\ log'[Len(log) + 1] = r
  BY <1>5, <1>6, <1>8, LogGrows
<1>10. /\ DOMAIN mail' = DOMAIN mail /\ mail'[m] = [labels |-> relabelled, ses |-> ses]
       /\ \A n \in DOMAIN mail : n # m => mail'[n] = mail[n]
  BY <1>2, <1>5
<1>11. MailOK(mail', docs', log')
  <2>1. ASSUME NEW n \in DOMAIN mail'
        PROVE  /\ mail'[n] \in Items
               /\ "sent" \in mail'[n].labels <=> SentBy(log', n, Len(log'))
               /\ "queued" \in Letters[n].labels => mail'[n].labels \cap {"queued", "sent"} # {}
    <3>1. SentBy(log', n, Len(log')) <=> SentBy(log, n, Len(log)) \/ (OfMail(r, n) /\ "sent" \in r.new.labels)
      BY <1>9, SentByGrows
    <3>2. CASE n = m
      <4>1. SentBy(log', m, Len(log')) <=> "sent" \in relabelled
        BY <1>4, <1>6, <1>7, <3>1, <3>2 DEF OfMail
      <4>2. mail'[n] = [labels |-> relabelled, ses |-> ses]
        BY <1>10, <3>2
      <4>3. mail'[n].labels = relabelled /\ mail'[n] \in Items
        BY <4>2 DEF Items
      <4> QED BY <1>4, <3>2, <4>1, <4>3
    <3>3. CASE n # m
      <4>1. n \in DOMAIN mail /\ mail'[n] = mail[n] /\ ~OfMail(r, n)
        BY <1>6, <1>10, <3>3 DEF OfMail
      <4> QED BY <3>1, <4>1 DEF MailOK
    <3> QED BY <3>2, <3>3
  <2>2. \A i \in 1 .. Len(log') : log'[i].table = "mail" => log'[i].msg \in DOMAIN mail'
    <3>1. \A i \in 1 .. Len(log) : log[i].table = "mail" => log[i].msg \in DOMAIN mail
      BY DEF MailOK
    <3> QED BY <1>2, <1>6, <1>9, <1>10, <3>1
  <2>3. DOMAIN mail' \subseteq DOMAIN Letters /\ DOMAIN docs' \subseteq DOMAIN mail'
    BY <1>5, <1>10 DEF MailOK
  <2>4. \A n \in DOMAIN docs' : docs'[n] \in [ContentFields -> Nat]
    BY <1>5 DEF MailOK
  <2> QED BY <2>1, <2>2, <2>3, <2>4 DEF MailOK
<1>12. TodoOK(todo', mail', log')
  <2>1. DOMAIN mail' = DOMAIN mail \cup (IF todo[1].op = "insert" THEN {todo[1].msg} ELSE {})
    BY <1>2, <1>10
  <2>2. \A j \in 1 .. Len(log') : log'[j].table = "events" =>
           \E k \in 1 .. Len(log) : log[k].table = "events" /\ log[k].sns = log'[j].sns
    BY <1>6, <1>9
  <2> QED BY <2>1, <2>2, TailFits
<1> QED BY <1>5, <1>9, <1>11, <1>12 DEF WroteWell

LEMMA EventWrites ==
    ASSUME LogOK(log), MailOK(mail, docs, log), TodoOK(todo, mail, log),
           todo # <<>>, todo' = Tail(todo), Head(todo).op = "event",
           RecordsEvent(Head(todo).record)
    PROVE  WroteWell
<1> DEFINE w == todo[1]
           r == NotificationRecord(w.record)
<1>1. todo \in Seq(Writes) /\ Head(todo) = w /\ w \in Writes /\ 1 \in 1 .. Len(todo)
  BY TailIs DEF TodoOK
<1>2. /\ w.op = "event" /\ w.record \in Notifications
      /\ \A j \in 1 .. Len(log) : log[j].table = "events" => log[j].sns # w.record.sns
  <2>1. Fits(todo, mail, log, 1)
    BY <1>1 DEF TodoOK
  <2> QED BY <1>1, <2>1 DEF Fits, Writes
<1>3. r \in EventRecords /\ r.table = "events" /\ r.sns = w.record.sns
  BY <1>2 DEF EventRecords, NotificationRecord, Notifications, OutboundSizes
<1>4. log' = Append(log, r) /\ mail' = mail /\ docs' = docs
  BY <1>1 DEF RecordsEvent
<1> HIDE DEF r
<1>5. r \in Records
  BY <1>3 DEF Records
<1>6. Follows(log, Len(log), r)
  BY <1>2, <1>3 DEF Follows
<1>7. /\ LogOK(log') /\ Len(log') = Len(log) + 1 /\ Len(log) \in Nat
      /\ \A i \in 1 .. Len(log) : log'[i] = log[i]
      /\ log'[Len(log) + 1] = r
  BY <1>4, <1>5, <1>6, LogGrows
<1>8. MailOK(mail', docs', log')
  <2>1. ASSUME NEW n PROVE SentBy(log', n, Len(log')) <=> SentBy(log, n, Len(log))
    <3>1. SentBy(log', n, Len(log')) <=> SentBy(log, n, Len(log)) \/ (OfMail(r, n) /\ "sent" \in r.new.labels)
      BY <1>7, SentByGrows
    <3>2. ~OfMail(r, n)
      BY <1>3 DEF OfMail
    <3> QED BY <3>1, <3>2
  <2>2. \A i \in 1 .. Len(log') : log'[i].table = "mail" => log'[i].msg \in DOMAIN mail
    <3>1. \A i \in 1 .. Len(log) : log[i].table = "mail" => log[i].msg \in DOMAIN mail
      BY DEF MailOK
    <3> QED BY <1>3, <1>7, <3>1
  <2> QED BY <1>4, <2>1, <2>2 DEF MailOK
<1>9. TodoOK(todo', mail', log')
  <2>1. DOMAIN mail' = DOMAIN mail \cup (IF todo[1].op = "insert" THEN {todo[1].msg} ELSE {})
    BY <1>2, <1>4
  <2>2. \A j \in 1 .. Len(log') : log'[j].table = "events" =>
           \/ \E k \in 1 .. Len(log) : log[k].table = "events" /\ log[k].sns = log'[j].sns
           \/ todo[1].op = "event" /\ log'[j].sns = todo[1].record.sns
    BY <1>2, <1>3, <1>7
  <2> QED BY <2>1, <2>2, TailFits
<1> QED BY <1>4, <1>7, <1>8, <1>9 DEF WroteWell

LEMMA MailWrites ==
    ASSUME LogOK(log), MailOK(mail, docs, log), TodoOK(todo, mail, log), MailWrite
    PROVE  WroteWell
<1> DEFINE w == Head(todo)
<1>1. /\ todo # <<>> /\ todo' = Tail(todo)
      /\ \/ w.op = "insert" /\ Inserts(w.msg)
         \/ w.op = "mark" /\ Rewrites(w.msg, (mail[w.msg].labels \ {"queued"}) \cup {"sent"}, TRUE)
         \/ w.op = "label" /\ Rewrites(w.msg, (mail[w.msg].labels \cup w.add) \ w.remove, mail[w.msg].ses)
         \/ w.op = "event" /\ RecordsEvent(w.record)
  BY DEF MailWrite
<1>2. todo \in Seq(Writes) /\ w = todo[1] /\ w \in Writes /\ 1 \in 1 .. Len(todo)
  BY <1>1, TailIs DEF TodoOK
<1>3. Fits(todo, mail, log, 1)
  BY <1>2 DEF TodoOK
<1> HIDE DEF w
<1>4. ASSUME w.op \in {"mark", "label"}
      PROVE  /\ w.msg \in DOMAIN mail /\ mail[w.msg].labels \subseteq LabelStrings /\ mail[w.msg].ses \in BOOLEAN
             /\ "queued" \in Letters[w.msg].labels => mail[w.msg].labels \cap {"queued", "sent"} # {}
  <2>1. w.msg \in DOMAIN mail
    BY <1>2, <1>3, <1>4 DEF Fits
  <2>2. mail[w.msg] \in Items
    BY <2>1 DEF MailOK
  <2> QED BY <2>1, <2>2 DEF MailOK, Items
<1>5. CASE w.op = "insert"
  BY <1>1, <1>5, InsertWrites DEF w
<1>6. CASE w.op = "mark"
  <2> DEFINE relabelled == (mail[w.msg].labels \ {"queued"}) \cup {"sent"}
  <2>1. relabelled \in SUBSET LabelStrings
    <3>1. mail[w.msg].labels \subseteq LabelStrings
      BY <1>4, <1>6
    <3>2. "sent" \in LabelStrings
      BY DEF LabelStrings, Reserved
    <3> QED BY <3>1, <3>2
  <2>2. "queued" \in Letters[w.msg].labels
    BY <1>2, <1>6 DEF Writes
  <2>3. Rewrites(w.msg, relabelled, TRUE)
    BY <1>1, <1>6
  <2>4. "sent" \in relabelled /\ relabelled \cap {"queued", "sent"} # {}
    OBVIOUS
  <2> HIDE DEF relabelled
  <2> QED BY <1>1, <1>6, <2>1, <2>2, <2>3, <2>4, RewriteWrites DEF w
<1>7. CASE w.op = "label"
  <2> DEFINE relabelled == (mail[w.msg].labels \cup w.add) \ w.remove
  <2>1. w.add \subseteq STRING \ Reserved /\ w.remove \subseteq STRING \ Reserved
    BY <1>2, <1>7 DEF Writes
  <2>2. relabelled \in SUBSET LabelStrings
    BY <1>4, <1>7, <2>1 DEF LabelStrings
  <2>3. /\ "sent" \in mail[w.msg].labels <=> "sent" \in relabelled
        /\ "queued" \in mail[w.msg].labels <=> "queued" \in relabelled
    BY <2>1 DEF Reserved
  <2>4. Rewrites(w.msg, relabelled, mail[w.msg].ses)
    BY <1>1, <1>7
  <2> HIDE DEF relabelled
  <2>5. "queued" \in Letters[w.msg].labels => relabelled \cap {"queued", "sent"} # {}
    BY <1>4, <1>7, <2>3
  <2> QED BY <1>1, <1>4, <1>7, <2>2, <2>3, <2>4, <2>5, RewriteWrites DEF w
<1>8. CASE w.op = "event"
  BY <1>1, <1>8, EventWrites DEF w
<1> QED BY <1>1, <1>5, <1>6, <1>7, <1>8

-----------------------------------------------------------------------------
(***************************************************************************)
(* What the relay has done stands while the tables change.                 *)
(***************************************************************************)

LEMMA CutStays ==
    ASSUME NEW r, NEW what, NEW sizes, NEW ds, NEW dt, CutAsItShould(r, what, sizes, ds),
           r.table = "mail" /\ r.msg \in DOMAIN dt => r.msg \in DOMAIN ds /\ dt[r.msg] = ds[r.msg]
    PROVE  CutAsItShould(r, what, sizes, dt)
BY DEF CutAsItShould

LEMMA TablesChange ==
    ASSUME MailRelayInv, WroteWell, UNCHANGED <<work, passed, attempts, entries, poisoned, busFaults>>
    PROVE  FaultsOK' /\ WorkOK' /\ EntriesOK' /\ PassedOK'
<1>1. /\ Len(log') \in Nat /\ Len(log) \in Nat /\ Len(log') >= Len(log)
      /\ \A i \in 1 .. Len(log) : log'[i] = log[i]
  BY DEF WroteWell
<1>2. ASSUME NEW i \in 1 .. Len(log), log[i].table = "mail", log[i].msg \in DOMAIN docs'
      PROVE  log[i].msg \in DOMAIN docs /\ docs'[log[i].msg] = docs[log[i].msg]
  <2>1. log[i].msg \in DOMAIN mail
    BY <1>2 DEF MailRelayInv, MailOK
  <2> QED BY <1>2, <2>1 DEF WroteWell
<1>3. ASSUME NEW i \in 1 .. Len(log), NEW e, Good(log[i], e, docs) PROVE Good(log[i], e, docs')
  <2>1. CutAsItShould(log[i], e.type, e.sizes, docs')
    BY <1>2, <1>3, CutStays DEF Good
  <2> QED BY <1>3, <2>1 DEF Good
<1>4. FaultsOK'
  BY <1>1 DEF FaultsOK, MailRelayInv
<1>5. \A i, what : Told(i, what)' <=> Told(i, what)
  BY DEF Told
<1>6. WorkOK'
  <2>1. ASSUME NEW i \in 1 .. Len(log), Hand(i) PROVE Hand(i)'
    <3>1. log'[i] = log[i]
      BY <1>1
    <3>2. \A e \in work.event : Good(log[i], e, docs')
      BY <1>3, <2>1 DEF Hand
    <3> QED BY <1>5, <2>1, <3>1, <3>2 DEF Hand
  <2>2. WorkOK
    BY DEF MailRelayInv
  <2>3. CASE work.step = "rest"
    BY <2>2, <2>3 DEF WorkOK
  <2>4. CASE work.step # "rest"
    <3>1. passed < Len(log) /\ passed \in Nat /\ \A i \in 1 .. Len(log) : i = passed + 1 => Hand(i)
      BY <1>1, <2>2, <2>4 DEF WorkOK, MailRelayInv, FaultsOK
    <3>2. passed + 1 \in 1 .. Len(log) /\ passed < Len(log')
      BY <1>1, <3>1
    <3>3. Hand(passed + 1)'
      BY <2>1, <3>1, <3>2
    <3> QED BY <2>2, <3>2, <3>3 DEF WorkOK
  <2> QED BY <2>3, <2>4
<1>7. EntriesOK'
  <2>1. EntriesOK
    BY DEF MailRelayInv
  <2>2. ASSUME NEW k \in 1 .. Len(entries)
        PROVE  /\ entries[k].rec \in 1 .. Len(log')
               /\ Announces(log'[entries[k].rec], entries[k].what, entries[k].id)
               /\ CutAsItShould(log'[entries[k].rec], entries[k].what, entries[k].sizes, docs')
    <3> DEFINE i == entries[k].rec
    <3>1. i \in 1 .. Len(log) /\ Announces(log[i], entries[k].what, entries[k].id)
          /\ CutAsItShould(log[i], entries[k].what, entries[k].sizes, docs)
      BY <2>1 DEF EntriesOK
    <3> HIDE DEF i
    <3>2. CutAsItShould(log[i], entries[k].what, entries[k].sizes, docs')
      BY <1>2, <3>1, CutStays
    <3>3. i \in 1 .. Len(log') /\ log'[i] = log[i]
      BY <1>1, <3>1
    <3> QED BY <3>1, <3>2, <3>3 DEF i
  <2> QED BY <2>1, <2>2 DEF EntriesOK
<1>8. PassedOK'
  <2>1. ASSUME NEW i \in (1 .. passed) \ poisoned PROVE log'[i] = log[i]
    BY <1>1 DEF MailRelayInv, FaultsOK
  <2> QED BY <1>5, <2>1 DEF PassedOK, MailRelayInv
<1> QED BY <1>4, <1>6, <1>7, <1>8

-----------------------------------------------------------------------------
(***************************************************************************)
(* The relay's steps.                                                      *)
(***************************************************************************)

\* What a step of the relay owes, the tables unchanged.
RelayedWell == FaultsOK' /\ WorkOK' /\ EntriesOK' /\ PassedOK'

ToldStays == \A i, what : Told(i, what) => Told(i, what)'

Accepts == entries' = Append(entries, EntryToPut)

LEMMA InHandIs ==
    ASSUME MailRelayInv, passed < Len(log)
    PROVE  /\ passed + 1 \in 1 .. Len(log) /\ InHand = log[passed + 1] /\ InHand \in Records
           /\ InHand.table = "mail" => InHand \in MailRecords /\ InHand.msg \in DOMAIN mail
           /\ InHand.table # "mail" => InHand \in EventRecords /\ InHand.table = "events"
<1>1. log \in Seq(Records) /\ passed \in Nat /\ Len(log) \in Nat
  BY DEF MailRelayInv, LogOK, FaultsOK
<1>2. passed + 1 \in 1 .. Len(log)
  BY <1>1
<1>3. InHand \in Records
  BY <1>1, <1>2 DEF InHand
<1>4. InHand.table = "mail" => InHand.msg \in DOMAIN mail
  BY <1>2 DEF MailRelayInv, MailOK, InHand
<1> QED BY <1>2, <1>3, <1>4 DEF InHand, Records, MailRecords, EventRecords

LEMMA SettlesWell ==
    ASSUME MailRelayInv, passed < Len(log), Settled, UNCHANGED <<log, docs, poisoned, busFaults>>, ToldStays,
           \A i, what : i = passed + 1 /\ what \in HappensIn(InHand) => Told(i, what)'
    PROVE  FaultsOK' /\ WorkOK' /\ PassedOK'
<1>1. /\ work' = AtRest /\ passed' = passed + 1 /\ attempts' = 0
      /\ log' = log /\ poisoned' = poisoned /\ busFaults' = busFaults
  BY DEF Settled
<1>2. passed \in Nat /\ Len(log) \in Nat /\ FaultsOK
  BY InHandIs DEF MailRelayInv, FaultsOK, LogOK
<1>3. FaultsOK'
  <2>1. passed' \in 0 .. Len(log') /\ poisoned' \subseteq 1 .. passed'
    BY <1>1, <1>2 DEF FaultsOK
  <2>2. IsFiniteSet(poisoned) /\ Cardinality(poisoned) \in Nat
    <3>1. passed \in Nat /\ poisoned \subseteq 1 .. passed
      BY <1>2 DEF FaultsOK, MailRelayInv, LogOK
    <3>2. IsFiniteSet(1 .. passed)
      BY <3>1, FS_Interval
    <3> QED BY <3>1, <3>2, FS_Subset, FS_CardinalityType
  <2> DEFINE P == Cardinality(poisoned) * MaxAttempts
  <2>3. P \in Nat
    BY <2>2, SizesAreBounded
  <2>4. P + attempts <= busFaults /\ attempts \in Nat /\ busFaults \in Nat
    BY <1>2 DEF FaultsOK
  <2>5. P' = P
    BY <1>1
  <2> HIDE DEF P
  <2>6. P' + attempts' <= busFaults' /\ attempts' \in Nat /\ busFaults' \in Nat
    BY <1>1, <2>3, <2>4, <2>5
  <2>7. attempts' > 0 => passed' < Len(log')
    BY <1>1
  <2> QED BY <2>1, <2>6, <2>7 DEF FaultsOK, P
<1>4. WorkOK'
  BY <1>1 DEF WorkOK, AtRest
<1>5. PassedOK'
  <2>1. ASSUME NEW i \in (1 .. passed') \ poisoned', NEW what \in HappensIn(log'[i]) PROVE Told(i, what)'
    <3>1. CASE i = passed + 1
      BY <1>1, <2>1, <3>1 DEF InHand
    <3>2. CASE i # passed + 1
      <4>1. i \in (1 .. passed) \ poisoned /\ what \in HappensIn(log[i])
        BY <1>1, <1>2, <2>1, <3>2
      <4>2. Told(i, what)
        BY <4>1 DEF MailRelayInv, PassedOK
      <4> QED BY <4>2 DEF ToldStays
    <3> QED BY <3>1, <3>2
  <2> QED BY <2>1 DEF PassedOK
<1> QED BY <1>3, <1>4, <1>5

LEMMA RetriesWell ==
    ASSUME MailRelayInv, passed < Len(log), Retry, busFaults' = busFaults + 1, UNCHANGED <<log, docs, poisoned>>, ToldStays
    PROVE  FaultsOK' /\ WorkOK' /\ PassedOK'
<1>1. /\ work' = AtRest /\ passed' = passed /\ attempts' = attempts + 1
      /\ log' = log /\ poisoned' = poisoned
  BY DEF Retry
<1>2. FaultsOK
  BY DEF MailRelayInv
<1>3. FaultsOK'
  <2>1. passed' \in 0 .. Len(log') /\ poisoned' \subseteq 1 .. passed'
    BY <1>1, <1>2 DEF FaultsOK
  <2>2. IsFiniteSet(poisoned) /\ Cardinality(poisoned) \in Nat
    <3>1. passed \in Nat /\ poisoned \subseteq 1 .. passed
      BY <1>2 DEF FaultsOK, MailRelayInv, LogOK
    <3>2. IsFiniteSet(1 .. passed)
      BY <3>1, FS_Interval
    <3> QED BY <3>1, <3>2, FS_Subset, FS_CardinalityType
  <2> DEFINE P == Cardinality(poisoned) * MaxAttempts
  <2>3. P \in Nat
    BY <2>2, SizesAreBounded
  <2>4. P + attempts <= busFaults /\ attempts \in Nat /\ busFaults \in Nat
    BY <1>2 DEF FaultsOK
  <2>5. P' = P
    BY <1>1
  <2> HIDE DEF P
  <2>6. P' + attempts' <= busFaults' /\ attempts' \in Nat /\ busFaults' \in Nat
    BY <1>1, <2>3, <2>4, <2>5
  <2>7. attempts' > 0 => passed' < Len(log')
    BY <1>1
  <2> QED BY <2>1, <2>6, <2>7 DEF FaultsOK, P
<1>4. WorkOK'
  BY <1>1 DEF WorkOK, AtRest
<1>5. PassedOK'
  BY <1>1 DEF MailRelayInv, PassedOK, ToldStays
<1> QED BY <1>3, <1>4, <1>5

\* The entry the step in hand puts is one the record may announce, fits, and with
\* the one before is all there is to announce.
LEMMA EntryInHand ==
    ASSUME MailRelayInv, work.step \in {"outbound", "mail"}
    PROVE  /\ passed < Len(log) /\ EntryToPut.rec = passed + 1
           /\ Announces(InHand, EntryToPut.what, EntryToPut.id)
           /\ CutAsItShould(InHand, EntryToPut.what, EntryToPut.sizes, docs)
           /\ Total(EntryToPut.sizes) <= EntryCap
           /\ work.step = "outbound" => InHand.table = "events" /\ EntryToPut.what = "event"
           /\ work.step = "mail" =>
                 \A what \in HappensIn(InHand) : Told(passed + 1, what) \/ what = EntryToPut.what
<1>1. passed < Len(log) /\ \A i \in 1 .. Len(log) : i = passed + 1 => Hand(i)
  BY DEF MailRelayInv, WorkOK
<1>2. /\ passed + 1 \in 1 .. Len(log) /\ InHand = log[passed + 1]
      /\ InHand.table = "mail" => InHand \in MailRecords
      /\ InHand.table # "mail" => InHand \in EventRecords /\ InHand.table = "events"
  BY <1>1, InHandIs
<1>3. Hand(passed + 1)
  BY <1>1, <1>2
<1>4. CASE work.step = "outbound"
  <2>1. InHand.table = "events" /\ InHand \in EventRecords
    BY <1>2, <1>3, <1>4 DEF Hand
  <2>2. EntryToPut = [rec |-> passed + 1, what |-> "event", sizes |-> BuildOutbound(InHand.sizes), id |-> <<InHand.sns>>]
    BY <1>4 DEF EntryToPut, Entry
  <2>3. InHand.sizes \in OutboundSizes /\ InHand.sizes.kept + PointerSize <= EntryCap
    BY <2>1 DEF EventRecords
  <2> DEFINE s == InHand.sizes
             b == BuildOutbound(s)
  <2>4. /\ Total(b) <= EntryCap /\ b.kept = s.kept
        /\ b.payload # s.payload => s.payload + s.extra + s.kept > MaxDetailSize
        /\ b.extra # s.extra => b.payload = PointerSize
    BY <2>3, OutboundFits
  <2> HIDE DEF b
  <2>5. EntryToPut = [rec |-> passed + 1, what |-> "event", sizes |-> b, id |-> <<InHand.sns>>]
    BY <2>2 DEF b
  <2>6. Announces(InHand, "event", <<InHand.sns>>)
    BY <2>1 DEF Announces
  <2>7. CutAsItShould(InHand, "event", b, docs)
    BY <2>4 DEF CutAsItShould
  <2> HIDE DEF s
  <2> QED BY <1>1, <1>4, <2>1, <2>4, <2>5, <2>6, <2>7
<1>5. CASE work.step = "mail"
  <2> DEFINE e == CHOOSE e \in work.event : TRUE
  <2>1. e \in work.event
    BY <1>3, <1>5 DEF Hand
  <2>2. EntryToPut = [rec |-> passed + 1, what |-> e.type, sizes |-> e.sizes, id |-> e.id]
    BY <1>5 DEF EntryToPut, Entry
  <2> HIDE DEF e
  <2>3. Good(InHand, e, docs)
    BY <1>2, <1>3, <2>1 DEF Hand
  <2>4. \A what \in HappensIn(InHand) : Told(passed + 1, what) \/ what = e.type
    <3>1. CASE InHand.table = "events"
      BY <1>2, <1>3, <1>5, <3>1 DEF Hand, HappensIn
    <3>2. CASE InHand.table = "mail" /\ InHand.event = "INSERT"
      BY <2>3, <3>2 DEF Good, Announces, HappensIn
    <3>3. CASE InHand.table = "mail" /\ InHand.event = "MODIFY"
      BY <2>3, <3>3 DEF Good, Announces, HappensIn
    <3> QED BY <1>2, <3>1, <3>2, <3>3 DEF MailRecords
  <2> QED BY <1>1, <1>5, <2>2, <2>3, <2>4 DEF Good
<1> QED BY <1>4, <1>5

LEMMA EntryTold ==
    ASSUME MailRelayInv, work.step \in {"outbound", "mail"}, Accepts, UNCHANGED <<log, docs>>
    PROVE  /\ EntriesOK' /\ ToldStays
           /\ \A i, what : i = passed + 1 /\ what = EntryToPut.what => Told(i, what)'
<1> DEFINE e == EntryToPut
           n == Len(entries)
<1>1. /\ e.rec = passed + 1 /\ e.rec \in 1 .. Len(log)
      /\ Announces(log[e.rec], e.what, e.id) /\ CutAsItShould(log[e.rec], e.what, e.sizes, docs)
  BY EntryInHand, InHandIs DEF InHand
<1>2. entries' = Append(entries, e) /\ log' = log /\ docs' = docs
  BY DEF Accepts
<1> HIDE DEF e
<1>3. EntriesOK
  BY DEF MailRelayInv
<1> DEFINE S == {entries[k] : k \in 1 .. n}
<1>4. entries \in Seq(S)
  BY <1>3 DEF EntriesOK, IsSeq
<1>5. /\ entries' \in Seq(S \cup {e}) /\ Len(entries') = n + 1 /\ n \in Nat
      /\ \A k \in 1 .. n : entries'[k] = entries[k]
      /\ entries'[n + 1] = e
  <2> HIDE DEF S
  <2> QED BY <1>2, <1>4, AppendIs
<1> HIDE DEF n
<1>6. S \cup {e} = {entries'[k] : k \in 1 .. Len(entries')}
  BY <1>5
<1>7. IsSeq(entries')
  <2> HIDE DEF S
  <2> QED BY <1>5, <1>6 DEF IsSeq
<1>8. ASSUME NEW k \in 1 .. Len(entries')
      PROVE  /\ entries'[k].rec \in 1 .. Len(log)
             /\ Announces(log[entries'[k].rec], entries'[k].what, entries'[k].id)
             /\ CutAsItShould(log[entries'[k].rec], entries'[k].what, entries'[k].sizes, docs)
  <2>1. CASE k \in 1 .. n
    BY <1>3, <1>5, <2>1 DEF EntriesOK, n
  <2>2. CASE k = n + 1
    BY <1>1, <1>5, <2>2
  <2> QED BY <1>5, <2>1, <2>2
<1>9. EntriesOK'
  BY <1>2, <1>7, <1>8 DEF EntriesOK
<1>10. ToldStays
  <2>1. ASSUME NEW i, NEW what, Told(i, what) PROVE Told(i, what)'
    <3>1. PICK k \in 1 .. n : entries[k].rec = i /\ entries[k].what = what
      BY <2>1 DEF Told, n
    <3>2. k \in 1 .. Len(entries') /\ entries'[k].rec = i /\ entries'[k].what = what
      BY <1>5, <3>1
    <3> QED BY <3>2 DEF Told
  <2> QED BY <2>1 DEF ToldStays
<1>11. \A i, what : e.rec = i /\ e.what = what => Told(i, what)'
  <2>1. n + 1 \in 1 .. Len(entries')
    BY <1>5
  <2> QED BY <1>5, <2>1 DEF Told
<1> QED BY <1>1, <1>9, <1>10, <1>11 DEF e

NowAt(step, told) == work' = [step |-> step, event |-> told]

LEMMA MovesOn ==
    ASSUME MailRelayInv, passed < Len(log), UNCHANGED <<log, docs, passed, attempts, poisoned, busFaults>>, ToldStays,
           NEW step \in {"load", "resolve", "outbound", "mail"}, NEW told, NowAt(step, told),
           step = "load" => InHand.table = "mail" /\ InHand.event = "INSERT" /\ "received" \in InHand.new.labels,
           step \in {"resolve", "outbound"} => InHand.table = "events",
           step = "mail" => told # {} /\ (InHand.table = "events" => \A i : i = passed + 1 => Told(i, "event")'),
           \A e \in told : Good(InHand, e, docs)
    PROVE  FaultsOK' /\ WorkOK' /\ PassedOK'
<1>1. /\ work' = [step |-> step, event |-> told] /\ work'.step = step /\ work'.event = told
      /\ log' = log /\ docs' = docs /\ passed' = passed
  BY DEF NowAt
<1>2. FaultsOK'
  BY DEF MailRelayInv, FaultsOK
<1>3. passed + 1 \in 1 .. Len(log) /\ InHand = log[passed + 1]
  BY InHandIs
<1>4. ASSUME NEW i \in 1 .. Len(log), i = passed + 1 PROVE Hand(i)'
  <2>1. log'[i] = InHand
    BY <1>1, <1>3, <1>4
  <2>2. \A e \in work'.event : Good(log'[i], e, docs')
    BY <1>1, <2>1
  <2>3. work'.step = "mail" => work'.event # {} /\ (log'[i].table = "events" => Told(i, "event")')
    BY <1>1, <1>4, <2>1
  <2> QED BY <1>1, <2>1, <2>2, <2>3 DEF Hand
<1>5. WorkOK'
  BY <1>1, <1>4 DEF WorkOK
<1>6. PassedOK'
  BY <1>1 DEF MailRelayInv, PassedOK, ToldStays
<1> QED BY <1>2, <1>5, <1>6

LEMMA NothingPut ==
    ASSUME MailRelayInv, UNCHANGED <<log, docs, entries>>
    PROVE  EntriesOK' /\ ToldStays
<1>1. EntriesOK'
  BY DEF MailRelayInv, EntriesOK
<1> QED BY <1>1 DEF ToldStays, Told

LEMMA WorkIs ==
    ASSUME MailRelayInv
    PROVE  /\ work = [step |-> work.step, event |-> work.event]
           /\ work = AtRest => work.step = "rest" /\ work.event = {}
           /\ work.step # "rest" => passed < Len(log) /\ \A i : i = passed + 1 => Hand(i)
<1>1. work.step # "rest" => passed < Len(log) /\ \A i \in 1 .. Len(log) : i = passed + 1 => Hand(i)
  BY DEF MailRelayInv, WorkOK
<1>2. work.step # "rest" => \A i : i = passed + 1 => Hand(i)
  BY <1>1, InHandIs
<1> QED BY <1>1, <1>2 DEF MailRelayInv, WorkOK, AtRest

LEMMA TakesWell ==
    ASSUME MailRelayInv, TakesRecord
    PROVE  RelayedWell
<1> DEFINE r == InHand
<1>1. /\ work = AtRest /\ passed < Len(log)
      /\ UNCHANGED <<log, docs, entries, poisoned, busFaults>>
      /\ IF r.table = "events" THEN Proceeds(IF r.kind = "other" THEN "outbound" ELSE "resolve")
         ELSE IF r.event = "INSERT"
         THEN IF "received" \in r.new.labels THEN Proceeds("load") ELSE Settled
         ELSE IF ~r.old.readable THEN Settled ELSE PublishesMail(BuildSentEvent(r))
  BY DEF TakesRecord
<1>2. EntriesOK' /\ ToldStays
  BY <1>1, NothingPut
<1>3. work.step = "rest" /\ work.event = {}
  BY <1>1, WorkIs
<1>4. ASSUME NEW step, Proceeds(step)
      PROVE  NowAt(step, {}) /\ UNCHANGED <<passed, attempts>>
  <2>1. work = [step |-> "rest", event |-> {}]
    BY <1>1 DEF AtRest
  <2> QED BY <1>4, <2>1 DEF Proceeds, NowAt
<1>5. /\ r = log[passed + 1] /\ passed + 1 \in 1 .. Len(log)
      /\ r.table = "mail" => r \in MailRecords
      /\ r.table # "mail" => r \in EventRecords /\ r.table = "events"
  BY <1>1, InHandIs
<1>6. Follows(log, passed, r)
  BY <1>5 DEF MailRelayInv, LogOK, FaultsOK
<1> HIDE DEF r
<1>7. ASSUME NEW step \in {"load", "resolve", "outbound"}, Proceeds(step),
             step = "load" => r.table = "mail" /\ r.event = "INSERT" /\ "received" \in r.new.labels,
             step \in {"resolve", "outbound"} => r.table = "events"
      PROVE  RelayedWell
  <2>1. NowAt(step, {}) /\ UNCHANGED <<passed, attempts>>
    BY <1>4, <1>7
  <2>2. UNCHANGED <<log, docs, passed, attempts, poisoned, busFaults>>
    BY <1>1, <2>1
  <2>3. FaultsOK' /\ WorkOK' /\ PassedOK'
    BY <1>1, <1>2, <1>7, <2>1, <2>2, MovesOn DEF r
  <2> QED BY <1>2, <2>3 DEF RelayedWell
<1>8. ASSUME Settled, HappensIn(r) = {} PROVE RelayedWell
  <2>1. FaultsOK' /\ WorkOK' /\ PassedOK'
    BY <1>1, <1>2, <1>8, SettlesWell DEF r
  <2> QED BY <1>2, <2>1 DEF RelayedWell
<1>9. CASE r.table = "events"
  <2>1. PICK step \in {"resolve", "outbound"} : Proceeds(step)
    BY <1>1, <1>9
  <2> QED BY <1>7, <1>9, <2>1
<1>10. CASE r.table = "mail" /\ r.event = "INSERT"
  <2>1. CASE "received" \in r.new.labels
    <3>1. Proceeds("load")
      BY <1>1, <1>10, <2>1
    <3> QED BY <1>7, <1>10, <2>1, <3>1
  <2>2. CASE "received" \notin r.new.labels
    BY <1>1, <1>8, <1>10, <2>2 DEF HappensIn
  <2> QED BY <2>1, <2>2
<1>11. CASE r.table = "mail" /\ r.event = "MODIFY"
  <2>1. (BuildSentEvent(r) # {} <=> IsSentRelabel(r)) /\ \A e \in BuildSentEvent(r) : Good(r, e, docs)
    BY <1>5, <1>11, SentBuilt
  <2>2. IsSentRelabel(r) => r.old.readable
    BY <1>6, <1>11 DEF Follows
  <2>3. CASE ~IsSentRelabel(r)
    <3>1. Settled
      BY <1>1, <1>11, <2>1, <2>3 DEF PublishesMail
    <3>2. HappensIn(r) = {}
      BY <1>11, <2>3 DEF HappensIn
    <3> QED BY <1>8, <3>1, <3>2
  <2>4. CASE IsSentRelabel(r)
    <3>1. PublishesMail(BuildSentEvent(r)) /\ BuildSentEvent(r) # {}
      BY <1>1, <1>11, <2>1, <2>2, <2>4
    <3> DEFINE told == BuildSentEvent(r)
    <3> HIDE DEF told
    <3>2. work' = [work EXCEPT !.step = "mail", !.event = told] /\ UNCHANGED <<passed, attempts>>
      BY <3>1 DEF PublishesMail, told
    <3>3. NowAt("mail", told)
      <4>1. work = [step |-> "rest", event |-> {}]
        BY <1>1 DEF AtRest
      <4> QED BY <3>2, <4>1 DEF NowAt
    <3>4. UNCHANGED <<log, docs, passed, attempts, poisoned, busFaults>>
      BY <1>1, <3>2
    <3>5. told # {} /\ \A e \in told : Good(r, e, docs)
      BY <2>1, <3>1 DEF told
    <3>6. FaultsOK' /\ WorkOK' /\ PassedOK'
      BY <1>1, <1>2, <1>11, <3>3, <3>4, <3>5, MovesOn DEF r
    <3> QED BY <1>2, <3>6 DEF RelayedWell
  <2> QED BY <2>3, <2>4
<1> QED BY <1>5, <1>9, <1>10, <1>11 DEF MailRecords

LEMMA LoadsWell ==
    ASSUME MailRelayInv, LoadsContent
    PROVE  RelayedWell
<1> DEFINE m == InHand.msg
           content == IF m \in DOMAIN docs /\ Total(docs[m]) <= MaxContent THEN docs[m] ELSE NoContent
           told == BuildReceivedEvent(InHand, content)
<1>1. work.step = "load" /\ PublishesMail(told) /\ UNCHANGED <<log, docs, entries, poisoned, busFaults>>
  BY DEF LoadsContent
<1>2. EntriesOK' /\ ToldStays
  BY <1>1, NothingPut
<1>3. passed < Len(log) /\ \A i : i = passed + 1 => Hand(i)
  BY <1>1, WorkIs
<1>4. /\ InHand.table = "mail" /\ InHand.event = "INSERT" /\ "received" \in InHand.new.labels
      /\ InHand \in MailRecords
  BY <1>1, <1>3, InHandIs DEF Hand
<1>5. content \in [ContentFields -> Nat]
  <2>1. NoContent \in [ContentFields -> Nat]
    BY DEF NoContent
  <2>2. m \in DOMAIN docs => docs[m] \in [ContentFields -> Nat]
    BY DEF MailRelayInv, MailOK
  <2> QED BY <2>1, <2>2
<1>6. m \in DOMAIN docs => content = docs[m] \/ content = NoContent
  OBVIOUS
<1> HIDE DEF content
<1>7. told # {} /\ \A e \in told : Good(InHand, e, docs)
  BY <1>4, <1>5, <1>6, ReceivedBuilt
<1> HIDE DEF told
<1>8. NowAt("mail", told) /\ UNCHANGED <<passed, attempts>>
  <2>1. work' = [work EXCEPT !.step = "mail", !.event = told] /\ UNCHANGED <<passed, attempts>>
    BY <1>1, <1>7 DEF PublishesMail
  <2>2. work = [step |-> work.step, event |-> work.event]
    BY WorkIs
  <2> QED BY <2>1, <2>2 DEF NowAt
<1>9. FaultsOK' /\ WorkOK' /\ PassedOK'
  <2>1. UNCHANGED <<log, docs, passed, attempts, poisoned, busFaults>>
    BY <1>1, <1>8
  <2> QED BY <1>2, <1>3, <1>4, <1>7, <1>8, <2>1, MovesOn
<1> QED BY <1>2, <1>9 DEF RelayedWell

LEMMA ResolvesWell ==
    ASSUME MailRelayInv, ResolvesMessage
    PROVE  RelayedWell
<1> DEFINE known == InHand.msg \in DOMAIN mail /\ mail[InHand.msg].ses
           told == IF known THEN BuildSesEvent(InHand) ELSE {}
<1>1. /\ work.step = "resolve" /\ work' = [work EXCEPT !.step = "outbound", !.event = told]
      /\ UNCHANGED <<log, docs, passed, attempts, entries, poisoned, busFaults>>
  BY DEF ResolvesMessage
<1>2. EntriesOK' /\ ToldStays
  BY <1>1, NothingPut
<1>3. passed < Len(log) /\ \A i : i = passed + 1 => Hand(i)
  BY <1>1, WorkIs
<1>4. InHand.table = "events" /\ InHand \in EventRecords
  BY <1>1, <1>3, InHandIs DEF Hand
<1>5. \A e \in told : Good(InHand, e, docs)
  BY <1>4, SesBuilt
<1> HIDE DEF told
<1>6. NowAt("outbound", told)
  <2>1. work = [step |-> work.step, event |-> work.event]
    BY WorkIs
  <2> QED BY <1>1, <2>1 DEF NowAt
<1>7. FaultsOK' /\ WorkOK' /\ PassedOK'
  BY <1>1, <1>2, <1>3, <1>4, <1>5, <1>6, MovesOn
<1> QED BY <1>2, <1>7 DEF RelayedWell

LEMMA PutsWell ==
    ASSUME MailRelayInv, PutsEntry
    PROVE  RelayedWell
<1>1. work.step \in {"outbound", "mail"} /\ UNCHANGED <<log, docs, poisoned, busFaults>>
  BY DEF PutsEntry
<1>2. /\ passed < Len(log) /\ Total(EntryToPut.sizes) <= EntryCap
      /\ work.step = "outbound" => InHand.table = "events" /\ EntryToPut.what = "event"
      /\ work.step = "mail" =>
            \A what \in HappensIn(InHand) : Told(passed + 1, what) \/ what = EntryToPut.what
  BY <1>1, EntryInHand
<1>3. /\ Accepts
      /\ IF work.step = "outbound" /\ work.event # {} THEN Proceeds("mail") ELSE Settled
  BY <1>2 DEF PutsEntry, Accepts
<1>4. /\ EntriesOK' /\ ToldStays
      /\ \A i, what : i = passed + 1 /\ what = EntryToPut.what => Told(i, what)'
  BY <1>1, <1>3, EntryTold
<1>5. CASE work.step = "outbound" /\ work.event # {}
  <2>1. /\ \A e \in work.event : Good(InHand, e, docs)
        /\ InHand.table = "events"
    BY <1>1, <1>2, <1>5, WorkIs, InHandIs DEF Hand
  <2>2. Proceeds("mail")
    BY <1>3, <1>5
  <2>3. NowAt("mail", work.event) /\ UNCHANGED <<passed, attempts>>
    <3>1. work = [step |-> work.step, event |-> work.event]
      BY WorkIs
    <3> QED BY <2>2, <3>1 DEF Proceeds, NowAt
  <2>4. UNCHANGED <<log, docs, passed, attempts, poisoned, busFaults>>
    BY <1>1, <2>3
  <2>5. \A i : i = passed + 1 => Told(i, "event")'
    BY <1>2, <1>4, <1>5
  <2>6. FaultsOK' /\ WorkOK' /\ PassedOK'
    BY <1>2, <1>4, <1>5, <2>1, <2>3, <2>4, <2>5, MovesOn
  <2> QED BY <1>4, <2>6 DEF RelayedWell
<1>6. CASE ~(work.step = "outbound" /\ work.event # {})
  <2>1. Settled
    BY <1>3, <1>6
  <2>2. \A i, what : i = passed + 1 /\ what \in HappensIn(InHand) => Told(i, what)'
    <3>1. CASE work.step = "outbound"
      BY <1>2, <1>4, <3>1 DEF HappensIn
    <3>2. CASE work.step = "mail"
      BY <1>2, <1>4, <3>2 DEF ToldStays
    <3> QED BY <1>1, <3>1, <3>2
  <2>3. FaultsOK' /\ WorkOK' /\ PassedOK'
    BY <1>1, <1>2, <1>4, <2>1, <2>2, SettlesWell
  <2> QED BY <1>4, <2>3 DEF RelayedWell
<1> QED BY <1>5, <1>6

LEMMA FailsWell ==
    ASSUME MailRelayInv, CallFails
    PROVE  RelayedWell
<1>1. /\ work.step \in {"load", "resolve", "outbound", "mail"} /\ Retry /\ busFaults' = busFaults + 1
      /\ UNCHANGED <<log, docs, poisoned>>
      /\ UNCHANGED entries \/ (work.step \in {"outbound", "mail"} /\ Accepts)
  BY DEF CallFails, Accepts
<1>2. passed < Len(log)
  BY <1>1, WorkIs
<1>3. EntriesOK' /\ ToldStays
  <2>1. CASE UNCHANGED entries
    BY <1>1, <2>1, NothingPut
  <2>2. CASE work.step \in {"outbound", "mail"} /\ Accepts
    BY <1>1, <2>2, EntryTold
  <2> QED BY <1>1, <2>1, <2>2
<1>4. FaultsOK' /\ WorkOK' /\ PassedOK'
  BY <1>1, <1>2, <1>3, RetriesWell
<1> QED BY <1>3, <1>4 DEF RelayedWell

LEMMA GivesUpWell ==
    ASSUME MailRelayInv, GivesUp
    PROVE  RelayedWell
<1>1. /\ work = AtRest /\ attempts = MaxAttempts /\ poisoned' = poisoned \cup {passed + 1}
      /\ passed' = passed + 1 /\ attempts' = 0
      /\ log' = log /\ docs' = docs /\ work' = work /\ entries' = entries /\ busFaults' = busFaults
  BY DEF GivesUp
<1>2. EntriesOK' /\ ToldStays
  BY <1>1, NothingPut
<1>3. FaultsOK /\ passed \in Nat /\ Len(log) \in Nat /\ MaxAttempts \in Nat /\ MaxAttempts > 0
  BY SizesAreBounded DEF MailRelayInv, FaultsOK, LogOK
<1>4. FaultsOK'
  <2>1. passed' \in 0 .. Len(log') /\ poisoned' \subseteq 1 .. passed'
    BY <1>1, <1>3 DEF FaultsOK
  <2>2. IsFiniteSet(poisoned) /\ Cardinality(poisoned) \in Nat /\ passed + 1 \notin poisoned
    <3>1. poisoned \subseteq 1 .. passed /\ IsFiniteSet(1 .. passed)
      BY <1>3, FS_Interval DEF FaultsOK
    <3>2. passed + 1 \notin 1 .. passed
      BY <1>3
    <3> QED BY <3>1, <3>2, FS_Subset, FS_CardinalityType
  <2> DEFINE n == Cardinality(poisoned)
  <2>3. Cardinality(poisoned') = n + 1
    BY <1>1, <2>2, FS_AddElement
  <2>4. n * MaxAttempts + MaxAttempts <= busFaults /\ busFaults \in Nat
    BY <1>1, <1>3 DEF FaultsOK
  <2>5. n \in Nat
    BY <2>2
  <2> HIDE DEF n
  <2>6. (n + 1) * MaxAttempts = n * MaxAttempts + MaxAttempts /\ n * MaxAttempts \in Nat
    BY <1>3, <2>5
  <2>7. Cardinality(poisoned') * MaxAttempts + attempts' <= busFaults'
    BY <1>1, <1>3, <2>3, <2>4, <2>6
  <2> QED BY <1>1, <2>1, <2>4, <2>7 DEF FaultsOK
<1>5. WorkOK'
  BY <1>1 DEF WorkOK, AtRest
<1>6. PassedOK'
  <2>1. ASSUME NEW i \in (1 .. passed') \ poisoned' PROVE i \in (1 .. passed) \ poisoned
    BY <1>1, <1>3, <2>1
  <2>2. PassedOK
    BY DEF MailRelayInv
  <2> QED BY <1>1, <1>2, <2>1, <2>2 DEF PassedOK, ToldStays
<1> QED BY <1>2, <1>4, <1>5, <1>6 DEF RelayedWell

-----------------------------------------------------------------------------
(***************************************************************************)
(* The invariant.                                                          *)
(***************************************************************************)

LEMMA RelayRests ==
    ASSUME MailRelayResting, todo \in WriteScripts
    PROVE  MailRelayInv
<1>1. /\ mail = <<>> /\ docs = <<>> /\ log = <<>> /\ work = [step |-> "rest", event |-> {}] /\ passed = 0
      /\ attempts = 0 /\ entries = <<>> /\ poisoned = {} /\ busFaults = 0
  BY DEF MailRelayResting, AtRest
<1>2. Len(log) = 0 /\ Len(entries) = 0 /\ log \in Seq(Records) /\ DOMAIN mail = {} /\ DOMAIN docs = {}
  BY <1>1
<1>3. LogOK(log) /\ MailOK(mail, docs, log)
  BY <1>2 DEF LogOK, MailOK
<1>4. TodoOK(todo, mail, log)
  <2>1. todo \in Seq(Writes)
    BY ScriptsAreLegal
  <2>2. ASSUME NEW i \in 1 .. Len(todo) PROVE Fits(todo, mail, log, i)
    <3>1. /\ todo[i].op = "insert" =>
                \A j \in {j \in 1 .. (i - 1) : todo[j].op \in {"insert"}} : todo[j].msg # todo[i].msg
          /\ todo[i].op \in {"mark", "label"} =>
                \E j \in {j \in 1 .. (i - 1) : todo[j].op \in {"insert"}} : todo[j].msg = todo[i].msg
          /\ todo[i].op = "event" =>
                \A j \in {j \in 1 .. (i - 1) : todo[j].op \in {"event"}} :
                   todo[j].record.sns # todo[i].record.sns
      BY ScriptsAreLegal
    <3> QED BY <1>2, <3>1 DEF Fits
  <2> QED BY <2>1, <2>2 DEF TodoOK
<1>5. FaultsOK
  <2>1. Cardinality(poisoned) = 0
    BY <1>1, FS_EmptySet
  <2> QED BY <1>1, <1>2, <2>1, SizesAreBounded DEF FaultsOK
<1>6. WorkOK
  BY <1>1 DEF WorkOK
<1>7. EntriesOK
  <2>1. entries \in Seq({entries[k] : k \in 1 .. Len(entries)})
    BY <1>1
  <2> QED BY <1>2, <2>1 DEF EntriesOK, IsSeq
<1>8. PassedOK
  BY <1>1 DEF PassedOK
<1> QED BY <1>3, <1>4, <1>5, <1>6, <1>7, <1>8 DEF MailRelayInv

LEMMA RelaySteps ==
    ASSUME MailRelayInv, [MailRelayNext]_mailRelayVars
    PROVE  MailRelayInv'
<1>1. ASSUME UNCHANGED <<todo, mail, docs, log>>, RelayedWell PROVE MailRelayInv'
  BY <1>1 DEF MailRelayInv, RelayedWell
<1>2. ASSUME WroteWell, UNCHANGED <<work, passed, attempts, entries, poisoned, busFaults>> PROVE MailRelayInv'
  <2>1. FaultsOK' /\ WorkOK' /\ EntriesOK' /\ PassedOK'
    BY <1>2, TablesChange
  <2> QED BY <1>2, <2>1 DEF MailRelayInv, WroteWell
<1>3. LogOK(log) /\ MailOK(mail, docs, log) /\ TodoOK(todo, mail, log)
  BY DEF MailRelayInv
<1>4. CASE MailWrite
  <2>1. UNCHANGED <<work, passed, attempts, entries, poisoned, busFaults>>
    BY <1>4 DEF MailWrite
  <2> QED BY <1>2, <1>3, <1>4, <2>1, MailWrites
<1>5. CASE DocumentExpires
  <2>1. PICK m \in DOMAIN docs : docs' = [k \in DOMAIN docs \ {m} |-> docs[k]]
    BY <1>5 DEF DocumentExpires
  <2>2. UNCHANGED <<todo, mail, log, work, passed, attempts, entries, poisoned, busFaults>>
    BY <1>5 DEF DocumentExpires
  <2>3. MailOK(mail', docs', log')
    BY <1>3, <2>1, <2>2 DEF MailOK
  <2>4. \A n \in DOMAIN docs' \cap DOMAIN mail : n \in DOMAIN docs /\ docs'[n] = docs[n]
    BY <2>1
  <2>5. Len(log) \in Nat
    BY <1>3 DEF LogOK
  <2>6. WroteWell
    BY <1>3, <2>2, <2>3, <2>4, <2>5 DEF WroteWell
  <2> QED BY <1>2, <2>2, <2>6
<1>6. CASE TakesRecord
  BY <1>1, <1>6, TakesWell DEF TakesRecord
<1>7. CASE LoadsContent
  BY <1>1, <1>7, LoadsWell DEF LoadsContent
<1>8. CASE ResolvesMessage
  BY <1>1, <1>8, ResolvesWell DEF ResolvesMessage
<1>9. CASE PutsEntry
  BY <1>1, <1>9, PutsWell DEF PutsEntry
<1>10. CASE CallFails
  BY <1>1, <1>10, FailsWell DEF CallFails
<1>11. CASE GivesUp
  BY <1>1, <1>11, GivesUpWell DEF GivesUp
<1>12. CASE UNCHANGED mailRelayVars
  BY <1>12 DEF mailRelayVars, MailRelayInv, FaultsOK, WorkOK, Hand, Told, EntriesOK, PassedOK
<1> QED BY <1>4, <1>5, <1>6, <1>7, <1>8, <1>9, <1>10, <1>11, <1>12 DEF MailRelayNext

\* Whatever is written, however the relay is interrupted and retried, the record
\* in hand, the entries and the records settled agree with the stream.
THEOREM MailRelayInvariant == MailRelaySpec => []MailRelayInv
<1>1. MailRelayResting /\ todo \in WriteScripts => MailRelayInv
  BY RelayRests
<1>2. MailRelayInv /\ [MailRelayNext]_mailRelayVars => MailRelayInv'
  BY RelaySteps
<1> QED BY <1>1, <1>2, PTL DEF MailRelaySpec

-----------------------------------------------------------------------------
(***************************************************************************)
(* What follows from it.                                                   *)
(***************************************************************************)

LEMMA HappeningIs ==
    ASSUME LogOK(log), NEW i \in 1 .. Len(log)
    PROVE  Happening(i) = HappensIn(log[i])
<1> DEFINE r == log[i]
<1>1. r \in Records /\ Follows(log, i - 1, r) /\ DOMAIN log = 1 .. Len(log)
  BY DEF LogOK
<1>2. CASE r.table = "events"
  BY <1>2 DEF Happening, HappensIn
<1>3. CASE r.table # "events"
  <2>1. r.table = "mail" /\ r.event \in {"INSERT", "MODIFY"}
    BY <1>1, <1>3 DEF Records, MailRecords, EventRecords
  <2>2. i \in SentAt(r.msg) <=> "sent" \in r.new.labels /\ ~SentBy(log, r.msg, i - 1)
    BY <1>1, <2>1 DEF SentAt, SentBy, OfMail
  <2>3. CASE r.event = "INSERT"
    <3>1. i \notin SentAt(r.msg)
      BY <1>1, <2>1, <2>2, <2>3 DEF Follows
    <3> QED BY <1>3, <2>3, <3>1 DEF Happening, HappensIn
  <2>4. CASE r.event = "MODIFY"
    <3>1. i \in SentAt(r.msg) <=> IsSentRelabel(r)
      BY <1>1, <2>1, <2>2, <2>4 DEF Follows, IsSentRelabel
    <3> QED BY <1>3, <2>4, <3>1 DEF Happening, HappensIn
  <2> QED BY <2>1, <2>3, <2>4
<1> QED BY <1>2, <1>3

LEMMA SettledTold ==
    ASSUME MailRelayInv
    PROVE  SettledMeansAnnounced
<1>1. /\ LogOK(log) /\ passed \in 0 .. Len(log) /\ Len(log) \in Nat
  BY DEF MailRelayInv, FaultsOK, LogOK
<1>2. DOMAIN entries = 1 .. Len(entries)
  BY DEF MailRelayInv, EntriesOK, IsSeq
<1>3. ASSUME NEW i \in (1 .. passed) \ poisoned
      PROVE  LET told == {entries[k].what : k \in EntriesOf(i)}
             IN  /\ Happening(i) \subseteq told
                 /\ told \ Happening(i) # {} =>
                       log[i].table = "events" /\ told \ Happening(i) = {MailboxEventType[log[i].kind]}
  <2> DEFINE told == {entries[k].what : k \in EntriesOf(i)}
  <2>1. i \in 1 .. Len(log) /\ log[i] \in Records
    BY <1>1, <1>3 DEF LogOK
  <2>2. Happening(i) = HappensIn(log[i])
    BY <1>1, <2>1, HappeningIs
  <2>3. \A what : what \in told <=> Told(i, what)
    BY <1>2 DEF EntriesOf, Told
  <2>4. \A what \in told : \E id : Announces(log[i], what, id)
    <3>1. EntriesOK
      BY DEF MailRelayInv
    <3> QED BY <2>3, <3>1 DEF Told, EntriesOK
  <2> HIDE DEF told
  <2>5. Happening(i) \subseteq told
    BY <2>2, <2>3 DEF MailRelayInv, PassedOK
  <2>6. \A what \in told \ Happening(i) :
           log[i].table = "events" /\ what = MailboxEventType[log[i].kind]
    <3>1. ASSUME NEW what \in told, what \notin HappensIn(log[i])
          PROVE  log[i].table = "events" /\ what = MailboxEventType[log[i].kind]
      <4>1. PICK id : Announces(log[i], what, id)
        BY <2>4
      <4> QED BY <2>1, <3>1, <4>1 DEF Announces, HappensIn
    <3> QED BY <2>2, <3>1
  <2>7. told \ Happening(i) # {} => told \ Happening(i) = {MailboxEventType[log[i].kind]}
    BY <2>6
  <2> QED BY <2>5, <2>6, <2>7 DEF told
<1> QED BY <1>3 DEF SettledMeansAnnounced

\* stream.rs: a record the relay has settled has announced exactly what happened
\* with it.
THEOREM AnnouncesWhatHappened == MailRelaySpec => []SettledMeansAnnounced
<1>1. MailRelayInv => SettledMeansAnnounced
  BY SettledTold
<1> QED BY <1>1, MailRelayInvariant, PTL

LEMMA TypesDiffer ==
    ASSUME NEW relabelled, NEW k \in DOMAIN MailboxEventType
    PROVE  /\ ReceivedEventType(relabelled) \in {"received", "received.spam", "received.unauthenticated"}
           /\ MailboxEventType[k] \in {"delivered", "bounced", "complained", "rejected", "opened"}
<1>1. ReceivedEventType(relabelled) \in {"received", "received.spam", "received.unauthenticated"}
  BY DEF ReceivedEventType
<1>2. MailboxEventType[k] \in {"delivered", "bounced", "complained", "rejected", "opened"}
  BY DEF MailboxEventType
<1> QED BY <1>1, <1>2

\* What an id shows of the record it announces.
ShowsNotification(r, id) == r.table = "events" /\ Len(id) = 1 /\ id[1] = r.sns

ShowsMailboxEvent(r, id) ==
    /\ r.table = "events" /\ Len(id) = 4 /\ id[3] = r.sns
    /\ id[2] \in {"delivered", "bounced", "complained", "rejected", "opened"}

ShowsArrival(r, id) ==
    /\ r.table = "mail" /\ r.event = "INSERT" /\ Len(id) = 4 /\ id[1] = r.msg
    /\ id[2] \in {"received", "received.spam", "received.unauthenticated"}

ShowsSending(r, id) ==
    /\ r.table = "mail" /\ r.event = "MODIFY" /\ IsSentRelabel(r)
    /\ Len(id) = 4 /\ id[1] = r.msg /\ id[2] = "sent"

LEMMA IdShows ==
    ASSUME NEW r, NEW what, NEW id, Announces(r, what, id)
    PROVE  ShowsNotification(r, id) \/ ShowsMailboxEvent(r, id) \/ ShowsArrival(r, id) \/ ShowsSending(r, id)
<1>1. CASE r.table = "events" /\ what = "event" /\ id = <<r.sns>>
  BY <1>1 DEF ShowsNotification
<1>2. CASE /\ r.table = "events" /\ r.kind \in DOMAIN MailboxEventType
           /\ what = MailboxEventType[r.kind] /\ id = SesEventId(r.msg, what, r.sns, r.at)
  <2>1. what \in {"delivered", "bounced", "complained", "rejected", "opened"}
    BY <1>2, TypesDiffer
  <2>2. Len(id) = 4 /\ id[3] = r.sns /\ id[2] = what
    BY <1>2 DEF SesEventId
  <2> QED BY <1>2, <2>1, <2>2 DEF ShowsMailboxEvent
<1>3. CASE /\ r.table = "mail" /\ r.event = "INSERT" /\ "received" \in r.new.labels
           /\ what = ReceivedEventType(r.new.labels) /\ id = EventId(r.msg, what, Letters[r.msg].at)
  <2>1. what \in {"received", "received.spam", "received.unauthenticated"}
    BY <1>3 DEF ReceivedEventType
  <2>2. Len(id) = 4 /\ id[1] = r.msg /\ id[2] = what
    BY <1>3 DEF EventId
  <2> QED BY <1>3, <2>1, <2>2 DEF ShowsArrival
<1>4. CASE /\ r.table = "mail" /\ r.event = "MODIFY" /\ IsSentRelabel(r)
           /\ what = "sent" /\ id = EventId(r.msg, what, Letters[r.msg].sentAt)
  <2>1. Len(id) = 4 /\ id[1] = r.msg /\ id[2] = "sent"
    BY <1>4 DEF EventId
  <2> QED BY <1>4, <2>1 DEF ShowsSending
<1> QED BY <1>1, <1>2, <1>3, <1>4 DEF Announces

LEMMA RecordsApart ==
    ASSUME LogOK(log), NEW i \in 1 .. Len(log), NEW j \in 1 .. Len(log), i < j,
           NEW what, NEW id, Announces(log[i], what, id), NEW that, Announces(log[j], that, id)
    PROVE  FALSE
<1> DEFINE r == log[i]
           q == log[j]
<1>1. r \in Records /\ q \in Records /\ Follows(log, j - 1, q) /\ i \in 1 .. (j - 1)
  BY DEF LogOK
<1>2. /\ ShowsNotification(r, id) \/ ShowsMailboxEvent(r, id) \/ ShowsArrival(r, id) \/ ShowsSending(r, id)
      /\ ShowsNotification(q, id) \/ ShowsMailboxEvent(q, id) \/ ShowsArrival(q, id) \/ ShowsSending(q, id)
  BY IdShows
<1>3. CASE ShowsNotification(r, id)
  <2>1. ShowsNotification(q, id)
    BY <1>2, <1>3 DEF ShowsNotification, ShowsMailboxEvent, ShowsArrival, ShowsSending
  <2> QED BY <1>1, <1>3, <2>1 DEF Follows, ShowsNotification
<1>4. CASE ShowsMailboxEvent(r, id)
  <2>1. ShowsMailboxEvent(q, id)
    BY <1>2, <1>4 DEF ShowsNotification, ShowsMailboxEvent, ShowsArrival, ShowsSending
  <2> QED BY <1>1, <1>4, <2>1 DEF Follows, ShowsMailboxEvent
<1>5. CASE ShowsArrival(r, id)
  <2>1. ShowsArrival(q, id)
    BY <1>2, <1>5 DEF ShowsNotification, ShowsMailboxEvent, ShowsArrival, ShowsSending
  <2> QED BY <1>1, <1>5, <2>1 DEF Follows, OfMail, ShowsArrival
<1>6. CASE ShowsSending(r, id)
  <2>1. ShowsSending(q, id)
    BY <1>2, <1>6 DEF ShowsNotification, ShowsMailboxEvent, ShowsArrival, ShowsSending
  <2>2. SentBy(log, q.msg, j - 1)
    BY <1>1, <1>6, <2>1 DEF SentBy, OfMail, IsSentRelabel, ShowsSending
  <2> QED BY <1>1, <2>1, <2>2 DEF Follows, IsSentRelabel, ShowsSending
<1> QED BY <1>2, <1>3, <1>4, <1>5, <1>6

LEMMA HappeningsApart ==
    ASSUME NEW r, NEW what, NEW id, Announces(r, what, id), NEW that, NEW ie, Announces(r, that, ie)
    PROVE  id = ie <=> what = that
<1>1. CASE r.table = "events" /\ what = "event" /\ id = <<r.sns>>
  <2>1. CASE that = "event" /\ ie = <<r.sns>>
    BY <1>1, <2>1
  <2>2. CASE /\ r.kind \in DOMAIN MailboxEventType /\ that = MailboxEventType[r.kind]
             /\ ie = SesEventId(r.msg, that, r.sns, r.at)
    BY <1>1, <2>2, TypesDiffer DEF SesEventId
  <2> QED BY <1>1, <2>1, <2>2 DEF Announces
<1>2. CASE /\ r.table = "events" /\ r.kind \in DOMAIN MailboxEventType
           /\ what = MailboxEventType[r.kind] /\ id = SesEventId(r.msg, what, r.sns, r.at)
  <2>1. CASE that = "event" /\ ie = <<r.sns>>
    BY <1>2, <2>1, TypesDiffer DEF SesEventId
  <2>2. CASE that = MailboxEventType[r.kind] /\ ie = SesEventId(r.msg, that, r.sns, r.at)
    BY <1>2, <2>2
  <2> QED BY <1>2, <2>1, <2>2 DEF Announces
<1>3. CASE /\ r.table = "mail" /\ r.event = "INSERT" /\ "received" \in r.new.labels
           /\ what = ReceivedEventType(r.new.labels) /\ id = EventId(r.msg, what, Letters[r.msg].at)
  BY <1>3 DEF Announces
<1>4. CASE /\ r.table = "mail" /\ r.event = "MODIFY" /\ IsSentRelabel(r)
           /\ what = "sent" /\ id = EventId(r.msg, what, Letters[r.msg].sentAt)
  BY <1>4 DEF Announces
<1> QED BY <1>1, <1>2, <1>3, <1>4 DEF Announces

LEMMA IdsApart ==
    ASSUME MailRelayInv
    PROVE  IdsTellHappeningsApart
<1>1. LogOK(log) /\ Len(log) \in Nat
  BY DEF MailRelayInv, LogOK
<1>2. DOMAIN entries = 1 .. Len(entries)
  BY DEF MailRelayInv, EntriesOK, IsSeq
<1>3. ASSUME NEW j \in 1 .. Len(entries), NEW k \in 1 .. Len(entries)
      PROVE  (entries[j].id = entries[k].id) <=>
                (entries[j].rec = entries[k].rec /\ entries[j].what = entries[k].what)
  <2> DEFINE a == entries[j]
             b == entries[k]
  <2>1. /\ a.rec \in 1 .. Len(log) /\ Announces(log[a.rec], a.what, a.id)
        /\ b.rec \in 1 .. Len(log) /\ Announces(log[b.rec], b.what, b.id)
    BY DEF MailRelayInv, EntriesOK
  <2> HIDE DEF a, b
  <2>2. CASE a.rec = b.rec
    <3>1. Announces(log[a.rec], a.what, a.id) /\ Announces(log[a.rec], b.what, b.id)
      BY <2>1, <2>2
    <3>2. a.id = b.id <=> a.what = b.what
      BY <3>1, HappeningsApart
    <3> QED BY <2>2, <3>2 DEF a, b
  <2>3. CASE a.rec < b.rec
    <3>1. ASSUME a.id = b.id PROVE FALSE
      <4>1. Announces(log[a.rec], a.what, a.id) /\ Announces(log[b.rec], b.what, a.id)
        BY <2>1, <3>1
      <4> QED BY <1>1, <2>1, <2>3, <4>1, RecordsApart
    <3>2. a.id # b.id /\ a.rec # b.rec
      BY <1>1, <2>1, <2>3, <3>1
    <3> QED BY <3>2 DEF a, b
  <2>4. CASE b.rec < a.rec
    <3>1. ASSUME a.id = b.id PROVE FALSE
      <4>1. Announces(log[b.rec], b.what, b.id) /\ Announces(log[a.rec], a.what, b.id)
        BY <2>1, <3>1
      <4> QED BY <1>1, <2>1, <2>4, <4>1, RecordsApart
    <3>2. a.id # b.id /\ a.rec # b.rec
      BY <1>1, <2>1, <2>4, <3>1
    <3> QED BY <3>2 DEF a, b
  <2>5. a.rec = b.rec \/ a.rec < b.rec \/ b.rec < a.rec
    BY <1>1, <2>1
  <2> QED BY <2>2, <2>3, <2>4, <2>5
<1> QED BY <1>2, <1>3 DEF IdsTellHappeningsApart

\* ids.rs: entries have one id exactly if they are the same announcement of the
\* same record, however often it was retried.
THEOREM IdsAreTheHappenings == MailRelaySpec => []IdsTellHappeningsApart
<1>1. MailRelayInv => IdsTellHappeningsApart
  BY IdsApart
<1> QED BY <1>1, MailRelayInvariant, PTL

\* publish.rs and events.rs: whatever the sizes of what was received or sent, a
\* detail fits an entry, what is needed to find the message is in it, and a record
\* is given up only after as many faults as it has retries.
THEOREM EveryDetailFits == MailRelaySpec => []DetailsFit
<1>1. ASSUME MailRelayInv PROVE OnlyFaultsPoison
  <2>1. /\ poisoned \subseteq 1 .. passed /\ passed \in Nat /\ attempts \in Nat /\ busFaults \in Nat
        /\ Cardinality(poisoned) * MaxAttempts + attempts <= busFaults
    BY <1>1 DEF MailRelayInv, FaultsOK, LogOK
  <2>2. IsFiniteSet(1 .. passed)
    BY <2>1, FS_Interval
  <2>3. Cardinality(poisoned) \in Nat
    BY <2>1, <2>2, FS_Subset, FS_CardinalityType
  <2> DEFINE n == Cardinality(poisoned) * MaxAttempts
  <2>4. n \in Nat
    BY <2>3, SizesAreBounded
  <2>5. n + attempts <= busFaults
    BY <2>1
  <2> HIDE DEF n
  <2>6. n <= busFaults
    BY <2>1, <2>4, <2>5
  <2> QED BY <2>6 DEF OnlyFaultsPoison, n
<1>2. ASSUME MailRelayInv PROVE LittleIsDropped
  <2>1. DOMAIN entries = 1 .. Len(entries)
    BY <1>2 DEF MailRelayInv, EntriesOK, IsSeq
  <2>2. \A k \in 1 .. Len(entries) :
           CutAsItShould(log[entries[k].rec], entries[k].what, entries[k].sizes, docs)
    BY <1>2 DEF MailRelayInv, EntriesOK
  <2> QED BY <2>1, <2>2 DEF LittleIsDropped, CutAsItShould
<1>3. MailRelayInv => DetailsFit
  BY <1>1, <1>2 DEF DetailsFit
<1> QED BY <1>3, MailRelayInvariant, PTL
=============================================================================
